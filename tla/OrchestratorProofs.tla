------------------------- MODULE OrchestratorProofs -------------------------
(***************************************************************************)
(* Proofs about Orchestrator: its type invariant, CompletedIsIndexed,      *)
(* SkippedIsIndexed, OneRowPerMail, SettledStaysSettled,                   *)
(* SummaryAccountsForAll, WrittenIsExact and Backpressure, that it         *)
(* implements Catalog, and that Catalog keeps its promise; for any units,  *)
(* mails, workers, contents and bounds.                                    *)
(***************************************************************************)
EXTENDS Orchestrator, SequenceTheorems, FiniteSetTheorems, TLAPS

-----------------------------------------------------------------------------
(* What an upsert does to the rows of the mails table *)

\* An upsert keeps a fresh mail fresh, unless it stores it as another version of its file.
LEMMA FreshKept ==
  ASSUME NEW rows, NEW f, NEW v, NEW k, NEW g, NEW u, NEW ks,
         Fresh(rows, f, v, k), g = f => u = v
  PROVE  Fresh(Upserted(rows, g, u, ks), f, v, k)
<1> DEFINE new == [mail |-> k, file |-> g, version |-> u]
<1>1. PICK r \in rows : r.mail = k
  BY DEF Fresh
<1>2. \E s \in Upserted(rows, g, u, ks) : s.mail = k
  <2>1. CASE k \in ks
    <3>1. new \in Upserted(rows, g, u, ks) /\ new.mail = k
      BY <2>1 DEF Upserted
    <3>. QED
      BY <3>1
  <2>2. CASE k \notin ks
    <3>1. r \in Upserted(rows, g, u, ks)
      BY <1>1, <2>2 DEF Upserted
    <3>. QED
      BY <1>1, <3>1
  <2>. QED
    BY <2>1, <2>2
<1>3. ASSUME NEW s \in Upserted(rows, g, u, ks), s.mail = k, s.file = f
      PROVE  s.version = v
  <2>1. CASE s \in rows
    BY <1>3, <2>1 DEF Fresh
  <2>2. CASE s \notin rows
    <3>1. s.file = g /\ s.version = u
      BY <2>2 DEF Upserted
    <3>. QED
      BY <1>3, <3>1
  <2>. QED
    BY <2>1, <2>2
<1>. QED
  BY <1>2, <1>3 DEF Fresh

\* The mails of an upsert are fresh after it.
LEMMA FreshMade ==
  ASSUME NEW rows, NEW f, NEW v, NEW ks, NEW k \in ks
  PROVE  Fresh(Upserted(rows, f, v, ks), f, v, k)
<1> DEFINE new == [mail |-> k, file |-> f, version |-> v]
<1>1. new \in Upserted(rows, f, v, ks) /\ new.mail = k
  BY DEF Upserted
<1>2. ASSUME NEW s \in Upserted(rows, f, v, ks), s.mail = k PROVE s.version = v
  BY <1>2 DEF Upserted
<1>. QED
  BY <1>1, <1>2 DEF Fresh

\* An upsert adds no second row for a mail.
LEMMA UniqueKept ==
  ASSUME NEW rows, NEW f, NEW v, NEW ks,
         \A r, s \in rows : r.mail = s.mail => r = s
  PROVE  \A r, s \in Upserted(rows, f, v, ks) : r.mail = s.mail => r = s
  BY DEF Upserted

-----------------------------------------------------------------------------
(* The inductive invariant *)

Looping == mpc \in {"opening", "top", "get", "empty", "handle", "record"}

\* f has not changed since this run stamped it.
Unchanged(f) == plan[f] = disk[f]

\* A message in flight is about a job; a batch was read from a version the file has had
\* since it was stamped.
MsgOK(m) ==
  /\ m.kind # "none" /\ m.file \in jobs
  /\ m.kind = "batch" => /\ m.version \in plan[m.file]..disk[m.file]
                         /\ Range(m.mails) \subseteq MailsOf(m.file, m.version)

BatchWith(m, f, k) == m.kind = "batch" /\ m.file = f /\ k \in Range(m.mails)

\* Mail k of f is in the table, or on its way: the main process is about to store it, or
\* it is among the first n messages of w.
Covered(f, k, w, n) ==
  \/ Fresh(db, f, disk[f], k)
  \/ mpc = "handle" /\ BatchWith(cur, f, k)
  \/ \E i \in 1..n : BatchWith(chan[w][i], f, k)

\* What is in flight is about jobs of this run, and outside a run nothing is in flight.
PoolInv ==
  /\ \A w \in Workers : wst[w] \in {"opening", "parsing"} => wfile[w] \in jobs
  /\ \A w \in Workers : wst[w] = "opening" => wpos[w] = 0
  /\ \A w \in Workers : \A i \in 1..Len(chan[w]) : MsgOK(chan[w][i])
  /\ mpc \in {"handle", "record"} => MsgOK(cur)
  /\ mpc = "record" => cur.kind = "batch"
  /\ fileq \subseteq jobs
  /\ mpc \in {"idle", "planning"} =>
       /\ fileq = {}
       /\ \A w \in Workers : wst[w] = "off" /\ chan[w] = <<>>

\* A unit is skipped, failed or a job, stamped with a version it has had; the log holds
\* stamps of versions that existed, those of this run for its jobs.
PlanInv ==
  /\ mpc # "idle" => /\ \A f \in jobs \cup summary.failed : plan[f] \in 1..disk[f]
                     /\ summary.skipped \cap (jobs \cup summary.failed) = {}
                     /\ todo \cap (jobs \cup summary.failed \cup summary.skipped) = {}
                     /\ \A f \in summary.skipped : log[f].status = "COMPLETED"
                                                   /\ log[f].stamp = plan[f]
  /\ \A f \in Files : log[f].stamp <= disk[f]
  /\ \A f \in Files : log[f].status = "COMPLETED" => log[f].stamp >= 1
  /\ mpc \notin {"idle", "planning"} => \A f \in jobs : log[f].stamp = plan[f]

\* Of an unchanged file: what worker w has read of it, what a "done" in the queue of w
\* closes, and what the main process knows when it handles that "done".
ReadCovered(w, f) ==
  wst[w] = "parsing" /\ wfile[w] = f /\ Unchanged(f) =>
    \A k \in MailsIn(f, disk[f], wpos[w]) : Covered(f, k, w, Len(chan[w]))
DoneCovered(w, j, f) ==
  chan[w][j].kind = "done" /\ chan[w][j].file = f /\ Unchanged(f) =>
    \A k \in MailsOf(f, disk[f]) : Covered(f, k, w, j - 1)
DoneHeld(f) ==
  mpc = "handle" /\ cur.kind = "done" /\ cur.file = f /\ Unchanged(f) =>
    Holds(db, f, disk[f])

FileCovered(f) ==
  /\ DoneHeld(f)
  /\ \A w \in Workers : /\ ReadCovered(w, f)
                        /\ \A j \in 1..Len(chan[w]) : DoneCovered(w, j, f)

\* While the loop may run, every unchanged file is covered: this is what "done" rests on.
CoverInv == Looping => \A f \in Files : FileCovered(f)

\* The inductive invariant.
IInv == TypeOK /\ PoolInv /\ PlanInv /\ CoverInv /\ CompletedIsIndexed

-----------------------------------------------------------------------------
(* Type correctness *)

\* A modification makes a file one version later, at most the last.
LEMMA ModifyType ==
  ASSUME TypeOK, NEW f \in Files, Modify(f)
  PROVE  /\ disk' \in [Files -> 1..MaxVersion]
         /\ \A g \in Files : disk[g] <= disk'[g]
<1>1. /\ disk \in [Files -> 1..MaxVersion]
      /\ disk[f] < MaxVersion
      /\ disk' = [disk EXCEPT ![f] = @ + 1]
  BY DEF TypeOK, Modify
<1>2. MaxVersion \in Nat
  BY ContentAssumption
<1>3. disk[f] + 1 \in 1..MaxVersion
  BY <1>1, <1>2
<1>4. disk' \in [Files -> 1..MaxVersion]
  BY <1>1, <1>3
<1>5. ASSUME NEW g \in Files PROVE disk[g] <= disk'[g]
  <2>1. disk[g] \in Int /\ (disk'[g] = disk[g] \/ disk'[g] = disk[g] + 1)
    BY <1>1
  <2>. QED
    BY <2>1
<1>. QED
  BY <1>4, <1>5

USE ContentAssumption, OrchestratorAssumption

\* An item a worker reads is an item.
LEMMA ItemType ==
  ASSUME NEW f \in Files, NEW v \in 1..MaxVersion, NEW i \in 1..Len(Content[f][v])
  PROVE  /\ Content[f][v][i].kind \in {"batch", "errors"}
         /\ Content[f][v][i].mails \in Seq(Mails)
         /\ Content[f][v][i].kind = "errors" => Content[f][v][i].mails = <<>>
<1>1. Content[f][v] \in Seq(Item)
  OBVIOUS
<1>2. Content[f][v][i] \in Item
  BY <1>1, ElementOfSeq
<1>3. CASE Content[f][v][i] \in [kind : {"batch"}, mails : Seq(Mails)]
  BY <1>3
<1>4. CASE Content[f][v][i] \in [kind : {"errors"}, mails : {<<>>}]
  <2>1. <<>> \in Seq(Mails)
    OBVIOUS
  <2>. QED
    BY <1>4, <2>1
<1>. QED
  BY <1>2, <1>3, <1>4 DEF Item

\* The message that carries an item is a message, of mails of the version it was read from.
LEMMA ItemMessage ==
  ASSUME NEW f \in Files, NEW v \in 1..MaxVersion, NEW i \in 1..Len(Content[f][v])
  PROVE  /\ [kind |-> Content[f][v][i].kind, file |-> f,
             mails |-> Content[f][v][i].mails, version |-> v] \in Message
         /\ Range(Content[f][v][i].mails) \subseteq MailsOf(f, v)
<1>1. Content[f][v][i].kind \in {"batch", "errors"} /\ Content[f][v][i].mails \in Seq(Mails)
  BY ItemType
<1>2. v \in Nat
  OBVIOUS
<1>3. \A k, ms : k \in {"batch", "errors"} /\ ms \in Seq(Mails) =>
        [kind |-> k, file |-> f, mails |-> ms, version |-> v] \in Message
  BY <1>2 DEF Message
<1>4. Range(Content[f][v][i].mails) \subseteq MailsOf(f, v)
  BY Zenon DEF MailsOf, MailsIn
<1>. QED
  BY <1>1, <1>3, <1>4

\* A job was stamped with a version it has had.
LEMMA JobStamp ==
  ASSUME TypeOK, PlanInv, mpc # "idle", NEW f \in jobs
  PROVE  plan[f] \in Nat /\ disk[f] \in Nat /\ plan[f] <= disk[f]
<1>1. f \in Files /\ disk \in [Files -> 1..MaxVersion] /\ plan \in [Files -> 0..MaxVersion]
  BY DEF TypeOK
<1>2. plan[f] \in 1..disk[f]
  BY DEF PlanInv
<1>. QED
  BY <1>1, <1>2

\* A worker that puts an item is at an item of the file it parses.
LEMMA ReadsItem ==
  ASSUME TypeOK, PoolInv, NEW w \in Workers, PutItem(w)
  PROVE  /\ wfile[w] \in jobs /\ wfile[w] \in Files /\ disk[wfile[w]] \in 1..MaxVersion
         /\ wpos[w] \in Nat
         /\ wpos[w] + 1 \in 1..Len(Content[wfile[w]][disk[wfile[w]]])
<1>1. wfile[w] \in jobs
  BY DEF PoolInv, PutItem
<1>2. jobs \subseteq Files /\ disk \in [Files -> 1..MaxVersion] /\ wpos \in [Workers -> Nat]
  BY DEF TypeOK
<1>3. wfile[w] \in Files /\ disk[wfile[w]] \in 1..MaxVersion
  BY <1>1, <1>2
<1>4. Content[wfile[w]][disk[wfile[w]]] \in Seq(Item)
  BY <1>3
<1>5. wpos[w] \in Nat /\ wpos[w] + 1 <= Len(Content[wfile[w]][disk[wfile[w]]])
  BY <1>2 DEF PutItem
<1>6. Len(Content[wfile[w]][disk[wfile[w]]]) \in Nat
  BY <1>4
<1>. QED
  BY <1>1, <1>3, <1>5, <1>6

\* A put keeps the queue a queue of messages.
LEMMA PutType ==
  ASSUME TypeOK, NEW w \in Workers, NEW m \in Message, Put(w, m)
  PROVE  /\ chan' \in [Workers -> Seq(Message)]
         /\ slots' \in Nat
  BY DEF TypeOK, Put

\* A message without mails is a message.
LEMMA MsgType ==
  ASSUME NEW f \in Files, NEW k \in {"none", "resolved", "batch", "errors", "done", "failed"}
  PROVE  Msg(k, f) \in Message
  BY DEF Msg, Message

\* What no dead worker left is well-typed.
LEMMA NoneLeftType == NoneLeft \in Left
  BY DEF NoneLeft, Left

\* The pool of no run is well-typed.
LEMMA ResetPoolType ==
  ASSUME ResetPool
  PROVE  /\ fileq' \subseteq Files
         /\ wst' \in [Workers -> {"off", "idle", "opening", "parsing", "exited", "dead"}]
         /\ wfile' \in [Workers -> Files \cup {NoFile}]
         /\ wpos' \in [Workers -> Nat]
         /\ chan' \in [Workers -> Seq(Message)]
         /\ slots' \in Nat
         /\ left' \in Left
  BY NoneLeftType DEF ResetPool

\* An upsert keeps the table a table.
LEMMA UpsertType ==
  ASSUME NEW rows \in SUBSET Row, NEW f \in Files, NEW v \in Nat, NEW ks \in SUBSET Mails
  PROVE  Upserted(rows, f, v, ks) \subseteq Row
  BY DEF Upserted, Row

\* What one more dead worker leaves, with p[u] of the messages of u in the pipe.
LEMMA DeathType ==
  ASSUME TypeOK, NEW w \in Workers, WorkerDies(w)
  PROVE  left' \in Left
<1>1. PICK n \in 0..Len(chan[w]), files \in BOOLEAN, half \in BOOLEAN :
        \/ left' = [left EXCEPT !.files = files]
        \/ \E p \in Piped(w, n) :
             left' = [files |-> files, lock |-> TRUE, half |-> half, piped |-> p]
  BY DEF WorkerDies
<1>2. Piped(w, n) \subseteq [Workers -> Nat]
  <2>1. UNION {0..Len(chan[u]) : u \in Workers} \subseteq Nat
    BY DEF TypeOK
  <2>. QED
    BY <2>1 DEF Piped
<1>3. left \in Left
  BY DEF TypeOK
<1>4. CASE left' = [left EXCEPT !.files = files]
  BY <1>3, <1>4 DEF Left
<1>5. ASSUME NEW p \in Piped(w, n),
             left' = [files |-> files, lock |-> TRUE, half |-> half, piped |-> p]
      PROVE  left' \in Left
  <2>1. p \in [Workers -> Nat]
    BY <1>2
  <2>. QED
    BY <1>5, <2>1 DEF Left
<1>. QED
  BY <1>1, <1>4, <1>5

\* Of the messages in the pipe, one less.
LEMMA ReceiveType ==
  ASSUME TypeOK, NEW w \in Workers, Receive(w)
  PROVE  left' \in Left
<1>1. CASE ~left.lock
  BY <1>1 DEF TypeOK, Receive
<1>2. CASE left.lock
  <2>1. left \in Left /\ left.piped \in [Workers -> Nat] /\ left.piped[w] > 0
    BY <1>2 DEF TypeOK, Left, Receive, Arrived
  <2>2. [left.piped EXCEPT ![w] = @ - 1] \in [Workers -> Nat]
    BY <2>1
  <2>3. left' = [left EXCEPT !.piped = [left.piped EXCEPT ![w] = @ - 1]]
    BY <1>2, <2>1 DEF Receive, Left
  <2>. QED
    BY <2>1, <2>2, <2>3 DEF Left
<1>. QED
  BY <1>1, <1>2

\* The initial state is well-typed.
LEMMA TypeInit == Init => TypeOK
<1> SUFFICES ASSUME Init PROVE TypeOK
  OBVIOUS
<1>1. NoMsg \in Message
  BY DEF NoMsg, Msg, Message
<1>2. /\ NoState \in FileState
      /\ NoSummary \in Summary
  BY DEF NoState, FileState, Statuses, NoSummary, Summary
<1>3. /\ disk \in [Files -> 1..MaxVersion]
      /\ plan \in [Files -> 0..MaxVersion]
      /\ runs \in 0..MaxRuns /\ deaths \in 0..MaxDeaths
  BY DEF Init
<1>4. /\ log \in [Files -> FileState]
      /\ summary \in Summary
      /\ cur \in Message
  BY <1>1, <1>2 DEF Init
<1>5. chan \in [Workers -> Seq(Message)]
  BY DEF Init
<1>. QED
  BY <1>3, <1>4, <1>5, NoneLeftType DEF Init, TypeOK

\* A unit joins one of the three sets of a summary.
LEMMA SummaryType ==
  ASSUME NEW s \in Summary, NEW f \in Files
  PROVE  /\ [s EXCEPT !.skipped = @ \cup {f}] \in Summary
         /\ [s EXCEPT !.completed = @ \cup {f}] \in Summary
         /\ [s EXCEPT !.failed = @ \cup {f}] \in Summary
<1>1. /\ s.skipped \cup {f} \in SUBSET Files
      /\ s.completed \cup {f} \in SUBSET Files
      /\ s.failed \cup {f} \in SUBSET Files
  BY DEF Summary
<1>2. ASSUME NEW a \in SUBSET Files
      PROVE  /\ [s EXCEPT !.skipped = a] \in Summary
             /\ [s EXCEPT !.completed = a] \in Summary
             /\ [s EXCEPT !.failed = a] \in Summary
  BY DEF Summary
<1>3. /\ [s EXCEPT !.skipped = s.skipped \cup {f}] \in Summary
      /\ [s EXCEPT !.completed = s.completed \cup {f}] \in Summary
      /\ [s EXCEPT !.failed = s.failed \cup {f}] \in Summary
  BY <1>1, <1>2
<1>. QED
  BY <1>3

\* Every step keeps the types, given what PoolInv says of the messages in flight.
LEMMA TypeStep == TypeOK /\ PoolInv /\ [Next]_vars => TypeOK'
<1> SUFFICES ASSUME TypeOK, PoolInv, [Next]_vars PROVE TypeOK'
  OBVIOUS
<1> USE DEF durable, ledger, loop, pool, bounds
<1>1. ASSUME NEW w \in Workers, TakePath(w) PROVE TypeOK'
  BY <1>1 DEF TypeOK, TakePath
<1>2. ASSUME NEW w \in Workers, WorkerExit(w) PROVE TypeOK'
  BY <1>2 DEF TypeOK, WorkerExit
<1>3. ASSUME NEW w \in Workers, Resolve(w) PROVE TypeOK'
  <2>1. wfile[w] \in Files
    BY <1>3 DEF TypeOK, PoolInv, Resolve
  <2>2. Msg("resolved", wfile[w]) \in Message
    BY <2>1, MsgType
  <2>3. chan' \in [Workers -> Seq(Message)] /\ slots' \in Nat
    BY <1>3, <2>2, PutType DEF Resolve
  <2>. QED
    BY <1>3, <2>3 DEF TypeOK, Resolve
<1>4. ASSUME NEW w \in Workers, PutFailed(w) PROVE TypeOK'
  <2>1. wfile[w] \in Files
    BY <1>4 DEF TypeOK, PoolInv, PutFailed
  <2>2. Msg("failed", wfile[w]) \in Message
    BY <2>1, MsgType
  <2>3. chan' \in [Workers -> Seq(Message)] /\ slots' \in Nat
    BY <1>4, <2>2, PutType DEF PutFailed
  <2>. QED
    BY <1>4, <2>3 DEF TypeOK, PutFailed
<1>5. ASSUME NEW w \in Workers, PutItem(w) PROVE TypeOK'
  <2> DEFINE f == wfile[w]
             i == wpos[w] + 1
             m == [kind |-> Content[f][disk[f]][i].kind, file |-> f,
                   mails |-> Content[f][disk[f]][i].mails, version |-> disk[f]]
  <2>1. f \in Files /\ disk[f] \in 1..MaxVersion
    BY <1>5, ReadsItem
  <2>2. i \in 1..Len(Content[f][disk[f]])
    BY <1>5, ReadsItem
  <2>4. m \in Message
    BY <2>1, <2>2, ItemMessage, Zenon
  <2>5. chan' \in [Workers -> Seq(Message)] /\ slots' \in Nat
    BY <1>5, <2>4, PutType DEF PutItem
  <2>6. wpos' \in [Workers -> Nat]
    BY <1>5, <2>2 DEF TypeOK, PutItem
  <2>. QED
    BY <1>5, <2>5, <2>6 DEF TypeOK, PutItem
<1>6. ASSUME NEW w \in Workers, PutDone(w) PROVE TypeOK'
  <2>1. wfile[w] \in Files
    BY <1>6 DEF TypeOK, PoolInv, PutDone
  <2>2. Msg("done", wfile[w]) \in Message
    BY <2>1, MsgType
  <2>3. chan' \in [Workers -> Seq(Message)] /\ slots' \in Nat
    BY <1>6, <2>2, PutType DEF PutDone
  <2>. QED
    BY <1>6, <2>3 DEF TypeOK, PutDone
<1>7. ASSUME NEW w \in Workers, WorkerDies(w) PROVE TypeOK'
  <2>1. ASSUME NEW n \in 0..Len(chan[w]) PROVE SubSeq(chan[w], 1, n) \in Seq(Message)
    BY DEF TypeOK
  <2>2. chan' \in [Workers -> Seq(Message)]
    BY <1>7, <2>1 DEF TypeOK, WorkerDies
  <2>3. deaths' \in 0..MaxDeaths
    <3>1. deaths < MaxDeaths /\ deaths' = deaths + 1
      BY <1>7, Zenon DEF WorkerDies
    <3>2. deaths \in 0..MaxDeaths
      BY DEF TypeOK
    <3>. QED
      BY <3>1, <3>2
  <2>. QED
    BY <1>7, <2>2, <2>3, DeathType DEF TypeOK, WorkerDies
<1>8. CASE StartRun
  <2>1. NoSummary \in Summary
    BY DEF NoSummary, Summary
  <2>2. runs' \in 0..MaxRuns
    BY <1>8 DEF TypeOK, StartRun
  <2>3. plan' \in [Files -> 0..MaxVersion]
    BY <1>8 DEF TypeOK, StartRun
  <2>5. stop' \in BOOLEAN
    BY <1>8 DEF TypeOK, StartRun
  <2>4. targets' \subseteq Files /\ todo' \subseteq Files /\ jobs' \subseteq Files
    BY <1>8 DEF TypeOK, StartRun
  <2>. QED
    BY <1>8, <2>1, <2>2, <2>3, <2>4, <2>5 DEF TypeOK, StartRun
<1>9. ASSUME NEW f \in Files, PlanFile(f) PROVE TypeOK'
  <2>1. summary' \in Summary
    <3>1. summary \in Summary
      BY DEF TypeOK
    <3>2. /\ [summary EXCEPT !.skipped = @ \cup {f}] \in Summary
          /\ [summary EXCEPT !.failed = @ \cup {f}] \in Summary
      BY <3>1, SummaryType
    <3>. QED
      BY <1>9, <3>1, <3>2 DEF PlanFile
  <2>2. plan' \in [Files -> 0..MaxVersion]
    BY <1>9 DEF TypeOK, PlanFile
  <2>. QED
    BY <1>9, <2>1, <2>2 DEF TypeOK, PlanFile
<1>10. PlannedLog \in [Files -> FileState]
  BY DEF TypeOK, PlannedLog, FileState, Statuses
<1>11. CASE NothingToDo
  BY <1>10, <1>11 DEF TypeOK, NothingToDo
<1>12. CASE StartWorkers
  <2>1. PoolSize \in Nat
    BY FS_CardinalityType, FS_Subset DEF TypeOK, PoolSize
  <2>2. slots' \in Nat
    BY <1>12, <2>1 DEF StartWorkers
  <2>3. wst' \in [Workers -> {"off", "idle", "opening", "parsing", "exited", "dead"}]
    BY <1>12 DEF StartWorkers
  <2>4. written' \in [Files -> Nat]
    BY <1>12 DEF StartWorkers, ZeroCounters
  <2>. QED
    BY <1>10, <1>12, <2>2, <2>3, <2>4 DEF TypeOK, StartWorkers
<1>13. CASE OpenStorage \/ LoopDone \/ StopRequested \/ Proceed \/ Timeout \/ GiveUp
            \/ KeepWaiting \/ SetStop \/ Interrupt \/ UpsertFails \/ Raise
  <2>1. CASE OpenStorage \/ LoopDone \/ StopRequested \/ Proceed \/ Timeout
    BY <2>1 DEF TypeOK, OpenStorage, LoopDone, StopRequested, Proceed, Timeout
  <2>2. CASE GiveUp \/ KeepWaiting \/ SetStop
    BY <2>2 DEF TypeOK, GiveUp, KeepWaiting, SetStop
  <2>3. CASE Interrupt \/ UpsertFails \/ Raise
    BY <2>3 DEF TypeOK, Interrupt, UpsertFails, Raise
  <2>. QED
    BY <1>13, <2>1, <2>2, <2>3
<1>14. ASSUME NEW w \in Workers, Receive(w) PROVE TypeOK'
  <2>1. chan[w] \in Seq(Message) /\ chan[w] # <<>>
    BY <1>14 DEF TypeOK, Receive, Arrived
  <2>2. Head(chan[w]) \in Message /\ Tail(chan[w]) \in Seq(Message)
    BY <2>1, HeadTailProperties
  <2>. QED
    <3>1. cur' \in Message /\ chan' \in [Workers -> Seq(Message)] /\ slots' \in Nat
      BY <1>14, <2>2 DEF TypeOK, Receive
    <3>2. left' \in Left
      BY <1>14, ReceiveType
    <3>. QED
      BY <1>14, <3>1, <3>2 DEF TypeOK, Receive
<1>15. NoMsg \in Message
  BY DEF NoMsg, Msg, Message
<1>16. CASE HandleNote
  BY <1>15, <1>16 DEF TypeOK, HandleNote
<1>17. CASE UpsertBatch
  <2>1. cur.file \in Files /\ cur.version \in Nat /\ Range(cur.mails) \subseteq Mails
    BY <1>17 DEF TypeOK, PoolInv, MsgOK, UpsertBatch, Message, Range
  <2>2. db' \subseteq Row
    BY <1>17, <2>1, UpsertType DEF TypeOK, UpsertBatch
  <2>. QED
    BY <1>17, <2>2 DEF TypeOK, UpsertBatch
<1>18. CASE RecordBatch
  <2>1. cur.file \in Files /\ Len(cur.mails) \in Nat
    BY <1>18 DEF TypeOK, PoolInv, MsgOK, RecordBatch, Message
  <2>2. written \in [Files -> Nat] /\ plan[cur.file] \in Nat /\ log \in [Files -> FileState]
    BY <2>1 DEF TypeOK
  <2>3. written[cur.file] + Len(cur.mails) \in Nat
    BY <2>1, <2>2
  <2>4. written' \in [Files -> Nat]
    BY <1>18, <2>2, <2>3 DEF RecordBatch
  <2>5. log' \in [Files -> FileState]
    BY <1>18, <2>2, <2>3 DEF RecordBatch, FileState, Statuses
  <2>. QED
    BY <1>15, <1>18, <2>4, <2>5 DEF TypeOK, RecordBatch
<1>19. CASE SettleDone
  <2>1. cur.file \in Files
    BY <1>19 DEF TypeOK, PoolInv, MsgOK, SettleDone
  <2>2. log' \in [Files -> FileState]
    BY <1>19, <2>1 DEF TypeOK, SettleDone, RecordedStamp, FileState, Statuses
  <2>3. summary' \in Summary
    BY <1>19, <2>1, SummaryType DEF TypeOK, SettleDone
  <2>. QED
    BY <1>15, <1>19, <2>2, <2>3 DEF TypeOK, SettleDone
<1>20. CASE SettleFailed
  <2>1. cur.file \in Files
    BY <1>20 DEF TypeOK, PoolInv, MsgOK, SettleFailed
  <2>2. log' \in [Files -> FileState]
    BY <1>20, <2>1 DEF TypeOK, SettleFailed, FileState, Statuses
  <2>3. summary' \in Summary
    BY <1>20, <2>1, SummaryType DEF TypeOK, SettleFailed
  <2>. QED
    BY <1>15, <1>20, <2>2, <2>3 DEF TypeOK, SettleFailed
<1>21. CASE Finish
  BY <1>15, <1>21, ResetPoolType DEF TypeOK, Finish
<1>22. CASE RaiseEarly \/ Crash
  BY <1>15, <1>22, ResetPoolType DEF TypeOK, RaiseEarly, Crash, Vanish
<1>23. ASSUME NEW f \in Files, Modify(f) PROVE TypeOK'
  <2>1. disk' \in [Files -> 1..MaxVersion]
    BY <1>23, ModifyType
  <2>2. UNCHANGED <<log, db, mpc, ledger, loop, stop, outcome, pool, bounds>>
    BY <1>23 DEF Modify
  <2>. QED
    BY <2>1, <2>2 DEF TypeOK, ledger, loop, pool, bounds
<1>24. CASE UNCHANGED vars
  BY <1>24 DEF TypeOK, vars
<1>. QED
  BY <1>1, <1>2, <1>3, <1>4, <1>5, <1>6, <1>7, <1>8, <1>9, <1>11, <1>12, <1>13, <1>14,
     <1>16, <1>17, <1>18, <1>19, <1>20, <1>21, <1>22, <1>23, <1>24
     DEF Next, MainStep, WorkerStep, Environment

-----------------------------------------------------------------------------
(* The messages in flight *)

\* What is known of a message stays known while the plan stands and versions only grow.
LEMMA MsgStable ==
  ASSUME TypeOK, NEW m, MsgOK(m), jobs' = jobs, plan' = plan,
         disk' \in [Files -> 1..MaxVersion], \A f \in Files : disk[f] <= disk'[f]
  PROVE  MsgOK(m)'
<1>1. m.file \in Files
  BY DEF TypeOK, MsgOK
<1>2. /\ plan[m.file] \in Nat /\ disk[m.file] \in Nat /\ disk'[m.file] \in Nat
      /\ disk[m.file] <= disk'[m.file]
  BY <1>1 DEF TypeOK
<1>3. \A v \in plan[m.file]..disk[m.file] : v \in plan[m.file]..disk'[m.file]
  BY <1>2
<1>. QED
  BY <1>3 DEF MsgOK

\* After a put, the queue of w has one more message and the others are what they were.
LEMMA PutMsgs ==
  ASSUME TypeOK, NEW w \in Workers, NEW m \in Message, Put(w, m)
  PROVE  /\ \A u \in Workers \ {w} : chan'[u] = chan[u]
         /\ Len(chan'[w]) = Len(chan[w]) + 1
         /\ \A i \in 1..Len(chan[w]) : chan'[w][i] = chan[w][i]
         /\ chan'[w][Len(chan[w]) + 1] = m
  BY DEF TypeOK, Put

\* After a get, the queue of w has lost its head.
LEMMA ReceiveMsgs ==
  ASSUME TypeOK, NEW w \in Workers, Receive(w)
  PROVE  /\ \A u \in Workers \ {w} : chan'[u] = chan[u]
         /\ Len(chan[w]) \in Nat \ {0}
         /\ Len(chan'[w]) = Len(chan[w]) - 1
         /\ \A i \in 1..Len(chan'[w]) : chan'[w][i] = chan[w][i + 1]
         /\ cur' = chan[w][1]
<1>1. chan[w] \in Seq(Message) /\ chan[w] # <<>> /\ chan \in [Workers -> Seq(Message)]
  BY DEF TypeOK, Receive, Arrived
<1>2. chan' = [chan EXCEPT ![w] = Tail(@)] /\ cur' = Head(chan[w])
  BY DEF Receive
<1>3. /\ Len(Tail(chan[w])) = Len(chan[w]) - 1
      /\ \A i \in 1..Len(Tail(chan[w])) : Tail(chan[w])[i] = chan[w][i + 1]
  BY <1>1, HeadTailProperties
<1>4. Head(chan[w]) = chan[w][1] /\ Len(chan[w]) \in Nat \ {0}
  BY <1>1
<1>. QED
  BY <1>1, <1>2, <1>3, <1>4

\* After a death, the queue of w is a prefix of what it was.
LEMMA DeathMsgs ==
  ASSUME TypeOK, NEW w \in Workers, WorkerDies(w)
  PROVE  /\ \A u \in Workers \ {w} : chan'[u] = chan[u]
         /\ Len(chan'[w]) \in 0..Len(chan[w])
         /\ \A i \in 1..Len(chan'[w]) : chan'[w][i] = chan[w][i]
<1>1. chan[w] \in Seq(Message) /\ chan \in [Workers -> Seq(Message)]
  BY DEF TypeOK
<1>2. PICK n \in 0..Len(chan[w]) : chan' = [chan EXCEPT ![w] = SubSeq(@, 1, n)]
  BY DEF WorkerDies
<1>3. /\ Len(SubSeq(chan[w], 1, n)) = n
      /\ \A i \in 1..n : SubSeq(chan[w], 1, n)[i] = chan[w][i]
  BY <1>1
<1>. QED
  BY <1>1, <1>2, <1>3

\* At first nothing is in flight.
LEMMA PoolInit == Init => PoolInv
  BY DEF Init, PoolInv

\* A put of a well-formed message keeps the messages in flight well-formed.
LEMMA PutPool ==
  ASSUME TypeOK, PoolInv, NEW w \in Workers, NEW m \in Message, Put(w, m), MsgOK(m),
         jobs' = jobs, plan' = plan, disk' = disk
  PROVE  \A u \in Workers : \A i \in 1..Len(chan'[u]) : MsgOK(chan[u][i])'
<1> SUFFICES ASSUME NEW u \in Workers, NEW i \in 1..Len(chan'[u]) PROVE MsgOK(chan[u][i])'
  OBVIOUS
<1>1. Len(chan[w]) \in Nat
  BY DEF TypeOK
<1>2. chan'[u][i] = m \/ (i \in 1..Len(chan[u]) /\ chan'[u][i] = chan[u][i])
  BY <1>1, PutMsgs
<1>3. MsgOK(chan'[u][i])
  BY <1>2 DEF PoolInv
<1>. QED
  BY <1>3 DEF MsgOK

\* Every step keeps PoolInv.
LEMMA PoolStep == TypeOK /\ PoolInv /\ PlanInv /\ [Next]_vars => PoolInv'
<1> SUFFICES ASSUME TypeOK, PoolInv, PlanInv, [Next]_vars PROVE PoolInv'
  OBVIOUS
<1> USE DEF durable, ledger, loop, pool, bounds
<1>1. ASSUME NEW w \in Workers, TakePath(w) PROVE PoolInv'
  BY <1>1 DEF TypeOK, PoolInv, TakePath, MsgOK
<1>2. ASSUME NEW w \in Workers, WorkerExit(w) PROVE PoolInv'
  BY <1>2 DEF TypeOK, PoolInv, WorkerExit, MsgOK
<1>3. ASSUME NEW w \in Workers, Resolve(w) PROVE PoolInv'
  <2> DEFINE m == Msg("resolved", wfile[w])
  <2>1. m \in Message /\ MsgOK(m) /\ mpc \notin {"idle", "planning"}
    BY <1>3, MsgType DEF TypeOK, PoolInv, Resolve, MsgOK, Msg
  <2>2. \A u \in Workers : \A i \in 1..Len(chan'[u]) : MsgOK(chan[u][i])'
    BY <1>3, <2>1, PutPool DEF Resolve
  <2>. QED
    BY <1>3, <2>1, <2>2 DEF TypeOK, PoolInv, Resolve, MsgOK
<1>4. ASSUME NEW w \in Workers, PutFailed(w) PROVE PoolInv'
  <2> DEFINE m == Msg("failed", wfile[w])
  <2>1. m \in Message /\ MsgOK(m) /\ mpc \notin {"idle", "planning"}
    BY <1>4, MsgType DEF TypeOK, PoolInv, PutFailed, MsgOK, Msg
  <2>2. \A u \in Workers : \A i \in 1..Len(chan'[u]) : MsgOK(chan[u][i])'
    BY <1>4, <2>1, PutPool DEF PutFailed
  <2>. QED
    BY <1>4, <2>1, <2>2 DEF TypeOK, PoolInv, PutFailed, MsgOK
<1>6. ASSUME NEW w \in Workers, PutDone(w) PROVE PoolInv'
  <2> DEFINE m == Msg("done", wfile[w])
  <2>0. wfile[w] \in jobs /\ wfile[w] \in Files /\ mpc \notin {"idle", "planning"}
    BY <1>6 DEF TypeOK, PoolInv, PutDone
  <2>1. m \in Message /\ MsgOK(m) /\ mpc \notin {"idle", "planning"}
    BY <2>0, MsgType DEF MsgOK, Msg
  <2>2. \A u \in Workers : \A i \in 1..Len(chan'[u]) : MsgOK(chan[u][i])'
    BY <1>6, <2>1, PutPool DEF PutDone
  <2>. QED
    BY <1>6, <2>1, <2>2 DEF TypeOK, PoolInv, PutDone, MsgOK
<1>5. ASSUME NEW w \in Workers, PutItem(w) PROVE PoolInv'
  <2> DEFINE f == wfile[w]
             v == disk[f]
             i == wpos[w] + 1
             m == [kind |-> Content[f][v][i].kind, file |-> f,
                   mails |-> Content[f][v][i].mails, version |-> v]
  <2>1. f \in jobs /\ f \in Files /\ v \in 1..MaxVersion
    BY <1>5, ReadsItem
  <2>0. mpc \notin {"idle", "planning"}
    BY <1>5 DEF PoolInv, PutItem
  <2>2. i \in 1..Len(Content[f][v])
    BY <1>5, ReadsItem
  <2>3. m.kind # "none"
    BY <2>1, <2>2, ItemType
  <2>4. m \in Message /\ Range(m.mails) \subseteq MailsOf(f, v)
    BY <2>1, <2>2, ItemMessage, Zenon
  <2>5. plan[f] \in Nat /\ disk[f] \in Nat /\ plan[f] <= disk[f]
    BY <2>0, <2>1, JobStamp
  <2>6. v \in plan[f]..disk[f]
    BY <2>5
  <2>7. MsgOK(m)
    <3>1. m.file = f /\ m.version = v
      OBVIOUS
    <3> HIDE DEF m
    <3>. QED
      BY <2>1, <2>3, <2>4, <2>6, <3>1, Zenon DEF MsgOK
  <2>8. \A u \in Workers : \A j \in 1..Len(chan'[u]) : MsgOK(chan[u][j])'
    BY <1>5, <2>4, <2>7, PutPool DEF PutItem
  <2>. QED
    BY <1>5, <2>0, <2>1, <2>8 DEF TypeOK, PoolInv, PutItem, MsgOK
<1>7. ASSUME NEW w \in Workers, WorkerDies(w) PROVE PoolInv'
  <2>1. mpc \notin {"idle", "planning"}
    BY <1>7 DEF PoolInv, WorkerDies, alive
  <2>2. ASSUME NEW u \in Workers, NEW i \in 1..Len(chan'[u]) PROVE MsgOK(chan[u][i])'
    <3>1. i \in 1..Len(chan[u]) /\ chan'[u][i] = chan[u][i]
      <4>1. Len(chan[u]) \in Nat
        BY DEF TypeOK
      <4>2. CASE u = w
        BY <1>7, <4>1, <4>2, DeathMsgs
      <4>3. CASE u # w
        BY <1>7, <4>3, DeathMsgs
      <4>. QED
        BY <4>2, <4>3
    <3>. QED
      BY <1>7, <3>1 DEF PoolInv, MsgOK, WorkerDies
  <2>. QED
    BY <1>7, <2>1, <2>2 DEF TypeOK, PoolInv, WorkerDies, MsgOK
<1>8. CASE StartRun
  BY <1>8 DEF TypeOK, PoolInv, StartRun, MsgOK
<1>9. ASSUME NEW f \in Files, PlanFile(f) PROVE PoolInv'
  <2>1. /\ mpc = "planning" /\ mpc' = "planning" /\ fileq' = {}
        /\ \A w \in Workers : wst'[w] = "off" /\ chan'[w] = <<>>
    BY <1>9 DEF PoolInv, PlanFile
  <2>. QED
    BY <2>1 DEF PoolInv
<1>11. CASE NothingToDo
  BY <1>11 DEF TypeOK, PoolInv, NothingToDo, MsgOK
<1>12. CASE StartWorkers
  BY <1>12 DEF TypeOK, PoolInv, StartWorkers, MsgOK
<1>13. CASE OpenStorage \/ LoopDone \/ StopRequested \/ Proceed \/ Timeout \/ GiveUp
            \/ KeepWaiting \/ SetStop \/ Interrupt \/ UpsertFails \/ Raise
  BY <1>13 DEF PoolInv, MsgOK, OpenStorage, LoopDone, StopRequested, Proceed, Timeout,
               GiveUp, KeepWaiting, SetStop, Interrupt, UpsertFails, Raise
<1>14. ASSUME NEW w \in Workers, Receive(w) PROVE PoolInv'
  <2>1. MsgOK(cur)'
    <3>1. 1 \in 1..Len(chan[w]) /\ cur' = chan[w][1]
      BY <1>14, ReceiveMsgs
    <3>2. MsgOK(cur')
      BY <3>1 DEF PoolInv
    <3>. QED
      BY <1>14, <3>2 DEF MsgOK, Receive
  <2>2. ASSUME NEW u \in Workers, NEW i \in 1..Len(chan'[u]) PROVE MsgOK(chan[u][i])'
    <3>1. \/ i \in 1..Len(chan[u]) /\ chan'[u][i] = chan[u][i]
          \/ i + 1 \in 1..Len(chan[u]) /\ chan'[u][i] = chan[u][i + 1]
      <4>1. Len(chan[u]) \in Nat
        BY DEF TypeOK
      <4>2. CASE u = w
        BY <1>14, <4>1, <4>2, ReceiveMsgs
      <4>3. CASE u # w
        BY <1>14, <4>3, ReceiveMsgs
      <4>. QED
        BY <4>2, <4>3
    <3>2. MsgOK(chan'[u][i])
      BY <3>1 DEF PoolInv
    <3>. QED
      BY <1>14, <3>2 DEF MsgOK, Receive
  <2>. QED
    BY <1>14, <2>1, <2>2 DEF PoolInv, Receive
<1>16. CASE HandleNote
  BY <1>16 DEF PoolInv, MsgOK, HandleNote
<1>17. CASE UpsertBatch
  BY <1>17 DEF PoolInv, MsgOK, UpsertBatch
<1>18. CASE RecordBatch
  BY <1>18 DEF PoolInv, MsgOK, RecordBatch
<1>19. CASE SettleDone \/ SettleFailed
  BY <1>19 DEF PoolInv, MsgOK, SettleDone, SettleFailed
<1>20. ASSUME ResetPool, mpc' = "idle" PROVE PoolInv'
  BY <1>20 DEF PoolInv, ResetPool, MsgOK
<1>21. CASE Finish \/ RaiseEarly \/ Crash
  BY <1>20, <1>21 DEF Finish, RaiseEarly, Crash, Vanish
<1>23. ASSUME NEW f \in Files, Modify(f) PROVE PoolInv'
  <2>1. /\ disk' \in [Files -> 1..MaxVersion]
        /\ \A g \in Files : disk[g] <= disk'[g]
    BY <1>23, ModifyType
  <2>2. \A m : MsgOK(m) => MsgOK(m)'
    BY <1>23, <2>1, MsgStable DEF Modify
  <2>3. /\ \A u \in Workers : \A i \in 1..Len(chan'[u]) : MsgOK(chan[u][i])'
        /\ mpc' \in {"handle", "record"} => MsgOK(cur)'
    BY <1>23, <2>2 DEF PoolInv, MsgOK, Modify
  <2>. QED
    BY <1>23, <2>3 DEF PoolInv, Modify
<1>24. CASE UNCHANGED vars
  BY <1>24 DEF PoolInv, MsgOK, vars
<1>. QED
  BY <1>1, <1>2, <1>3, <1>4, <1>5, <1>6, <1>7, <1>8, <1>9, <1>11, <1>12, <1>13, <1>14,
     <1>16, <1>17, <1>18, <1>19, <1>21, <1>23, <1>24
     DEF Next, MainStep, WorkerStep, Environment

-----------------------------------------------------------------------------
(* The plan and the log *)

\* Before the first run nothing is planned or logged.
LEMMA PlanInit == Init => PlanInv
  BY DEF Init, PlanInv, NoState

\* The log the planning loop saves: stamps the files have had, and no new COMPLETED.
LEMMA PlannedLogStamps ==
  ASSUME TypeOK, PlanInv, mpc = "planning"
  PROVE  \A f \in Files : /\ PlannedLog[f].stamp <= disk[f]
                          /\ PlannedLog[f].status = "COMPLETED" => PlannedLog[f].stamp >= 1
                          /\ f \in jobs => PlannedLog[f].stamp = plan[f]
                          /\ f \in summary.skipped => PlannedLog[f] = log[f]
<1> SUFFICES ASSUME NEW f \in Files
             PROVE  /\ PlannedLog[f].stamp <= disk[f]
                    /\ PlannedLog[f].status = "COMPLETED" => PlannedLog[f].stamp >= 1
                    /\ f \in jobs => PlannedLog[f].stamp = plan[f]
                    /\ f \in summary.skipped => PlannedLog[f] = log[f]
  OBVIOUS
<1>1. CASE f \in jobs \cup summary.failed
  <2>1. /\ PlannedLog[f].stamp = plan[f]
        /\ PlannedLog[f].status # "COMPLETED"
    BY <1>1 DEF PlannedLog
  <2>2. plan[f] \in 1..disk[f] /\ f \notin summary.skipped
    BY <1>1 DEF PlanInv
  <2>. QED
    BY <2>1, <2>2 DEF TypeOK
<1>2. CASE f \notin jobs \cup summary.failed
  <2>1. PlannedLog[f] = log[f]
    BY <1>2 DEF PlannedLog
  <2>. QED
    BY <1>2, <2>1 DEF PlanInv
<1>. QED
  BY <1>1, <1>2

\* What the main process does to the log entry of the job it is handling.
LEMMA PlanEntry ==
  ASSUME TypeOK, PlanInv, NEW f \in jobs, mpc \notin {"idle", "planning"},
         NEW e, e.stamp = plan[f], log' = [log EXCEPT ![f] = e],
         UNCHANGED <<disk, plan, jobs, todo>>, mpc' # "planning",
         summary'.skipped = summary.skipped, summary'.failed \subseteq summary.failed \cup {f}
  PROVE  PlanInv'
<1>1. f \in Files /\ plan[f] \in 1..disk[f] /\ f \notin summary.skipped /\ f \notin todo
  BY DEF TypeOK, PlanInv
<1>2. \A g \in Files : log'[g] = IF g = f THEN e ELSE log[g]
  BY DEF TypeOK
<1>3. /\ \A g \in Files : log'[g].stamp <= disk'[g]
      /\ \A g \in Files : log'[g].status = "COMPLETED" => log'[g].stamp >= 1
  <2>1. plan[f] <= disk[f] /\ plan[f] >= 1 /\ disk' = disk
    BY <1>1 DEF TypeOK
  <2>2. \A g \in Files : /\ log[g].stamp <= disk[g]
                         /\ log[g].status = "COMPLETED" => log[g].stamp >= 1
    BY DEF PlanInv
  <2>. QED
    BY <1>2, <2>1, <2>2
<1>4. \A g \in jobs' : log'[g].stamp = plan'[g]
  BY <1>1, <1>2 DEF TypeOK, PlanInv
<1>5. \A g \in summary'.skipped : log'[g].status = "COMPLETED" /\ log'[g].stamp = plan'[g]
  BY <1>1, <1>2 DEF TypeOK, PlanInv, Summary
<1>6. /\ \A g \in jobs' \cup summary'.failed : plan'[g] \in 1..disk'[g]
      /\ summary'.skipped \cap (jobs' \cup summary'.failed) = {}
      /\ todo' \cap (jobs' \cup summary'.failed \cup summary'.skipped) = {}
  BY <1>1 DEF PlanInv
<1>. QED
  BY <1>3, <1>4, <1>5, <1>6 DEF PlanInv

\* Every step keeps PlanInv.
LEMMA PlanStep == TypeOK /\ PoolInv /\ PlanInv /\ [Next]_vars => PlanInv'
<1> SUFFICES ASSUME TypeOK, PoolInv, PlanInv, [Next]_vars PROVE PlanInv'
  OBVIOUS
<1> USE DEF durable, ledger, loop, pool, bounds
<1>1. CASE \E w \in Workers : WorkerStep(w) \/ WorkerDies(w)
  <2>1. UNCHANGED <<disk, log, mpc, plan, jobs, todo, summary>>
    BY <1>1 DEF WorkerStep, TakePath, WorkerExit, Resolve, PutFailed, PutItem, PutDone,
                WorkerDies
  <2>. QED
    BY <2>1 DEF PlanInv
<1>2. CASE StartRun
  BY <1>2 DEF PlanInv, StartRun, NoSummary
<1>3. ASSUME NEW f \in Files, PlanFile(f) PROVE PlanInv'
  <2>1. /\ mpc = "planning" /\ mpc' = "planning" /\ UNCHANGED <<disk, log>>
        /\ f \in todo /\ todo' = todo \ {f}
        /\ f \notin jobs /\ f \notin summary.failed /\ f \notin summary.skipped
    BY <1>3 DEF PlanFile, PlanInv
  <2>2. \A g \in Files : plan'[g] = IF g = f THEN disk[f] ELSE plan[g]
    BY <1>3 DEF TypeOK, PlanFile
  <2>3. disk[f] \in 1..disk[f] /\ jobs \subseteq Files /\ summary.failed \subseteq Files
                               /\ summary.skipped \subseteq Files
    BY DEF TypeOK, Summary
  <2>4. CASE ShouldSkip(f) /\ jobs' = jobs
             /\ summary' = [summary EXCEPT !.skipped = @ \cup {f}]
    <3>1. summary'.skipped = summary.skipped \cup {f} /\ summary'.failed = summary.failed
      BY <2>4 DEF TypeOK, Summary
    <3>. QED
      BY <2>1, <2>2, <2>3, <2>4, <3>1 DEF PlanInv, ShouldSkip
  <2>5. CASE jobs' = jobs /\ summary' = [summary EXCEPT !.failed = @ \cup {f}]
    <3>1. summary'.skipped = summary.skipped /\ summary'.failed = summary.failed \cup {f}
      BY <2>5 DEF TypeOK, Summary
    <3>. QED
      BY <2>1, <2>2, <2>3, <2>5, <3>1 DEF PlanInv
  <2>6. CASE jobs' = jobs \cup {f} /\ summary' = summary
    BY <2>1, <2>2, <2>3, <2>6 DEF PlanInv
  <2>. QED
    BY <1>3, <2>4, <2>5, <2>6 DEF PlanFile
<1>4. CASE NothingToDo
  <2>1. mpc = "planning" /\ mpc' = "idle" /\ log' = PlannedLog /\ disk' = disk
    BY <1>4 DEF NothingToDo
  <2>. QED
    BY <2>1, PlannedLogStamps DEF PlanInv
<1>5. CASE StartWorkers
  <2>1. /\ mpc = "planning" /\ mpc' = "opening" /\ log' = PlannedLog
        /\ UNCHANGED <<disk, plan, jobs, todo, summary>>
    BY <1>5 DEF StartWorkers
  <2>2. jobs \subseteq Files /\ summary.skipped \subseteq Files
    BY DEF TypeOK, Summary
  <2>. QED
    BY <2>1, <2>2, PlannedLogStamps DEF PlanInv
<1>6. CASE \/ OpenStorage \/ LoopDone \/ StopRequested \/ Proceed \/ Timeout \/ GiveUp
           \/ KeepWaiting \/ HandleNote \/ UpsertBatch \/ Interrupt \/ UpsertFails \/ Raise
           \/ SetStop \/ \E w \in Workers : Receive(w)
  <2>1. /\ UNCHANGED <<disk, log, plan, jobs, todo, summary>>
        /\ mpc # "idle" /\ (mpc = "planning" => mpc' = "planning")
    BY <1>6 DEF OpenStorage, LoopDone, StopRequested, Proceed, Timeout, GiveUp, KeepWaiting,
                HandleNote, UpsertBatch, Interrupt, UpsertFails, Raise, SetStop, Receive
  <2>. QED
    BY <2>1 DEF PlanInv
<1>7. CASE RecordBatch
  <2> DEFINE e == [status |-> "WRITING", stamp |-> plan[cur.file],
                   written |-> written[cur.file] + Len(cur.mails)]
  <2>1. cur.file \in jobs /\ e.stamp = plan[cur.file] /\ mpc = "record"
        /\ log' = [log EXCEPT ![cur.file] = e] /\ mpc' = "top"
        /\ UNCHANGED <<disk, plan, jobs, todo, summary>>
    BY <1>7 DEF RecordBatch, PoolInv, MsgOK
  <2> HIDE DEF e
  <2>. QED
    BY <2>1, PlanEntry
<1>8. CASE SettleDone
  <2> DEFINE e == [status |-> "COMPLETED", stamp |-> plan[cur.file],
                   written |-> written[cur.file]]
  <2>1. cur.file \in jobs /\ e.stamp = plan[cur.file] /\ mpc = "handle"
        /\ log' = [log EXCEPT ![cur.file] = e] /\ mpc' = "top"
        /\ UNCHANGED <<disk, plan, jobs, todo>>
    BY <1>8 DEF SettleDone, RecordedStamp, PoolInv, MsgOK
  <2>2. summary'.skipped = summary.skipped /\ summary'.failed = summary.failed
    BY <1>8 DEF SettleDone, TypeOK, Summary
  <2> HIDE DEF e
  <2>. QED
    BY <2>1, <2>2, PlanEntry
<1>9. CASE SettleFailed
  <2> DEFINE e == [status |-> "FAILED", stamp |-> plan[cur.file], written |-> 0]
  <2>1. cur.file \in jobs /\ e.stamp = plan[cur.file] /\ mpc = "handle"
        /\ log' = [log EXCEPT ![cur.file] = e] /\ mpc' = "top"
        /\ UNCHANGED <<disk, plan, jobs, todo>>
    BY <1>9 DEF SettleFailed, PoolInv, MsgOK
  <2>2. summary'.skipped = summary.skipped /\ summary'.failed = summary.failed \cup {cur.file}
    BY <1>9 DEF SettleFailed, TypeOK, Summary
  <2> HIDE DEF e
  <2>. QED
    BY <2>1, <2>2, PlanEntry
<1>10. CASE Finish \/ RaiseEarly \/ Crash
  BY <1>10 DEF PlanInv, Finish, RaiseEarly, Crash, Vanish
<1>11. ASSUME NEW f \in Files, Modify(f) PROVE PlanInv'
  <2>1. UNCHANGED <<log, mpc, plan, jobs, todo, summary>>
    BY <1>11 DEF Modify
  <2>0. disk \in [Files -> 1..MaxVersion]
    BY DEF TypeOK
  <2>2. \A g \in Files : disk[g] \in Nat /\ disk'[g] \in Nat /\ disk[g] <= disk'[g]
    <3>1. disk' \in [Files -> 1..MaxVersion] /\ \A g \in Files : disk[g] <= disk'[g]
      BY <1>11, ModifyType
    <3>. QED
      BY <2>0, <3>1
  <2>3. \A g \in Files : plan[g] \in Nat /\ log[g].stamp \in Nat
    BY DEF TypeOK, FileState
  <2>4. \A g \in Files : plan[g] \in 1..disk[g] => plan[g] \in 1..disk'[g]
    BY <2>2, <2>3
  <2>5. \A g \in Files : log[g].stamp <= disk[g] => log[g].stamp <= disk'[g]
    BY <2>2, <2>3
  <2>6. jobs \subseteq Files /\ summary.failed \subseteq Files
    BY DEF TypeOK, Summary
  <2>. QED
    BY <2>1, <2>4, <2>5, <2>6 DEF PlanInv
<1>12. CASE UNCHANGED vars
  BY <1>12 DEF PlanInv, vars
<1>. QED
  BY <1>1, <1>2, <1>3, <1>4, <1>5, <1>6, <1>7, <1>8, <1>9, <1>10, <1>11, <1>12
     DEF Next, MainStep, Environment

-----------------------------------------------------------------------------
(* Every mail of an unchanged file is in the table or on its way *)

\* No run is under way at first.
LEMMA CoverInit == Init => CoverInv
  BY DEF Init, CoverInv, Looping

\* Versions only grow and the plan of a run stands, so a file unchanged after a step was
\* unchanged before it.
LEMMA UnchangedBefore ==
  ASSUME TypeOK, PlanInv, Looping, NEW f \in Files, [Next]_vars, Unchanged(f)', Looping'
  PROVE  (Unchanged(f) /\ disk'[f] = disk[f]) \/ f \notin jobs
<1> USE DEF durable, ledger, loop, pool, bounds
<1>1. CASE disk' = disk /\ plan' = plan
  BY <1>1 DEF Unchanged
<1>2. ASSUME NEW g \in Files, Modify(g)
      PROVE  (Unchanged(f) /\ disk'[f] = disk[f]) \/ f \notin jobs
  <2>0. disk \in [Files -> 1..MaxVersion]
    BY DEF TypeOK
  <2>1. plan' = plan /\ \A h \in Files : disk'[h] = IF h = g THEN disk[g] + 1 ELSE disk[h]
    BY <1>2, <2>0 DEF Modify
  <2>2. f \in jobs => plan[f] <= disk[f] /\ plan[f] \in Int /\ disk[f] \in Int
    BY JobStamp DEF Looping
  <2>. QED
    BY <2>1, <2>2 DEF Unchanged
<1>3. CASE \E w \in Workers : WorkerStep(w) \/ WorkerDies(w) \/ Receive(w)
  <2>1. disk' = disk /\ plan' = plan
    BY <1>3 DEF WorkerStep, TakePath, WorkerExit, Resolve, PutFailed, PutItem, PutDone,
         WorkerDies, Receive
  <2>. QED
    BY <2>1, <1>1
<1>4. CASE \/ NothingToDo \/ StartWorkers \/ OpenStorage \/ LoopDone \/ StopRequested
           \/ Proceed \/ Timeout \/ GiveUp \/ KeepWaiting \/ UNCHANGED vars
           \/ \E g \in Files : PlanFile(g)
  <2>1. disk' = disk /\ plan' = plan
    BY <1>4 DEF Looping, NothingToDo, StartWorkers, OpenStorage, LoopDone, StopRequested,
         Proceed, Timeout, GiveUp, KeepWaiting, vars, PlanFile
  <2>. QED
    BY <2>1, <1>1
<1>5. CASE HandleNote \/ UpsertBatch \/ RecordBatch \/ SettleDone \/ SettleFailed
  <2>1. disk' = disk /\ plan' = plan
    BY <1>5 DEF HandleNote, UpsertBatch, RecordBatch, SettleDone, SettleFailed
  <2>. QED
    BY <2>1, <1>1
<1>6. CASE SetStop \/ Interrupt \/ UpsertFails \/ Raise \/ StartRun \/ Finish \/ RaiseEarly
           \/ Crash
  <2>1. disk' = disk /\ plan' = plan
    BY <1>6 DEF Looping, SetStop, Interrupt, UpsertFails, Raise, StartRun, Finish, RaiseEarly,
         Crash, Vanish
  <2>. QED
    BY <2>1, <1>1
<1>. QED
  BY <1>2, <1>3, <1>4, <1>5, <1>6 DEF Next, MainStep, Environment

\* A mail covered by the first n messages of w stays covered by them.
LEMMA CoveredKept ==
  ASSUME NEW f, NEW k, NEW w, NEW n \in Nat, Covered(f, k, w, n),
         db' = db, disk'[f] = disk[f],
         mpc = "handle" /\ cur.kind = "batch" => mpc' = mpc /\ cur' = cur,
         \A i \in 1..n : chan'[w][i] = chan[w][i]
  PROVE  Covered(f, k, w, n)'
  BY DEF Covered, BatchWith, Fresh

\* What CoverInv says of file f holds after a step that leaves the pool alone and drops no
\* batch.
LEMMA CoverQuiet ==
  ASSUME TypeOK, CoverInv, Looping, NEW f \in Files,
         Unchanged(f), disk'[f] = disk[f], UNCHANGED <<db, wst, wfile, wpos, chan>>,
         mpc = "handle" /\ cur.kind = "batch" => mpc' = mpc /\ cur' = cur,
         mpc' = "handle" => mpc = "handle" /\ cur' = cur
  PROVE  FileCovered(f)'
<1>1. DoneHeld(f)'
  <2>1. DoneHeld(f)
    BY DEF CoverInv, FileCovered
  <2>. QED
    BY <2>1 DEF DoneHeld, Holds, Fresh
<1>2. ASSUME NEW w \in Workers PROVE ReadCovered(w, f)'
  <2>1. Len(chan[w]) \in Nat
    BY DEF TypeOK
  <2>2. ASSUME wst[w] = "parsing", wfile[w] = f, NEW k \in MailsIn(f, disk[f], wpos[w])
        PROVE  Covered(f, k, w, Len(chan[w]))'
    <3>1. Covered(f, k, w, Len(chan[w]))
      BY <2>2 DEF CoverInv, FileCovered, ReadCovered
    <3>. QED
      BY <2>1, <3>1, CoveredKept DEF Covered
  <2>. QED
    BY <2>2 DEF ReadCovered
<1>3. ASSUME NEW w \in Workers, NEW j \in 1..Len(chan'[w]) PROVE DoneCovered(w, j, f)'
  <2>1. Len(chan[w]) \in Nat /\ j \in 1..Len(chan[w]) /\ j - 1 \in Nat
    BY DEF TypeOK
  <2>2. ASSUME chan[w][j].kind = "done", chan[w][j].file = f, NEW k \in MailsOf(f, disk[f])
        PROVE  Covered(f, k, w, j - 1)'
    <3>1. Covered(f, k, w, j - 1)
      BY <2>1, <2>2 DEF CoverInv, FileCovered, DoneCovered
    <3>. QED
      BY <2>1, <3>1, CoveredKept
  <2>. QED
    BY <2>2 DEF DoneCovered
<1>. QED
  BY <1>1, <1>2, <1>3 DEF FileCovered

\* The same for a step of the pool: the messages that were there and still are keep their
\* cover.
LEMMA CoverPool ==
  ASSUME TypeOK, CoverInv, Looping, NEW f \in Files,
         Unchanged(f), disk'[f] = disk[f], UNCHANGED <<db, mpc, cur>>,
         NEW u \in Workers, NEW n \in Nat, n <= Len(chan[u]),
         \A i \in 1..n : chan'[u][i] = chan[u][i]
  PROVE  /\ DoneHeld(f)'
         /\ \A k : Covered(f, k, u, n) => Covered(f, k, u, n)'
         /\ \A j \in 1..n : DoneCovered(u, j, f)'
<1>1. DoneHeld(f)'
  <2>1. DoneHeld(f)
    BY DEF CoverInv, FileCovered
  <2>. QED
    BY <2>1 DEF DoneHeld, Holds, Fresh
<1>2. ASSUME NEW k, NEW p \in 0..n, Covered(f, k, u, p) PROVE Covered(f, k, u, p)'
  <2>0. p \in Nat /\ 1..p \subseteq 1..n
    OBVIOUS
  <2>1. p \in Nat /\ \A i \in 1..p : chan'[u][i] = chan[u][i]
    BY <2>0, Zenon
  <2>. QED
    BY <1>2, <2>1, CoveredKept
<1>3. ASSUME NEW j \in 1..n PROVE DoneCovered(u, j, f)'
  <2>1. j - 1 \in 0..n /\ j \in 1..Len(chan[u]) /\ chan'[u][j] = chan[u][j]
    BY DEF TypeOK
  <2>2. ASSUME chan[u][j].kind = "done", chan[u][j].file = f, NEW k \in MailsOf(f, disk[f])
        PROVE  Covered(f, k, u, j - 1)'
    <3>1. Covered(f, k, u, j - 1)
      BY <2>1, <2>2 DEF CoverInv, FileCovered, DoneCovered
    <3>. QED
      BY <2>1, <3>1, <1>2
  <2>. QED
    BY <2>1, <2>2 DEF DoneCovered
<1>. QED
  BY <1>1, <1>2, <1>3

\* The worker whose queue and state a step leaves alone.
LEMMA CoverOther ==
  ASSUME TypeOK, CoverInv, Looping, NEW f \in Files,
         Unchanged(f), disk'[f] = disk[f], UNCHANGED <<db, mpc, cur>>, NEW u \in Workers,
         chan'[u] = chan[u], wst'[u] = wst[u], wfile'[u] = wfile[u], wpos'[u] = wpos[u]
  PROVE  /\ ReadCovered(u, f)'
         /\ \A j \in 1..Len(chan'[u]) : DoneCovered(u, j, f)'
<1>1. PICK n \in Nat : n = Len(chan[u]) /\ n = Len(chan'[u])
  BY DEF TypeOK
<1>2. n <= Len(chan[u]) /\ \A i \in 1..n : chan'[u][i] = chan[u][i]
  BY <1>1
<1>3. /\ \A k : Covered(f, k, u, n) => Covered(f, k, u, n)'
      /\ \A j \in 1..n : DoneCovered(u, j, f)'
  BY <1>2, CoverPool
<1>4. ReadCovered(u, f)
  BY DEF CoverInv, FileCovered
<1>. QED
  BY <1>1, <1>3, <1>4 DEF ReadCovered

\* A put by w: its earlier messages keep their cover, and the new one must be covered if it
\* is a "done".
LEMMA CoverPut ==
  ASSUME TypeOK, CoverInv, Looping, NEW f \in Files,
         Unchanged(f), disk'[f] = disk[f], UNCHANGED <<db, mpc, cur>>,
         NEW w \in Workers, NEW m \in Message, Put(w, m),
         \A u \in Workers \ {w} : wst'[u] = wst[u] /\ wfile'[u] = wfile[u]
                                  /\ wpos'[u] = wpos[u],
         ReadCovered(w, f)',
         m.kind = "done" /\ m.file = f =>
           \A k \in MailsOf(f, disk[f]) : Covered(f, k, w, Len(chan[w]))
  PROVE  FileCovered(f)'
<1>0. PICK n \in Nat : n = Len(chan[w])
  BY DEF TypeOK
<1>a. n <= Len(chan[w])
  BY <1>0
<1>1. /\ \A u \in Workers \ {w} : chan'[u] = chan[u]
      /\ Len(chan'[w]) = n + 1
      /\ \A i \in 1..n : chan'[w][i] = chan[w][i]
      /\ chan'[w][n + 1] = m
  BY <1>0, PutMsgs
<1>2. /\ DoneHeld(f)'
      /\ \A k : Covered(f, k, w, n) => Covered(f, k, w, n)'
      /\ \A j \in 1..n : DoneCovered(w, j, f)'
  BY <1>a, <1>1, CoverPool
<1>3. ASSUME NEW u \in Workers \ {w}
      PROVE  ReadCovered(u, f)' /\ \A j \in 1..Len(chan'[u]) : DoneCovered(u, j, f)'
  BY <1>1, CoverOther
<1>4. ASSUME NEW j \in Nat, j = n + 1 PROVE DoneCovered(w, j, f)'
  <2>1. j - 1 = n /\ chan'[w][j] = m
    BY <1>1, <1>4
  <2>2. ASSUME m.kind = "done", m.file = f, NEW k \in MailsOf(f, disk[f])
        PROVE  Covered(f, k, w, j - 1)'
    BY <1>0, <1>2, <2>1, <2>2
  <2>. QED
    BY <2>1, <2>2 DEF DoneCovered
<1>5. \A j \in 1..Len(chan'[w]) : j \in 1..n \/ (j \in Nat /\ j = n + 1)
  BY <1>1
<1>. QED
  BY <1>2, <1>3, <1>4, <1>5 DEF FileCovered

\* A worker's step keeps the cover of an unchanged file.
LEMMA CoverWorker ==
  ASSUME TypeOK, PoolInv, CoverInv, Looping, NEW f \in Files, Unchanged(f),
         NEW w \in Workers, WorkerStep(w) \/ WorkerDies(w)
  PROVE  FileCovered(f)'
<1> USE DEF durable, ledger, loop, pool, bounds
<1>1. UNCHANGED <<disk, db, mpc, cur>>
  BY DEF WorkerStep, TakePath, WorkerExit, Resolve, PutFailed, PutItem, PutDone, WorkerDies
<1>2. \A u \in Workers \ {w} : wst'[u] = wst[u] /\ wfile'[u] = wfile[u] /\ wpos'[u] = wpos[u]
  BY DEF TypeOK, WorkerStep, TakePath, WorkerExit, Resolve, PutFailed, PutItem, PutDone,
         WorkerDies
<1>3. PICK len \in Nat : len = Len(chan[w])
  BY DEF TypeOK
<1>a. len <= Len(chan[w])
  BY <1>3
<1>4. CASE TakePath(w) \/ WorkerExit(w) \/ WorkerDies(w)
  <2>1. /\ \A u \in Workers \ {w} : chan'[u] = chan[u]
        /\ wst'[w] # "parsing"
    BY <1>4 DEF TypeOK, TakePath, WorkerExit, WorkerDies
  <2>2. PICK n \in 0..len :
          Len(chan'[w]) = n /\ \A i \in 1..n : chan'[w][i] = chan[w][i]
    <3>1. CASE WorkerDies(w)
      <4>1. PICK n \in 0..Len(chan[w]) : chan' = [chan EXCEPT ![w] = SubSeq(@, 1, n)]
        BY <3>1 DEF WorkerDies
      <4>2. chan \in [Workers -> Seq(Message)]
        BY DEF TypeOK
      <4>3. chan[w] \in Seq(Message) /\ chan'[w] = SubSeq(chan[w], 1, n)
        BY <4>1, <4>2
      <4>. QED
        BY <1>3, <4>1, <4>3
    <3>2. CASE chan' = chan
      BY <1>3, <3>2
    <3>. QED
      BY <1>4, <3>1, <3>2 DEF TakePath, WorkerExit
  <2>3. DoneHeld(f)' /\ \A j \in 1..n : DoneCovered(w, j, f)'
    <3>1. n \in Nat /\ n <= Len(chan[w])
      BY <1>3
    <3>. QED
      BY <1>1, <2>2, <3>1, CoverPool
  <2>4. ASSUME NEW u \in Workers \ {w}
        PROVE  ReadCovered(u, f)' /\ \A j \in 1..Len(chan'[u]) : DoneCovered(u, j, f)'
    BY <1>1, <1>2, <2>1, CoverOther
  <2>. QED
    BY <2>1, <2>2, <2>3, <2>4 DEF FileCovered, ReadCovered
<1>5. CASE Resolve(w)
  <2>1. wfile[w] \in Files /\ wpos'[w] = 0
    BY <1>5 DEF TypeOK, PoolInv, Resolve
  <2>2. ReadCovered(w, f)'
    BY <2>1 DEF ReadCovered, MailsIn
  <2>3. Msg("resolved", wfile[w]) \in Message /\ Msg("resolved", wfile[w]).kind = "resolved"
    BY <2>1, MsgType DEF Msg
  <2>. QED
    BY <1>1, <1>2, <1>5, <2>2, <2>3, CoverPut DEF Resolve
<1>6. CASE PutFailed(w)
  <2>1. wfile[w] \in Files
    BY <1>6 DEF TypeOK, PoolInv, PutFailed
  <2>2. ReadCovered(w, f)'
    BY <1>6 DEF TypeOK, PutFailed, ReadCovered
  <2>3. Msg("failed", wfile[w]) \in Message /\ Msg("failed", wfile[w]).kind = "failed"
    BY <2>1, MsgType DEF Msg
  <2>. QED
    BY <1>1, <1>2, <1>6, <2>2, <2>3, CoverPut DEF PutFailed
<1>7. CASE PutDone(w)
  <2>1. wfile[w] \in Files
    BY <1>7 DEF TypeOK, PoolInv, PutDone
  <2>2. ReadCovered(w, f)'
    BY <1>7 DEF TypeOK, PutDone, ReadCovered
  <2>3. /\ Msg("done", wfile[w]) \in Message /\ Msg("done", wfile[w]).file = wfile[w]
    BY <2>1, MsgType DEF Msg
  <2>4. ASSUME wfile[w] = f, NEW k \in MailsOf(f, disk[f])
        PROVE  Covered(f, k, w, Len(chan[w]))
    <3>1. wst[w] = "parsing" /\ wpos[w] >= Len(Content[f][disk[f]])
      BY <1>7, <2>4 DEF PutDone
    <3>2. Len(Content[f][disk[f]]) \in Nat /\ wpos[w] \in Nat
      BY DEF TypeOK
    <3>3. k \in MailsIn(f, disk[f], wpos[w])
      BY <2>4, <3>1, <3>2 DEF MailsOf, MailsIn
    <3>. QED
      BY <2>4, <3>1, <3>3 DEF CoverInv, FileCovered, ReadCovered
  <2>. QED
    BY <1>1, <1>2, <1>7, <2>2, <2>3, <2>4, CoverPut DEF PutDone
<1>8. CASE PutItem(w)
  <2>0. PICK g \in Files, v \in 1..MaxVersion, i \in Nat :
          g = wfile[w] /\ v = disk[g] /\ i = wpos[w] + 1
    BY <1>8, ReadsItem
  <2> DEFINE m == [kind |-> Content[g][v][i].kind, file |-> g,
                   mails |-> Content[g][v][i].mails, version |-> v]
  <2>1. i \in 1..Len(Content[g][v])
    BY <1>8, <2>0, ReadsItem
  <2>2. /\ m.kind \in {"batch", "errors"} /\ m.mails \in Seq(Mails)
        /\ m.kind = "errors" => m.mails = <<>>
    BY <2>1, ItemType
  <2>3. m \in Message
    BY <2>1, ItemMessage
  <2>4. Put(w, m) /\ wst' = wst /\ wfile' = wfile /\ wpos'[w] = i /\ i - 1 = wpos[w]
    <3>1. wpos \in [Workers -> Nat] /\ wpos[w] \in Nat
      BY DEF TypeOK
    <3>2. Put(w, m)
      BY <1>8, <2>0 DEF PutItem
    <3>3. wst' = wst /\ wfile' = wfile /\ wpos' = [wpos EXCEPT ![w] = i]
      BY <1>8, <2>0 DEF PutItem
    <3>4. wpos'[w] = i
      BY <3>1, <3>3
    <3>5. i - 1 = wpos[w]
      BY <2>0, <3>1
    <3>. QED
      BY <3>2, <3>3, <3>4, <3>5
  <2>5. ReadCovered(w, f)'
    <3>1. SUFFICES ASSUME wst[w] = "parsing", g = f, v = disk[f], NEW k \in MailsIn(f, v, i)
                   PROVE  Covered(f, k, w, len + 1)'
      <4>1. Len(chan'[w]) = len + 1
        BY <1>3, <2>3, <2>4, PutMsgs
      <4>. QED
        BY <1>1, <2>0, <2>4, <4>1 DEF ReadCovered
    <3>2. /\ \A n \in 1..len : chan'[w][n] = chan[w][n]
          /\ chan'[w][len + 1] = m
      BY <1>3, <2>3, <2>4, PutMsgs
    <3>3. CASE k \in MailsIn(f, v, i - 1)
      <4>1. Covered(f, k, w, len)
        BY <1>3, <2>0, <2>4, <3>1, <3>3 DEF CoverInv, FileCovered, ReadCovered
      <4>2. Covered(f, k, w, len)'
        BY <1>1, <1>a, <3>2, <4>1, CoverPool
      <4>. QED
        BY <4>2 DEF Covered
    <3>4. CASE k \in Range(Content[g][v][i].mails)
      <4>1. k \in Range(m.mails) /\ m.mails \in Seq(Mails)
        BY <2>2, <3>4
      <4>2. m.mails # <<>>
        BY <4>1 DEF Range
      <4>3. BatchWith(m, f, k)
        BY <2>2, <3>1, <4>1, <4>2 DEF BatchWith
      <4>4. len + 1 \in 1..(len + 1) /\ chan'[w][len + 1] = m
        BY <3>2
      <4>. QED
        BY <4>3, <4>4 DEF Covered, BatchWith
    <3>5. k \in MailsIn(f, v, i - 1) \/ k \in Range(Content[g][v][i].mails)
      <4>1. PICK n \in 1..i : k \in Range(Content[f][v][n].mails)
        BY <3>1 DEF MailsIn
      <4>2. n \in 1..(i - 1) \/ n = i
        OBVIOUS
      <4>. QED
        BY <3>1, <4>1, <4>2 DEF MailsIn
    <3>. QED
      BY <3>3, <3>4, <3>5
  <2>6. m.kind # "done"
    BY <2>2
  <2> HIDE DEF m
  <2>. QED
    BY <1>1, <1>2, <2>3, <2>4, <2>5, <2>6, CoverPut
<1>. QED
  BY <1>4, <1>5, <1>6, <1>7, <1>8 DEF WorkerStep

\* Getting a message moves it from the head of its queue to the main process: what it
\* covered stays covered.
LEMMA CoverReceive ==
  ASSUME TypeOK, CoverInv, Looping, NEW f \in Files, Unchanged(f),
         NEW w \in Workers, Receive(w)
  PROVE  FileCovered(f)'
<1> USE DEF durable, ledger, loop, pool, bounds
<1>1. /\ UNCHANGED <<disk, plan, db, wst, wfile, wpos>>
      /\ mpc = "get" /\ mpc' = "handle"
  BY DEF Receive
<1>2. PICK len \in Nat \ {0} : len = Len(chan[w])
  BY ReceiveMsgs
<1>3. /\ \A u \in Workers \ {w} : chan'[u] = chan[u]
      /\ Len(chan'[w]) = len - 1
      /\ \A i \in 1..(len - 1) : chan'[w][i] = chan[w][i + 1]
      /\ cur' = chan[w][1]
  BY <1>2, ReceiveMsgs
<1>4. ASSUME NEW k, NEW n \in 1..len, Covered(f, k, w, n) PROVE Covered(f, k, w, n - 1)'
  <2>1. CASE Fresh(db, f, disk[f], k)
    BY <1>1, <2>1 DEF Covered, Fresh
  <2>2. ASSUME NEW i \in 1..n, BatchWith(chan[w][i], f, k) PROVE Covered(f, k, w, n - 1)'
    <3>1. CASE i = 1
      BY <1>1, <1>3, <2>2, <3>1 DEF Covered, BatchWith
    <3>2. CASE i # 1
      <4>1. i - 1 \in 1..(n - 1) /\ i - 1 \in 1..(len - 1) /\ (i - 1) + 1 = i
        BY <3>2
      <4>2. chan'[w][i - 1] = chan[w][i]
        BY <1>3, <4>1
      <4>. QED
        BY <2>2, <4>1, <4>2 DEF Covered, BatchWith
    <3>. QED
      BY <3>1, <3>2
  <2>. QED
    BY <1>1, <1>4, <2>1, <2>2 DEF Covered
<1>5. ASSUME NEW u \in Workers \ {w}, NEW k, NEW n \in Nat, Covered(f, k, u, n)
      PROVE  Covered(f, k, u, n)'
  BY <1>1, <1>3, <1>5, CoveredKept
<1>6. DoneHeld(f)'
  <2>1. SUFFICES ASSUME chan[w][1].kind = "done", chan[w][1].file = f,
                        NEW k \in MailsOf(f, disk[f])
                 PROVE  Fresh(db, f, disk[f], k)
    BY <1>1, <1>3 DEF DoneHeld, Holds, Fresh
  <2>2. DoneCovered(w, 1, f)
    BY <1>2 DEF CoverInv, FileCovered
  <2>. QED
    BY <1>1, <2>1, <2>2 DEF DoneCovered, Covered
<1>7. ASSUME NEW u \in Workers PROVE ReadCovered(u, f)'
  <2>1. CASE u = w
    <3>1. ASSUME wst[w] = "parsing", wfile[w] = f, NEW k \in MailsIn(f, disk[f], wpos[w])
          PROVE  Covered(f, k, w, len - 1)'
      <4>1. Covered(f, k, w, Len(chan[w]))
        BY <3>1 DEF CoverInv, FileCovered, ReadCovered
      <4>2. Covered(f, k, w, len) /\ len \in 1..len
        BY <1>2, <4>1
      <4>. QED
        BY <1>4, <4>2
    <3>. QED
      BY <1>1, <1>3, <2>1, <3>1 DEF ReadCovered
  <2>2. CASE u # w
    <3>0. chan'[u] = chan[u]
      BY <1>3, <2>2
    <3>1. PICK n \in Nat : n = Len(chan[u]) /\ n = Len(chan'[u])
      BY <3>0 DEF TypeOK
    <3>2. ReadCovered(u, f)
      BY DEF CoverInv, FileCovered
    <3>3. \A k : Covered(f, k, u, n) => Covered(f, k, u, n)'
      BY <1>5, <2>2
    <3>. QED
      BY <1>1, <3>1, <3>2, <3>3 DEF ReadCovered
  <2>. QED
    BY <2>1, <2>2
<1>8. ASSUME NEW u \in Workers, NEW j \in 1..Len(chan'[u]) PROVE DoneCovered(u, j, f)'
  <2>1. CASE u = w
    <3>1. j \in 1..(len - 1) /\ j + 1 \in 1..len /\ (j + 1) - 1 = j /\ j \in 1..len
      BY <1>2, <1>3, <2>1
    <3>2. chan'[w][j] = chan[w][j + 1]
      BY <1>3, <3>1
    <3>3. ASSUME chan[w][j + 1].kind = "done", chan[w][j + 1].file = f,
                 NEW k \in MailsOf(f, disk[f])
          PROVE  Covered(f, k, w, j - 1)'
      <4>1. DoneCovered(w, j + 1, f)
        BY <1>2, <3>1 DEF CoverInv, FileCovered
      <4>2. Covered(f, k, w, j)
        BY <3>1, <3>3, <4>1 DEF DoneCovered
      <4>. QED
        BY <1>4, <3>1, <4>2
    <3>. QED
      BY <1>1, <2>1, <3>2, <3>3 DEF DoneCovered
  <2>2. CASE u # w
    <3>1. chan'[u] = chan[u] /\ j \in 1..Len(chan[u]) /\ j - 1 \in Nat
      BY <1>3, <2>2
    <3>2. DoneCovered(u, j, f)
      BY <3>1 DEF CoverInv, FileCovered
    <3>3. \A k : Covered(f, k, u, j - 1) => Covered(f, k, u, j - 1)'
      BY <1>5, <2>2, <3>1
    <3>. QED
      BY <1>1, <3>1, <3>2, <3>3 DEF DoneCovered
  <2>. QED
    BY <2>1, <2>2
<1>. QED
  BY <1>6, <1>7, <1>8 DEF FileCovered

\* Storing a batch makes its mails fresh and keeps fresh what was, since a batch of an
\* unchanged file was read from the version it has.
LEMMA CoverUpsert ==
  ASSUME TypeOK, PoolInv, CoverInv, Looping, NEW f \in Files, Unchanged(f), UpsertBatch
  PROVE  FileCovered(f)'
<1> USE DEF durable, ledger, loop, pool, bounds
<1>1. /\ UNCHANGED <<disk, plan, wst, wfile, wpos, chan>>
      /\ mpc = "handle" /\ mpc' = "record" /\ cur.kind = "batch"
      /\ db' = Upserted(db, cur.file, cur.version, Range(cur.mails))
  BY DEF UpsertBatch
<1>2. cur.file = f => cur.version = disk[f]
  BY <1>1 DEF TypeOK, PoolInv, MsgOK, Unchanged
<1>3. ASSUME NEW k, Fresh(db, f, disk[f], k) PROVE Fresh(db', f, disk'[f], k)
  BY <1>1, <1>2, <1>3, FreshKept
<1>4. ASSUME NEW k, BatchWith(cur, f, k) PROVE Fresh(db', f, disk'[f], k)
  <2>1. k \in Range(cur.mails) /\ cur.file = f
    BY <1>4 DEF BatchWith
  <2>. QED
    BY <1>1, <1>2, <2>1, FreshMade
<1>5. ASSUME NEW u \in Workers, NEW k, NEW n \in Nat, Covered(f, k, u, n)
      PROVE  Covered(f, k, u, n)'
  <2>1. CASE Fresh(db', f, disk'[f], k)
    BY <2>1 DEF Covered
  <2>2. CASE \E i \in 1..n : BatchWith(chan[u][i], f, k)
    BY <1>1, <2>2 DEF Covered, BatchWith
  <2>. QED
    BY <1>3, <1>4, <1>5, <2>1, <2>2 DEF Covered
<1>6. ASSUME NEW u \in Workers PROVE ReadCovered(u, f)'
  <2>1. PICK n \in Nat : n = Len(chan[u])
    BY DEF TypeOK
  <2>2. ReadCovered(u, f)
    BY DEF CoverInv, FileCovered
  <2>3. \A k : Covered(f, k, u, n) => Covered(f, k, u, n)'
    BY <1>5
  <2>. QED
    BY <1>1, <2>1, <2>2, <2>3 DEF ReadCovered
<1>7. ASSUME NEW u \in Workers, NEW j \in 1..Len(chan'[u]) PROVE DoneCovered(u, j, f)'
  <2>1. j \in 1..Len(chan[u]) /\ j - 1 \in Nat
    BY <1>1
  <2>2. DoneCovered(u, j, f)
    BY <2>1 DEF CoverInv, FileCovered
  <2>3. \A k : Covered(f, k, u, j - 1) => Covered(f, k, u, j - 1)'
    BY <1>5, <2>1
  <2>. QED
    BY <1>1, <2>2, <2>3 DEF DoneCovered
<1>. QED
  BY <1>1, <1>6, <1>7 DEF FileCovered, DoneHeld

\* Every step keeps CoverInv.
LEMMA CoverStep ==
  ASSUME TypeOK, PoolInv, PlanInv, CoverInv, [Next]_vars, PoolInv'
  PROVE  CoverInv'
<1> SUFFICES ASSUME Looping', NEW f \in Files PROVE FileCovered(f)'
  BY DEF CoverInv
<1> USE DEF durable, ledger, loop, pool, bounds
<1>1. CASE ~Looping
  <2>1. StartWorkers
    BY <1>1 DEF Looping, PoolInv, Next, MainStep, WorkerStep, Environment, vars, TakePath,
         WorkerExit, Resolve, PutFailed, PutItem, PutDone, WorkerDies, Receive, NothingToDo,
         OpenStorage, LoopDone, StopRequested, Proceed, Timeout, GiveUp, KeepWaiting,
         HandleNote, UpsertBatch, RecordBatch, SettleDone, SettleFailed, SetStop, Interrupt,
         UpsertFails, Raise, PlanFile, StartRun, Finish, RaiseEarly, Crash, Vanish, Modify
  <2>2. /\ mpc' = "opening" /\ mpc = "planning" /\ chan' = chan
        /\ \A w \in Workers : wst'[w] # "parsing"
    BY <2>1 DEF StartWorkers
  <2>3. \A w \in Workers : chan'[w] = <<>>
    BY <2>2 DEF PoolInv
  <2>4. DoneHeld(f)' /\ \A w \in Workers : ReadCovered(w, f)'
    BY <2>2 DEF DoneHeld, ReadCovered
  <2>5. \A w \in Workers : \A j \in 1..Len(chan'[w]) : DoneCovered(w, j, f)'
    BY <2>3
  <2>. QED
    BY <2>4, <2>5, Zenon DEF FileCovered
<1>2. CASE f \notin jobs'
  <2>1. /\ mpc' = "handle" => cur'.file # f
        /\ \A w \in Workers : wst'[w] = "parsing" => wfile'[w] # f
        /\ \A w \in Workers : \A j \in 1..Len(chan'[w]) : chan'[w][j].file # f
    BY <1>2 DEF PoolInv, MsgOK
  <2>. QED
    BY <2>1 DEF FileCovered, DoneHeld, ReadCovered, DoneCovered
<1>3. CASE ~Unchanged(f)'
  BY <1>3 DEF FileCovered, DoneHeld, ReadCovered, DoneCovered
<1>4. CASE Looping /\ f \in jobs' /\ Unchanged(f)'
  <2>1. jobs' = jobs
    BY <1>4 DEF Looping, Next, MainStep, WorkerStep, Environment, vars, TakePath,
         WorkerExit, Resolve, PutFailed, PutItem, PutDone, WorkerDies, Receive, NothingToDo,
         OpenStorage, LoopDone, StopRequested, Proceed, Timeout, GiveUp, KeepWaiting,
         HandleNote, UpsertBatch, RecordBatch, SettleDone, SettleFailed, SetStop, Interrupt,
         UpsertFails, Raise, PlanFile, StartRun, Finish, RaiseEarly, Crash, Vanish, Modify,
         StartWorkers
  <2>2. Looping /\ Unchanged(f) /\ disk'[f] = disk[f]
    BY <1>4, <2>1, UnchangedBefore
  <2>3. CASE \E w \in Workers : WorkerStep(w) \/ WorkerDies(w)
    BY <2>2, <2>3, CoverWorker
  <2>4. CASE \E w \in Workers : Receive(w)
    BY <2>2, <2>4, CoverReceive
  <2>5. CASE UpsertBatch
    BY <2>2, <2>5, CoverUpsert
  <2>6. CASE OpenStorage \/ Proceed \/ Timeout \/ KeepWaiting \/ HandleNote \/ RecordBatch
             \/ SettleDone \/ SettleFailed \/ SetStop \/ (\E g \in Files : Modify(g))
             \/ UNCHANGED vars
    <3>1. /\ UNCHANGED <<db, wst, wfile, wpos, chan>>
          /\ mpc = "handle" /\ cur.kind = "batch" => mpc' = mpc /\ cur' = cur
          /\ mpc' = "handle" => mpc = "handle" /\ cur' = cur
      BY <2>6 DEF OpenStorage, Proceed, Timeout, KeepWaiting, HandleNote, RecordBatch,
                  SettleDone, SettleFailed, SetStop, Modify, vars
    <3>. QED
      BY <2>2, <3>1, CoverQuiet
  <2>7. CASE NothingToDo \/ StartWorkers \/ LoopDone \/ StopRequested \/ GiveUp \/ Finish
             \/ StartRun \/ Interrupt \/ UpsertFails \/ Raise \/ RaiseEarly \/ Crash
             \/ \E g \in Files : PlanFile(g)
    <3>1. CASE RaiseEarly \/ Crash
      BY <3>1 DEF Looping, RaiseEarly, Crash, Vanish
    <3>2. CASE NothingToDo \/ StartWorkers \/ StartRun \/ \E g \in Files : PlanFile(g)
      BY <2>2, <3>2 DEF Looping, NothingToDo, StartWorkers, StartRun, PlanFile
    <3>3. CASE LoopDone \/ StopRequested \/ GiveUp \/ Finish \/ Interrupt \/ UpsertFails
               \/ Raise
      BY <3>3 DEF Looping, LoopDone, StopRequested, GiveUp, Finish, Interrupt, UpsertFails,
                  Raise
    <3>. QED
      BY <2>7, <3>1, <3>2, <3>3
  <2>. QED
    BY <2>3, <2>4, <2>5, <2>6, <2>7, Zenon DEF Next, MainStep, Environment
<1>. QED
  BY <1>1, <1>2, <1>3, <1>4

-----------------------------------------------------------------------------
(* CompletedIsIndexed *)

\* A unit is logged COMPLETED only by SettleDone, and what is logged so stays true: rows are
\* replaced only by fresher ones, and a modified file no longer has the stamp.
LEMMA CompletedStep ==
  ASSUME TypeOK, PoolInv, PlanInv, CoverInv, CompletedIsIndexed, [Next]_vars
  PROVE  CompletedIsIndexed'
<1> USE DEF durable, ledger, loop, pool, bounds
<1>1. ASSUME UNCHANGED <<disk, log, db>> PROVE CompletedIsIndexed'
  BY <1>1 DEF CompletedIsIndexed
<1>2. ASSUME UNCHANGED <<disk, db>>,
             \A f \in Files : log'[f] = log[f] \/ log'[f].status # "COMPLETED"
      PROVE  CompletedIsIndexed'
  BY <1>2 DEF CompletedIsIndexed
<1>3. CASE \/ \E w \in Workers : WorkerStep(w) \/ WorkerDies(w) \/ Receive(w)
           \/ \E f \in Files : PlanFile(f)
           \/ StartRun \/ OpenStorage \/ LoopDone \/ StopRequested \/ Proceed \/ Timeout
           \/ GiveUp \/ KeepWaiting \/ HandleNote \/ Finish \/ SetStop \/ Interrupt
           \/ UpsertFails \/ Raise \/ RaiseEarly \/ Crash \/ UNCHANGED vars
  <2>1. UNCHANGED <<disk, log, db>>
    BY <1>3 DEF WorkerStep, TakePath, WorkerExit, Resolve, PutFailed, PutItem, PutDone,
         WorkerDies, Receive, PlanFile, StartRun, OpenStorage, LoopDone, StopRequested,
         Proceed, Timeout, GiveUp, KeepWaiting, HandleNote, Finish, SetStop, Interrupt,
         UpsertFails, Raise, RaiseEarly, Crash, Vanish, vars
  <2>. QED
    BY <1>1, <2>1
<1>4. CASE NothingToDo \/ StartWorkers
  <2>1. UNCHANGED <<disk, db>> /\ log' = PlannedLog
    BY <1>4 DEF NothingToDo, StartWorkers
  <2>2. \A f \in Files : log'[f] = log[f] \/ log'[f].status # "COMPLETED"
    BY <2>1 DEF PlannedLog
  <2>. QED
    BY <1>2, <2>1, <2>2
<1>5. CASE RecordBatch \/ SettleFailed
  <2>1. UNCHANGED <<disk, db>>
    BY <1>5 DEF RecordBatch, SettleFailed
  <2>2. log \in [Files -> FileState]
    BY DEF TypeOK
  <2>3. ASSUME NEW f \in Files PROVE log'[f] = log[f] \/ log'[f].status # "COMPLETED"
    <3>1. PICK e : log' = [log EXCEPT ![cur.file] = e] /\ e.status # "COMPLETED"
      BY <1>5 DEF RecordBatch, SettleFailed
    <3>. QED
      BY <2>2, <3>1
  <2>. QED
    BY <1>2, <2>1, <2>3
<1>6. CASE SettleDone
  <2>1. /\ UNCHANGED <<disk, db>> /\ mpc = "handle" /\ cur.kind = "done"
        /\ cur.file \in Files
        /\ \A f \in Files \ {cur.file} : log'[f] = log[f]
        /\ log'[cur.file].stamp = plan[cur.file]
    BY <1>6 DEF SettleDone, RecordedStamp, TypeOK, PoolInv, MsgOK
  <2>2. plan[cur.file] = disk[cur.file] => Holds(db, cur.file, disk[cur.file])
    BY <2>1 DEF CoverInv, FileCovered, Looping, DoneHeld, Unchanged
  <2>. QED
    BY <2>1, <2>2 DEF CompletedIsIndexed
<1>7. CASE UpsertBatch
  <2>1. /\ UNCHANGED <<disk, log>> /\ mpc = "handle" /\ cur.kind = "batch"
        /\ db' = Upserted(db, cur.file, cur.version, Range(cur.mails))
    BY <1>7 DEF UpsertBatch
  <2>2. /\ cur.file \in jobs /\ cur.file \in Files
        /\ cur.version \in plan[cur.file]..disk[cur.file]
        /\ log[cur.file].stamp = plan[cur.file]
    BY <2>1 DEF TypeOK, PoolInv, MsgOK, PlanInv
  <2>3. log[cur.file].stamp = disk[cur.file] => cur.version = disk[cur.file]
    BY <2>2 DEF TypeOK
  <2>4. SUFFICES ASSUME NEW f \in Files, log[f].stamp = disk[f],
                        NEW k, Fresh(db, f, disk[f], k)
                 PROVE  Fresh(db', f, disk[f], k)
    BY <2>1 DEF CompletedIsIndexed, Holds
  <2>. QED
    BY <2>1, <2>3, <2>4, FreshKept
<1>8. ASSUME NEW g \in Files, Modify(g) PROVE CompletedIsIndexed'
  <2>1. UNCHANGED <<log, db>> /\ \A f \in Files \ {g} : disk'[f] = disk[f]
    BY <1>8 DEF Modify, TypeOK
  <2>2. log[g].stamp # disk'[g]
    <3>1. log[g].stamp \in Nat /\ log[g].stamp <= disk[g] /\ disk[g] \in Nat
      BY DEF TypeOK, FileState, PlanInv
    <3>2. disk'[g] = disk[g] + 1
      BY <1>8 DEF Modify, TypeOK
    <3>. QED
      BY <3>1, <3>2
  <2>. QED
    BY <2>1, <2>2 DEF CompletedIsIndexed
<1>. QED
  BY <1>3, <1>4, <1>5, <1>6, <1>7, <1>8 DEF Next, MainStep, Environment

\* The inductive invariant holds in every state.
THEOREM Inductive == Spec => []IInv
<1>1. Init => IInv
  <2>1. Init => CompletedIsIndexed
    BY DEF Init, CompletedIsIndexed, NoState
  <2>. QED
    BY <2>1, TypeInit, PoolInit, PlanInit, CoverInit DEF IInv
<1>2. IInv /\ [Next]_vars => IInv'
  <2> SUFFICES ASSUME IInv, [Next]_vars PROVE IInv'
    OBVIOUS
  <2>1. TypeOK /\ PoolInv /\ PlanInv /\ CoverInv /\ CompletedIsIndexed
    BY DEF IInv
  <2>2. TypeOK' /\ PoolInv' /\ PlanInv'
    BY <2>1, TypeStep, PoolStep, PlanStep
  <2>3. CoverInv' /\ CompletedIsIndexed'
    BY <2>1, <2>2, CoverStep, CompletedStep
  <2>. QED
    BY <2>2, <2>3 DEF IInv
<1>. QED
  BY <1>1, <1>2, PTL DEF Spec

\* Every variable keeps its type, in every run of the program.
THEOREM TypeCorrect == Spec => []TypeOK
<1>1. IInv => TypeOK
  BY DEF IInv
<1>. QED
  BY <1>1, Inductive, PTL

\* A unit logged COMPLETED with the stamp its file still has is in the table with all its
\* mails, whatever was modified, died, failed or was interrupted before.
THEOREM CompletedAlwaysIndexed == Spec => []CompletedIsIndexed
<1>1. IInv => CompletedIsIndexed
  BY DEF IInv
<1>. QED
  BY <1>1, Inductive, PTL

\* A unit this run skipped, and that has not changed since, is in the table with all its
\* mails, to the end of the run.
THEOREM SkippedAlwaysIndexed == Spec => []SkippedIsIndexed
<1>1. IInv => SkippedIsIndexed
  BY DEF IInv, TypeOK, Summary, PlanInv, CompletedIsIndexed, SkippedIsIndexed
<1>. QED
  BY <1>1, Inductive, PTL

\* No step gives a mail a second row.
THEOREM OneRow == Spec => []OneRowPerMail
<1> USE DEF durable, ledger, loop, pool, bounds
<1>1. Init => OneRowPerMail
  BY DEF Init, OneRowPerMail
<1>2. OneRowPerMail /\ [Next]_vars => OneRowPerMail'
  <2> SUFFICES ASSUME OneRowPerMail, [Next]_vars PROVE OneRowPerMail'
    OBVIOUS
  <2>1. CASE UpsertBatch
    <3>1. db' = Upserted(db, cur.file, cur.version, Range(cur.mails))
      BY <2>1 DEF UpsertBatch
    <3>. QED
      BY <3>1, UniqueKept DEF OneRowPerMail
  <2>2. CASE db' = db
    BY <2>2, Zenon DEF OneRowPerMail
  <2>3. UpsertBatch \/ db' = db
    BY DEF Next, MainStep, WorkerStep, Environment, vars, TakePath, WorkerExit, Resolve,
         PutFailed, PutItem, PutDone, WorkerDies, Receive, NothingToDo, OpenStorage,
         LoopDone, StopRequested, Proceed, Timeout, GiveUp, KeepWaiting, HandleNote,
         RecordBatch, SettleDone, SettleFailed, SetStop, Interrupt, UpsertFails, Raise,
         PlanFile, StartRun, Finish, RaiseEarly, Crash, Vanish, Modify, StartWorkers
  <2>. QED
    BY <2>1, <2>2, <2>3
<1>. QED
  BY <1>1, <1>2, PTL DEF Spec

-----------------------------------------------------------------------------
(* Settling: no message of a unit follows its last one *)

Closing(m) == m.kind \in {"done", "failed"}
Handling == mpc \in {"handle", "record"}
ActiveOn(w, f) == wst[w] \in {"opening", "parsing"} /\ wfile[w] = f
SpokeOf(w, f) == \E i \in 1..Len(chan[w]) : chan[w][i].file = f
About(w, f) == ActiveOn(w, f) \/ SpokeOf(w, f)
Quiet(f) == f \notin fileq /\ \A w \in Workers : ~About(w, f)

\* A queued path is nobody's; a unit is with one worker; its closing message is its last;
\* once that is handled, nothing of the unit is in flight.
QueuedOnly(f) == f \in fileq => /\ \A w \in Workers : ~About(w, f)
                                /\ Handling => cur.file # f
OneWorker(f) == \A w, u \in Workers : About(w, f) /\ About(u, f) => w = u
LastIsLast(f) ==
  \A w \in Workers : \A i \in 1..Len(chan[w]) :
    chan[w][i].file = f /\ Closing(chan[w][i]) =>
      /\ ~ActiveOn(w, f)
      /\ \A j \in 1..Len(chan[w]) : j > i => chan[w][j].file # f
ClosedIsQuiet(f) == mpc = "handle" /\ cur.file = f /\ Closing(cur) => Quiet(f)
SettledIsQuiet(f) ==
  f \in jobs /\ log[f].status \in {"COMPLETED", "FAILED"} =>
    Quiet(f) /\ (Handling => cur.file # f)

Orderly(f) == QueuedOnly(f) /\ OneWorker(f) /\ LastIsLast(f) /\ ClosedIsQuiet(f)
              /\ SettledIsQuiet(f)
OrderInv == Looping => \A f \in Files : Orderly(f)

\* A step that puts nothing, takes nothing and settles nothing keeps the order.
LEMMA OrderQuiet ==
  ASSUME TypeOK, NEW f \in Files, Orderly(f), UNCHANGED <<fileq, wst, wfile, chan, jobs>>,
         Handling' => Handling /\ cur' = cur,
         mpc' = "handle" => mpc = "handle",
         log'[f] = log[f] \/ log'[f].status \notin {"COMPLETED", "FAILED"} \/ (Quiet(f) /\ ~Handling')
  PROVE  Orderly(f)'
<1>1. \A w \in Workers : (ActiveOn(w, f)' <=> ActiveOn(w, f)) /\ (SpokeOf(w, f)' <=> SpokeOf(w, f))
  BY DEF ActiveOn, SpokeOf
<1>2. \A w \in Workers : About(w, f)' <=> About(w, f)
  BY <1>1 DEF About
<1>3. Quiet(f)' <=> Quiet(f)
  BY <1>2 DEF Quiet
<1>4. QueuedOnly(f)' /\ OneWorker(f)'
  BY <1>2 DEF Orderly, QueuedOnly, OneWorker
<1>5. LastIsLast(f)'
  BY <1>1 DEF Orderly, LastIsLast, Closing
<1>6. ClosedIsQuiet(f)'
  BY <1>3 DEF Orderly, ClosedIsQuiet, Closing, Handling
<1>7. SettledIsQuiet(f)'
  BY <1>3 DEF Orderly, SettledIsQuiet
<1>. QED
  BY <1>4, <1>5, <1>6, <1>7 DEF Orderly

\* A path taken from the queue was nobody's.
LEMMA OrderTake ==
  ASSUME TypeOK, NEW f \in Files, Orderly(f), NEW w \in Workers, TakePath(w)
  PROVE  Orderly(f)'
<1>1. PICK g \in fileq : fileq' = fileq \ {g} /\ wfile' = [wfile EXCEPT ![w] = g]
  BY DEF TakePath
<1>2. wst[w] = "idle" /\ wst' = [wst EXCEPT ![w] = "opening"]
      /\ UNCHANGED <<chan, cur, mpc, log, jobs>>
  BY DEF TakePath, durable, ledger, loop
<1>3. wst \in [Workers -> {"off", "idle", "opening", "parsing", "exited", "dead"}]
      /\ wfile \in [Workers -> Files \cup {NoFile}]
  BY DEF TypeOK
<1>4. \A u \in Workers : SpokeOf(u, f)' <=> SpokeOf(u, f)
  BY <1>2 DEF SpokeOf
<1>5. \A u \in Workers : ActiveOn(u, f)' <=> (ActiveOn(u, f) \/ (u = w /\ f = g))
  BY <1>1, <1>2, <1>3 DEF ActiveOn
<1>6. \A u \in Workers : About(u, f)' <=> (About(u, f) \/ (u = w /\ f = g))
  BY <1>4, <1>5 DEF About
<1>7. f = g => (\A u \in Workers : ~About(u, f)) /\ (Handling => cur.file # f)
  BY <1>1 DEF Orderly, QueuedOnly
<1>8. f # g => (f \in fileq' <=> f \in fileq)
  BY <1>1
<1>9. f = g => f \notin fileq' /\ f \in fileq
  BY <1>1
<1>10. Handling' <=> Handling
  BY <1>2 DEF Handling
<1>11. QueuedOnly(f)' /\ OneWorker(f)'
  BY <1>2, <1>6, <1>7, <1>8, <1>9, <1>10 DEF Orderly, QueuedOnly, OneWorker
<1>12. LastIsLast(f)'
  <2>1. CASE f = g
    BY <1>2, <1>7, <2>1 DEF LastIsLast, About, SpokeOf
  <2>2. CASE f # g
    BY <1>2, <1>5, <2>2 DEF Orderly, LastIsLast, Closing
  <2>. QED
    BY <2>1, <2>2
<1>13. Quiet(f) => f # g /\ Quiet(f)'
  BY <1>6, <1>8, <1>9 DEF Quiet
<1>14. ClosedIsQuiet(f)' /\ SettledIsQuiet(f)'
  BY <1>2, <1>10, <1>13 DEF Orderly, ClosedIsQuiet, SettledIsQuiet, Closing
<1>. QED
  BY <1>11, <1>12, <1>14 DEF Orderly

\* A worker that was working on g put a message about it, the last one as it closes.
LEMMA OrderPut ==
  ASSUME TypeOK, NEW f \in Files, Orderly(f), NEW w \in Workers, NEW g, NEW m,
         ActiveOn(w, g), m.file = g, chan' = [chan EXCEPT ![w] = Append(@, m)],
         UNCHANGED <<fileq, wfile, cur, mpc, log, jobs>>,
         \A u \in Workers : u # w => wst'[u] = wst[u],
         Closing(m) => wst'[w] \notin {"opening", "parsing"}
  PROVE  Orderly(f)'
<1>1. chan \in [Workers -> Seq(Message)]
  BY DEF TypeOK
<1>2. /\ \A u \in Workers : u # w => chan'[u] = chan[u]
      /\ chan[w] \in Seq(Message) /\ Len(chan[w]) \in Nat
      /\ Len(chan'[w]) = Len(chan[w]) + 1 /\ chan'[w][Len(chan[w]) + 1] = m
      /\ \A i \in 1..Len(chan[w]) : chan'[w][i] = chan[w][i]
  BY <1>1
<1>3. \A u \in Workers : ActiveOn(u, f)' => ActiveOn(u, f)
  BY DEF ActiveOn
<1>4. \A u \in Workers : SpokeOf(u, f)' => SpokeOf(u, f) \/ (u = w /\ f = g)
  <2>1. ASSUME NEW u \in Workers, SpokeOf(u, f)', u # w PROVE SpokeOf(u, f)
    BY <1>2, <2>1 DEF SpokeOf
  <2>2. ASSUME SpokeOf(w, f)', f # g PROVE SpokeOf(w, f)
    BY <1>2, <2>2 DEF SpokeOf
  <2>. QED
    BY <2>1, <2>2
<1>5. \A u \in Workers : About(u, f)' => About(u, f)
  BY <1>3, <1>4 DEF About
<1>6. Quiet(f) => Quiet(f)'
  BY <1>5 DEF Quiet
<1>7. QueuedOnly(f)' /\ OneWorker(f)'
  BY <1>5 DEF Orderly, QueuedOnly, OneWorker, Handling
<1>8. ClosedIsQuiet(f)' /\ SettledIsQuiet(f)'
  BY <1>6 DEF Orderly, ClosedIsQuiet, SettledIsQuiet, Closing, Handling
<1>9. LastIsLast(f)'
  <2> SUFFICES ASSUME NEW u \in Workers, NEW i \in 1..Len(chan'[u]),
                      chan'[u][i].file = f, Closing(chan'[u][i])
               PROVE  /\ ~ActiveOn(u, f)'
                      /\ \A j \in 1..Len(chan'[u]) : j > i => chan'[u][j].file # f
    BY DEF LastIsLast, Closing
  <2>1. CASE u # w
    BY <1>2, <1>3, <2>1 DEF Orderly, LastIsLast
  <2>2. CASE u = w /\ i <= Len(chan[w])
    <3>1. i \in 1..Len(chan[w]) /\ chan[w][i].file = f /\ Closing(chan[w][i])
      BY <1>2, <2>2
    <3>2. ~ActiveOn(w, f) /\ \A j \in 1..Len(chan[w]) : j > i => chan[w][j].file # f
      BY <3>1 DEF Orderly, LastIsLast
    <3>3. f # g
      BY <3>2
    <3>. QED
      BY <1>2, <1>3, <2>2, <3>2, <3>3
  <2>3. CASE u = w /\ i > Len(chan[w])
    <3>1. i = Len(chan[w]) + 1 /\ Closing(m)
      BY <1>2, <2>3
    <3>2. ~ActiveOn(w, f)'
      BY <3>1 DEF ActiveOn
    <3>. QED
      BY <1>2, <2>3, <3>1, <3>2
  <2>4. i \in Nat /\ Len(chan[w]) \in Nat
    BY <1>2, <2>1
  <2>. QED
    BY <2>1, <2>2, <2>3, <2>4
<1>. QED
  BY <1>7, <1>8, <1>9 DEF Orderly

\* A worker dies with some of its last messages.
LEMMA OrderDies ==
  ASSUME TypeOK, NEW f \in Files, Orderly(f), NEW w \in Workers, WorkerDies(w)
  PROVE  Orderly(f)'
<1>1. /\ wst' = [wst EXCEPT ![w] = "dead"]
      /\ UNCHANGED <<fileq, wfile, cur, mpc, log, jobs>>
  BY DEF WorkerDies, durable, ledger, loop
<1>2. chan \in [Workers -> Seq(Message)]
      /\ wst \in [Workers -> {"off", "idle", "opening", "parsing", "exited", "dead"}]
  BY DEF TypeOK
<1>3. PICK n \in 0..Len(chan[w]) : chan' = [chan EXCEPT ![w] = SubSeq(@, 1, n)]
  BY DEF WorkerDies
<1>4. \A u \in Workers : u # w => chan'[u] = chan[u]
  BY <1>2, <1>3
<1>5. /\ Len(chan[w]) \in Nat /\ Len(chan'[w]) = n
      /\ \A i \in 1..n : i \in 1..Len(chan[w]) /\ chan'[w][i] = chan[w][i]
  BY <1>2, <1>3
<1>6. \A u \in Workers : ActiveOn(u, f)' => ActiveOn(u, f)
  BY <1>1, <1>2 DEF ActiveOn
<1>7. \A u \in Workers : SpokeOf(u, f)' => SpokeOf(u, f)
  <2>1. ASSUME NEW u \in Workers, SpokeOf(u, f)', u # w PROVE SpokeOf(u, f)
    BY <1>4, <2>1 DEF SpokeOf
  <2>2. ASSUME SpokeOf(w, f)' PROVE SpokeOf(w, f)
    BY <1>5, <2>2 DEF SpokeOf
  <2>. QED
    BY <2>1, <2>2
<1>8. \A u \in Workers : About(u, f)' => About(u, f)
  BY <1>6, <1>7 DEF About
<1>9. Quiet(f) => Quiet(f)'
  BY <1>1, <1>8 DEF Quiet
<1>10. QueuedOnly(f)' /\ OneWorker(f)'
  BY <1>1, <1>8 DEF Orderly, QueuedOnly, OneWorker, Handling
<1>11. ClosedIsQuiet(f)' /\ SettledIsQuiet(f)'
  BY <1>1, <1>9 DEF Orderly, ClosedIsQuiet, SettledIsQuiet, Closing, Handling
<1>12. LastIsLast(f)'
  <2> SUFFICES ASSUME NEW u \in Workers, NEW i \in 1..Len(chan'[u]),
                      chan'[u][i].file = f, Closing(chan'[u][i])
               PROVE  /\ ~ActiveOn(u, f)'
                      /\ \A j \in 1..Len(chan'[u]) : j > i => chan'[u][j].file # f
    BY DEF LastIsLast, Closing
  <2>1. i \in 1..Len(chan[u]) /\ chan[u][i] = chan'[u][i]
    BY <1>4, <1>5
  <2>2. \A j \in 1..Len(chan'[u]) : j \in 1..Len(chan[u]) /\ chan[u][j] = chan'[u][j]
    BY <1>4, <1>5
  <2>3. ~ActiveOn(u, f) /\ \A j \in 1..Len(chan[u]) : j > i => chan[u][j].file # f
    BY <2>1 DEF Orderly, LastIsLast
  <2>. QED
    BY <1>6, <2>2, <2>3
<1>. QED
  BY <1>10, <1>11, <1>12 DEF Orderly

\* The main process takes the first message of a worker.
LEMMA OrderReceive ==
  ASSUME TypeOK, NEW f \in Files, Orderly(f), NEW w \in Workers, Receive(w)
  PROVE  Orderly(f)'
<1>1. /\ mpc = "get" /\ mpc' = "handle" /\ chan[w] # <<>>
      /\ cur' = Head(chan[w]) /\ chan' = [chan EXCEPT ![w] = Tail(@)]
      /\ UNCHANGED <<fileq, wst, wfile, log, jobs>>
  BY DEF Receive, Arrived, durable, ledger
<1>2. chan \in [Workers -> Seq(Message)]
  BY DEF TypeOK
<1>3. \A u \in Workers : u # w => chan'[u] = chan[u]
  BY <1>1, <1>2
<1>4. /\ Len(chan[w]) \in Nat /\ Len(chan[w]) >= 1
      /\ Len(chan'[w]) = Len(chan[w]) - 1 /\ cur' = chan[w][1]
      /\ \A i \in 1..Len(chan'[w]) : i + 1 \in 1..Len(chan[w]) /\ chan'[w][i] = chan[w][i + 1]
  BY <1>1, <1>2
<1>5. \A u \in Workers : ActiveOn(u, f)' <=> ActiveOn(u, f)
  BY <1>1 DEF ActiveOn
<1>6. \A u \in Workers : SpokeOf(u, f)' => SpokeOf(u, f)
  <2>1. ASSUME NEW u \in Workers, SpokeOf(u, f)', u # w PROVE SpokeOf(u, f)
    BY <1>3, <2>1 DEF SpokeOf
  <2>2. ASSUME SpokeOf(w, f)' PROVE SpokeOf(w, f)
    BY <1>4, <2>2 DEF SpokeOf
  <2>. QED
    BY <2>1, <2>2
<1>7. \A u \in Workers : About(u, f)' => About(u, f)
  BY <1>5, <1>6 DEF About
<1>8. Quiet(f) => Quiet(f)'
  BY <1>1, <1>7 DEF Quiet
<1>9. cur'.file = f => About(w, f) /\ 1 \in 1..Len(chan[w]) /\ chan[w][1].file = f
  <2>1. 1 \in 1..Len(chan[w])
    BY <1>4
  <2>. QED
    BY <1>4, <2>1 DEF About, SpokeOf
<1>10. QueuedOnly(f)' /\ OneWorker(f)'
  BY <1>1, <1>7, <1>9 DEF Orderly, QueuedOnly, OneWorker
<1>11. SettledIsQuiet(f)'
  BY <1>1, <1>8, <1>9 DEF Orderly, SettledIsQuiet, Quiet
<1>12. ClosedIsQuiet(f)'
  <2> SUFFICES ASSUME cur'.file = f, Closing(cur') PROVE Quiet(f)'
    BY DEF ClosedIsQuiet, Closing
  <2>1. About(w, f) /\ 1 \in 1..Len(chan[w]) /\ chan[w][1].file = f /\ Closing(chan[w][1])
    BY <1>4, <1>9
  <2>2. ~ActiveOn(w, f) /\ \A j \in 1..Len(chan[w]) : j > 1 => chan[w][j].file # f
    BY <2>1 DEF Orderly, LastIsLast
  <2>3. ~SpokeOf(w, f)'
    <3> SUFFICES ASSUME NEW i \in 1..Len(chan'[w]), chan'[w][i].file = f PROVE FALSE
      BY DEF SpokeOf
    <3>1. i + 1 \in 1..Len(chan[w]) /\ chan[w][i + 1].file = f /\ i + 1 > 1
      BY <1>4
    <3>. QED
      BY <2>2, <3>1
  <2>4. ~About(w, f)'
    BY <1>5, <2>2, <2>3 DEF About
  <2>5. \A u \in Workers : u # w => ~About(u, f)'
    BY <1>7, <2>1 DEF Orderly, OneWorker
  <2>6. f \notin fileq'
    BY <1>1, <2>1 DEF Orderly, QueuedOnly
  <2>. QED
    BY <2>4, <2>5, <2>6 DEF Quiet
<1>13. LastIsLast(f)'
  <2> SUFFICES ASSUME NEW u \in Workers, NEW i \in 1..Len(chan'[u]),
                      chan'[u][i].file = f, Closing(chan'[u][i])
               PROVE  /\ ~ActiveOn(u, f)'
                      /\ \A j \in 1..Len(chan'[u]) : j > i => chan'[u][j].file # f
    BY DEF LastIsLast, Closing
  <2>1. CASE u # w
    BY <1>3, <1>5, <2>1 DEF Orderly, LastIsLast
  <2>2. CASE u = w
    <3>1. i + 1 \in 1..Len(chan[w]) /\ chan[w][i + 1].file = f /\ Closing(chan[w][i + 1])
      BY <1>4, <2>2
    <3>2. ~ActiveOn(w, f) /\ \A j \in 1..Len(chan[w]) : j > i + 1 => chan[w][j].file # f
      BY <3>1 DEF Orderly, LastIsLast
    <3>3. ASSUME NEW j \in 1..Len(chan'[w]), j > i PROVE chan'[w][j].file # f
      <4>1. j + 1 \in 1..Len(chan[w]) /\ chan'[w][j] = chan[w][j + 1]
        BY <1>4
      <4>2. j + 1 > i + 1
        BY <2>2, <3>3
      <4>. QED
        BY <3>2, <4>1, <4>2
    <3>. QED
      BY <1>5, <2>2, <3>2, <3>3
  <2>. QED
    BY <2>1, <2>2
<1>. QED
  BY <1>10, <1>11, <1>12, <1>13 DEF Orderly

\* A step of a worker keeps the order.
LEMMA OrderWorker ==
  ASSUME TypeOK, PoolInv, NEW f \in Files, Orderly(f), NEW w \in Workers,
         WorkerStep(w) \/ WorkerDies(w)
  PROVE  Orderly(f)'
<1> USE DEF durable, ledger, loop, pool, bounds
<1>1. CASE TakePath(w)
  BY <1>1, OrderTake
<1>2. CASE WorkerExit(w)
  <2>1. /\ wst' = [wst EXCEPT ![w] = "exited"] /\ wst[w] = "idle"
        /\ UNCHANGED <<fileq, wfile, chan, cur, mpc, log, jobs>>
    BY <1>2 DEF WorkerExit
  <2>2. \A u \in Workers : ActiveOn(u, f)' <=> ActiveOn(u, f)
    BY <2>1 DEF ActiveOn, TypeOK
  <2>3. \A u \in Workers : SpokeOf(u, f)' <=> SpokeOf(u, f)
    BY <2>1 DEF SpokeOf
  <2>4. \A u \in Workers : About(u, f)' <=> About(u, f)
    BY <2>2, <2>3 DEF About
  <2>5. Quiet(f)' <=> Quiet(f)
    BY <2>1, <2>4 DEF Quiet
  <2>6. QueuedOnly(f)' /\ OneWorker(f)'
    BY <2>1, <2>4 DEF Orderly, QueuedOnly, OneWorker, Handling
  <2>7. LastIsLast(f)'
    BY <2>1, <2>2 DEF Orderly, LastIsLast, Closing
  <2>8. ClosedIsQuiet(f)' /\ SettledIsQuiet(f)'
    BY <2>1, <2>5 DEF Orderly, ClosedIsQuiet, SettledIsQuiet, Closing, Handling
  <2>. QED
    BY <2>6, <2>7, <2>8 DEF Orderly
<1>3. CASE Resolve(w) \/ PutFailed(w) \/ PutItem(w) \/ PutDone(w)
  <2>1. /\ ActiveOn(w, wfile[w])
        /\ UNCHANGED <<fileq, wfile, cur, mpc, log, jobs>>
        /\ \A u \in Workers : u # w => wst'[u] = wst[u]
    BY <1>3 DEF Resolve, PutFailed, PutItem, PutDone, ActiveOn, TypeOK
  <2>2. CASE Resolve(w)
    <3> DEFINE m == Msg("resolved", wfile[w])
    <3>1. m.file = wfile[w] /\ ~Closing(m) /\ chan' = [chan EXCEPT ![w] = Append(@, m)]
      BY <2>2 DEF Resolve, Put, Msg, Closing
    <3>. QED
      BY <2>1, <3>1, OrderPut
  <2>3. CASE PutFailed(w)
    <3> DEFINE m == Msg("failed", wfile[w])
    <3>1. m.file = wfile[w] /\ chan' = [chan EXCEPT ![w] = Append(@, m)]
          /\ wst'[w] \notin {"opening", "parsing"}
      BY <2>3 DEF PutFailed, Put, Msg, TypeOK
    <3>. QED
      BY <2>1, <3>1, OrderPut
  <2>4. CASE PutDone(w)
    <3> DEFINE m == Msg("done", wfile[w])
    <3>1. m.file = wfile[w] /\ chan' = [chan EXCEPT ![w] = Append(@, m)]
          /\ wst'[w] \notin {"opening", "parsing"}
      BY <2>4 DEF PutDone, Put, Msg, TypeOK
    <3>. QED
      BY <2>1, <3>1, OrderPut
  <2>5. CASE PutItem(w)
    <3> DEFINE g == wfile[w]
               item == Content[g][disk[g]][wpos[w] + 1]
               m == [kind |-> item.kind, file |-> g, mails |-> item.mails, version |-> disk[g]]
    <3>1. m.file = g /\ m.kind = item.kind
      OBVIOUS
    <3>2. chan' = [chan EXCEPT ![w] = Append(@, m)] /\ UNCHANGED wst
      BY <2>5 DEF PutItem, Put
    <3>3. item.kind \in {"batch", "errors"}
      BY <2>5, ReadsItem, ItemType
    <3>4. ~Closing(m)
      BY <3>1, <3>3 DEF Closing
    <3>. HIDE DEF m
    <3>. QED
      BY <2>1, <3>1, <3>2, <3>4, OrderPut
  <2>. QED
    BY <1>3, <2>2, <2>3, <2>4, <2>5
<1>. QED
  BY <1>1, <1>2, <1>3, OrderDies DEF WorkerStep

\* Every step keeps the order.
LEMMA OrderStep ==
  ASSUME TypeOK, PoolInv, PlanInv, OrderInv, [Next]_vars, PoolInv'
  PROVE  OrderInv'
<1> SUFFICES ASSUME Looping', NEW f \in Files PROVE Orderly(f)'
  BY DEF OrderInv
<1> USE DEF durable, ledger, loop, pool, bounds
<1>1. CASE ~Looping
  <2>1. StartWorkers
    BY <1>1 DEF Looping, PoolInv, Next, MainStep, WorkerStep, Environment, vars, TakePath,
         WorkerExit, Resolve, PutFailed, PutItem, PutDone, WorkerDies, Receive, NothingToDo,
         OpenStorage, LoopDone, StopRequested, Proceed, Timeout, GiveUp, KeepWaiting,
         HandleNote, UpsertBatch, RecordBatch, SettleDone, SettleFailed, SetStop, Interrupt,
         UpsertFails, Raise, PlanFile, StartRun, Finish, RaiseEarly, Crash, Vanish, Modify
  <2>2. /\ mpc' = "opening" /\ mpc = "planning" /\ chan' = chan /\ jobs' = jobs
        /\ log' = PlannedLog /\ \A w \in Workers : wst'[w] \in {"idle", "off"}
    BY <2>1 DEF StartWorkers
  <2>3. \A w \in Workers : chan'[w] = <<>>
    BY <2>2 DEF PoolInv
  <2>4. \A w \in Workers : ~ActiveOn(w, f)' /\ ~SpokeOf(w, f)'
    <3>1. ASSUME NEW w \in Workers PROVE ~ActiveOn(w, f)'
      BY <2>2, Zenon DEF ActiveOn
    <3>2. ASSUME NEW w \in Workers PROVE ~SpokeOf(w, f)'
      <4>1. chan'[w] = <<>>
        BY <2>3
      <4>2. Len(chan'[w]) = 0
        BY <4>1
      <4>. QED
        BY <4>2 DEF SpokeOf
    <3>. QED
      BY <3>1, <3>2
  <2>5. \A w \in Workers : ~About(w, f)'
    BY <2>4 DEF About
  <2>6. QueuedOnly(f)' /\ OneWorker(f)' /\ ClosedIsQuiet(f)'
    BY <2>2, <2>5 DEF QueuedOnly, OneWorker, ClosedIsQuiet, Handling
  <2>7. LastIsLast(f)'
    BY <2>3 DEF LastIsLast
  <2>8. SettledIsQuiet(f)'
    BY <2>2 DEF SettledIsQuiet, PlannedLog
  <2>. QED
    BY <2>6, <2>7, <2>8 DEF Orderly
<1>2. CASE Looping
  <2>0. Orderly(f)
    BY <1>2 DEF OrderInv
  <2>1. CASE \E w \in Workers : WorkerStep(w) \/ WorkerDies(w)
    BY <2>0, <2>1, OrderWorker
  <2>2. CASE \E w \in Workers : Receive(w)
    BY <2>0, <2>2, OrderReceive
  <2>3. CASE OpenStorage \/ Proceed \/ Timeout \/ KeepWaiting \/ HandleNote \/ SetStop
             \/ UpsertBatch \/ (\E g \in Files : Modify(g)) \/ UNCHANGED vars
    <3>1. /\ UNCHANGED <<fileq, wst, wfile, chan, jobs, log>>
          /\ Handling' => Handling /\ cur' = cur
          /\ mpc' = "handle" => mpc = "handle"
      BY <2>3 DEF OpenStorage, Proceed, Timeout, KeepWaiting, HandleNote, SetStop,
                  UpsertBatch, Modify, vars, Handling
    <3>. QED
      BY <2>0, <3>1, OrderQuiet
  <2>4. CASE RecordBatch
    <3>1. /\ UNCHANGED <<fileq, wst, wfile, chan, jobs>> /\ mpc' = "top"
          /\ log'[f] = log[f] \/ log'[f].status \notin {"COMPLETED", "FAILED"}
      BY <2>4 DEF RecordBatch, TypeOK
    <3>. QED
      BY <2>0, <3>1, OrderQuiet DEF Handling
  <2>5. CASE SettleDone \/ SettleFailed
    <3>1. /\ UNCHANGED <<fileq, wst, wfile, chan, jobs>> /\ mpc' = "top"
          /\ mpc = "handle" /\ Closing(cur) /\ (f # cur.file => log'[f] = log[f])
      BY <2>5 DEF SettleDone, SettleFailed, TypeOK, Closing
    <3>2. f = cur.file => Quiet(f)
      BY <2>0, <3>1 DEF Orderly, ClosedIsQuiet
    <3>. QED
      BY <2>0, <3>1, <3>2, OrderQuiet DEF Handling
  <2>6. CASE NothingToDo \/ StartWorkers \/ LoopDone \/ StopRequested \/ GiveUp \/ Finish
             \/ StartRun \/ Interrupt \/ UpsertFails \/ Raise \/ RaiseEarly \/ Crash
             \/ \E g \in Files : PlanFile(g)
    <3>1. CASE RaiseEarly \/ Crash
      BY <3>1 DEF Looping, RaiseEarly, Crash, Vanish
    <3>2. CASE NothingToDo \/ StartWorkers \/ StartRun \/ \E g \in Files : PlanFile(g)
      BY <1>2, <3>2 DEF Looping, NothingToDo, StartWorkers, StartRun, PlanFile
    <3>3. CASE LoopDone \/ StopRequested \/ GiveUp \/ Finish \/ Interrupt \/ UpsertFails
               \/ Raise
      BY <3>3 DEF Looping, LoopDone, StopRequested, GiveUp, Finish, Interrupt, UpsertFails,
                  Raise
    <3>. QED
      BY <2>6, <3>1, <3>2, <3>3
  <2>. QED
    BY <2>1, <2>2, <2>3, <2>4, <2>5, <2>6, Zenon DEF Next, MainStep, Environment
<1>. QED
  BY <1>1, <1>2

\* No message follows the last one of its unit, in every run of the program.
LEMMA OrderAlways == Spec => [](IInv /\ OrderInv)
<1>1. Init => OrderInv
  BY DEF Init, OrderInv, Looping
<1>2. IInv /\ IInv' /\ OrderInv /\ [Next]_vars => OrderInv'
  BY OrderStep DEF IInv
<1>. QED
  BY <1>1, <1>2, Inductive, PTL DEF Spec

\* What a step may do to the log of a settled unit.
LEMMA SettledStep ==
  ASSUME TypeOK, PoolInv, OrderInv, [Next]_vars, NEW f \in Files, mpc # "planning",
         log[f].status \in {"COMPLETED", "FAILED"}
  PROVE  log'[f] = log[f]
<1> USE DEF durable, ledger, loop, pool, bounds
<1>1. CASE RecordBatch \/ SettleDone \/ SettleFailed
  <2>1. mpc \in {"handle", "record"} /\ cur.file \in jobs
    BY <1>1 DEF RecordBatch, SettleDone, SettleFailed, PoolInv, MsgOK
  <2>2. cur.file # f
    BY <2>1 DEF OrderInv, Looping, Orderly, SettledIsQuiet, Handling
  <2>. QED
    BY <1>1, <2>2 DEF RecordBatch, SettleDone, SettleFailed, TypeOK
<1>2. CASE ~(RecordBatch \/ SettleDone \/ SettleFailed)
  <2>1. log' = log
    BY <1>2 DEF Next, MainStep, WorkerStep, Environment, vars, TakePath, WorkerExit, Resolve,
         PutFailed, PutItem, PutDone, WorkerDies, Receive, NothingToDo, OpenStorage,
         LoopDone, StopRequested, Proceed, Timeout, GiveUp, KeepWaiting, HandleNote,
         UpsertBatch, SetStop, Interrupt, UpsertFails, Raise, PlanFile, StartRun, Finish,
         RaiseEarly, Crash, Vanish, Modify, StartWorkers
  <2>. QED
    BY <2>1
<1>. QED
  BY <1>1, <1>2

\* SettledStaysSettled: a unit settled by "done" or "failed" (orchestrator.py) is not
\* touched again in the run: no batch sends a COMPLETED unit back to WRITING.
THEOREM StaysSettled == Spec => SettledStaysSettled
<1> DEFINE Kept == \A f \in Files : mpc # "planning" /\ log[f].status \in {"COMPLETED", "FAILED"}
                                      => log'[f] = log[f]
<1>1. IInv /\ OrderInv /\ [Next]_vars => [Kept]_vars
  BY SettledStep DEF IInv
<1>. QED
  BY <1>1, OrderAlways, PTL DEF Spec, SettledStaysSettled

-----------------------------------------------------------------------------
(* The summary *)

\* What a run has of its units while it plans, while it works and when it has returned.
Working == mpc \notin {"idle", "planning"} \/ (mpc = "idle" /\ outcome = "returned")
Planned ==
  mpc = "planning" =>
    /\ targets = todo \cup jobs \cup summary.skipped \cup summary.failed
    /\ summary.completed = {} /\ jobs \cap summary.failed = {} /\ outcome = "none"
Worked ==
  Working =>
    /\ targets = jobs \cup summary.skipped \cup summary.failed
    /\ jobs \subseteq remaining \cup summary.completed \cup summary.failed
    /\ summary.completed \subseteq jobs
    /\ \A f \in summary.completed : log[f].status = "COMPLETED"
    /\ \A f \in summary.failed : log[f].status = "FAILED"
Returned ==
  /\ Looping => outcome = "none"
  /\ outcome = "returned" => mpc \in {"cleanup", "idle"}
  /\ outcome = "returned" \/ mpc \in {"idle", "planning"} => remaining = {}
Accounts == Planned /\ Worked /\ Returned

\* Settling one job more keeps the account.
LEMMA AccountSettle ==
  ASSUME TypeOK, PoolInv, OrderInv, Accounts, [Next]_vars, SettleDone \/ SettleFailed
  PROVE  Accounts'
<1> USE DEF durable, ledger, loop, pool, bounds
<1>1. /\ mpc = "handle" /\ mpc' = "top" /\ cur.file \in jobs /\ cur.file \in Files
      /\ UNCHANGED <<targets, todo, jobs, outcome>> /\ remaining' = remaining \ {cur.file}
      /\ log \in [Files -> FileState] /\ summary \in Summary /\ jobs \subseteq Files
  BY DEF SettleDone, SettleFailed, TypeOK, PoolInv, MsgOK
<1>2. \A f \in Files : log[f].status \in {"COMPLETED", "FAILED"} => log'[f] = log[f]
  BY <1>1, SettledStep
<1>3. Worked /\ Working /\ Returned /\ outcome = "none"
  BY <1>1 DEF Accounts, Working, Returned, Looping
<1>4. /\ summary.completed \subseteq Files /\ summary.failed \subseteq Files
      /\ summary.skipped \subseteq Files
  BY <1>1 DEF Summary
<1>5. /\ \A f \in summary.completed : log'[f].status = "COMPLETED"
      /\ \A f \in summary.failed : log'[f].status = "FAILED"
  <2>1. /\ \A f \in summary.completed : log[f].status = "COMPLETED" /\ f \in Files
        /\ \A f \in summary.failed : log[f].status = "FAILED" /\ f \in Files
    BY <1>3, <1>4 DEF Worked
  <2>2. ASSUME NEW f \in summary.completed PROVE log'[f].status = "COMPLETED"
    <3>1. log[f].status = "COMPLETED" /\ f \in Files
      BY <2>1
    <3>2. log'[f] = log[f]
      BY <1>2, <3>1
    <3>. QED
      BY <3>1, <3>2
  <2>3. ASSUME NEW f \in summary.failed PROVE log'[f].status = "FAILED"
    <3>1. log[f].status = "FAILED" /\ f \in Files
      BY <2>1
    <3>2. log'[f] = log[f]
      BY <1>2, <3>1
    <3>. QED
      BY <3>1, <3>2
  <2>. QED
    BY <2>2, <2>3
<1>6. Planned' /\ Returned'
  BY <1>1, <1>3 DEF Planned, Returned
<1>7. CASE SettleDone
  <2>1. /\ summary'.completed = summary.completed \cup {cur.file}
        /\ summary'.skipped = summary.skipped /\ summary'.failed = summary.failed
        /\ log'[cur.file].status = "COMPLETED"
    BY <1>1, <1>7 DEF SettleDone, Summary
  <2>. QED
    BY <1>1, <1>3, <1>5, <1>6, <2>1 DEF Accounts, Worked
<1>8. CASE SettleFailed
  <2>1. /\ summary'.failed = summary.failed \cup {cur.file}
        /\ summary'.skipped = summary.skipped /\ summary'.completed = summary.completed
        /\ log'[cur.file].status = "FAILED"
    BY <1>1, <1>8 DEF SettleFailed, Summary
  <2>. QED
    BY <1>1, <1>3, <1>5, <1>6, <2>1 DEF Accounts, Worked
<1>. QED
  BY <1>7, <1>8

\* Planning one unit, and the log it is saved to.
LEMMA AccountPlan ==
  ASSUME TypeOK, PlanInv, Accounts,
         NothingToDo \/ StartWorkers \/ StartRun \/ \E f \in Files : PlanFile(f)
  PROVE  Accounts'
<1> USE DEF durable, ledger, loop, pool, bounds
<1>1. CASE StartRun
  BY <1>1 DEF StartRun, NoSummary, Accounts, Planned, Worked, Working, Returned, Looping
<1>2. ASSUME NEW f \in Files, PlanFile(f) PROVE Accounts'
  <2>1. /\ mpc = "planning" /\ f \in todo /\ todo' = todo \ {f}
        /\ UNCHANGED <<mpc, targets, remaining, outcome, log>> /\ summary \in Summary
    BY <1>2 DEF PlanFile, TypeOK
  <2>2. /\ todo \cap (jobs \cup summary.failed \cup summary.skipped) = {}
        /\ Planned /\ Returned
    BY <2>1 DEF PlanInv, Accounts
  <2>3. summary'.completed = summary.completed
    BY <1>2, <2>1 DEF PlanFile, Summary
  <2>4. \/ jobs' = jobs \cup {f} /\ summary' = summary
        \/ jobs' = jobs /\ summary'.skipped = summary.skipped \cup {f}
             /\ summary'.failed = summary.failed
        \/ jobs' = jobs /\ summary'.failed = summary.failed \cup {f}
             /\ summary'.skipped = summary.skipped
    BY <1>2, <2>1 DEF PlanFile, Summary
  <2>5. Planned'
    BY <2>1, <2>2, <2>3, <2>4 DEF Planned
  <2>. QED
    BY <2>1, <2>2, <2>5 DEF Accounts, Worked, Working, Returned, Looping
<1>3. CASE NothingToDo \/ StartWorkers
  <2>1. /\ mpc = "planning" /\ todo = {} /\ UNCHANGED <<targets, todo, jobs, summary>>
        /\ log' = PlannedLog /\ mpc' \in {"idle", "opening"}
    BY <1>3 DEF NothingToDo, StartWorkers
  <2>2. Planned /\ Returned /\ summary.failed \subseteq Files
    BY DEF Accounts, TypeOK, Summary
  <2>3. \A f \in summary.failed : log'[f].status = "FAILED"
    BY <2>1, <2>2 DEF Planned, PlannedLog
  <2>4. CASE NothingToDo
    BY <2>1, <2>2, <2>3, <2>4 DEF NothingToDo, Accounts, Planned, Worked, Working, Returned, Looping
  <2>5. CASE StartWorkers
    BY <2>1, <2>2, <2>3, <2>5 DEF StartWorkers, Accounts, Planned, Worked, Working, Returned, Looping
  <2>. QED
    BY <1>3, <2>4, <2>5
<1>. QED
  BY <1>1, <1>2, <1>3

\* Every step keeps the account.
LEMMA AccountStep ==
  ASSUME TypeOK, PoolInv, PlanInv, OrderInv, Accounts, [Next]_vars
  PROVE  Accounts'
<1> USE DEF durable, ledger, loop, pool, bounds
<1>1. CASE SettleDone \/ SettleFailed
  BY <1>1, AccountSettle
<1>2. CASE NothingToDo \/ StartWorkers \/ StartRun \/ \E f \in Files : PlanFile(f)
  BY <1>2, AccountPlan
<1>3. CASE RecordBatch
  <2>1. /\ mpc = "record" /\ mpc' = "top"
        /\ UNCHANGED <<targets, todo, jobs, summary, remaining, outcome>>
    BY <1>3 DEF RecordBatch
  <2>2. \A f \in Files : log[f].status \in {"COMPLETED", "FAILED"} => log'[f] = log[f]
    BY <2>1, SettledStep
  <2>3. summary.completed \subseteq Files /\ summary.failed \subseteq Files
    BY DEF TypeOK, Summary
  <2>. QED
    BY <2>1, <2>2, <2>3 DEF Accounts, Planned, Worked, Working, Returned, Looping
<1>4. CASE \/ \E w \in Workers : WorkerStep(w) \/ WorkerDies(w) \/ Receive(w)
           \/ OpenStorage \/ Proceed \/ Timeout \/ KeepWaiting \/ HandleNote \/ UpsertBatch
           \/ SetStop \/ (\E f \in Files : Modify(f)) \/ UNCHANGED vars
  <2>1. /\ UNCHANGED <<targets, todo, jobs, summary, remaining, outcome, log>>
        /\ Looping' <=> Looping
        /\ mpc' = mpc \/ (Looping /\ Looping')
    BY <1>4 DEF WorkerStep, TakePath, WorkerExit, Resolve, PutFailed, PutItem, PutDone,
         WorkerDies, Receive, OpenStorage, Proceed, Timeout, KeepWaiting, HandleNote,
         UpsertBatch, SetStop, Modify, vars, Looping
  <2>. QED
    BY <2>1 DEF Accounts, Planned, Worked, Working, Returned, Looping
<1>5. CASE LoopDone \/ StopRequested \/ GiveUp \/ Interrupt \/ UpsertFails \/ Raise
  <2>1. /\ UNCHANGED <<targets, todo, jobs, summary, remaining, log>> /\ Looping
        /\ mpc' = "cleanup" /\ outcome' \in {"returned", "interrupted", "abandoned",
                                             "unwritten", "raised"}
        /\ outcome' = "returned" => remaining = {}
    BY <1>5 DEF LoopDone, StopRequested, GiveUp, Interrupt, UpsertFails, Raise, Looping
  <2>. QED
    BY <2>1 DEF Accounts, Planned, Worked, Working, Returned, Looping
<1>6. CASE Finish
  BY <1>6 DEF Finish, Accounts, Planned, Worked, Working, Returned, Looping
<1>7. CASE RaiseEarly \/ Crash
  BY <1>7 DEF RaiseEarly, Crash, Vanish, Accounts, Planned, Worked, Working, Returned, Looping
<1>. QED
  BY <1>1, <1>2, <1>3, <1>4, <1>5, <1>6, <1>7, Zenon DEF Next, MainStep, Environment

\* SummaryAccountsForAll: a run that returns has accounted for every unit it was given,
\* once, and says of it what the log says (IndexSummary, orchestrator.py).
THEOREM SummaryAccounts == Spec => []SummaryAccountsForAll
<1>1. Init => Accounts
  BY DEF Init, Accounts, Planned, Worked, Working, Returned, Looping
<1>2. IInv /\ OrderInv /\ Accounts /\ [Next]_vars => Accounts'
  BY AccountStep DEF IInv
<1>3. TypeOK /\ Accounts => SummaryAccountsForAll
  <2> SUFFICES ASSUME TypeOK, Accounts, mpc = "idle", outcome = "returned"
               PROVE  SummaryAccountsForAll
    BY DEF SummaryAccountsForAll
  <2>1. Worked /\ Working /\ remaining = {}
    BY DEF Accounts, Working, Returned
  <2>2. summary.completed \cap summary.failed = {}
    BY <2>1 DEF Worked
  <2>. QED
    BY <2>1, <2>2 DEF Worked, SummaryAccountsForAll
<1>4. IInv => TypeOK
  BY DEF IInv
<1>. QED
  BY <1>1, <1>2, <1>3, <1>4, OrderAlways, PTL DEF Spec

-----------------------------------------------------------------------------
(* Counting: what the counter of a unit and what is on its way add up to *)

\* The records of f that message m carries.
Records(m, f) == IF m.kind = "batch" /\ m.file = f THEN Len(m.mails) ELSE 0

\* A counter that stands at a is at b when the first n messages of s are counted.
Tally(s, n, f, a, b) ==
  \E c \in [0..n -> Nat] :
    /\ c[0] = a /\ c[n] = b
    /\ \A i \in 1..n : c[i] = c[i - 1] + Records(s[i], f)

\* The counter of f, once the message in hand is counted.
Known(f) == written[f] + (IF Handling THEN Records(cur, f) ELSE 0)
Upto(f, n) == Cardinality(YieldedTo(f, disk[f], n))

QueuedIsZero(f) == f \in fileq => written[f] = 0
ReadCounted(w, f) ==
  ActiveOn(w, f) => /\ wpos[w] <= Len(Content[f][disk[f]])
                    /\ Tally(chan[w], Len(chan[w]), f, Known(f), Upto(f, wpos[w]))
DoneCounted(w, j, f) ==
  chan[w][j].kind = "done" /\ chan[w][j].file = f =>
    Tally(chan[w], j, f, Known(f), Cardinality(Yielded(f, disk[f])))
HeldCounted(f) ==
  mpc = "handle" /\ cur.kind = "done" /\ cur.file = f =>
    written[f] = Cardinality(Yielded(f, disk[f]))

Counted(f) ==
  /\ QueuedIsZero(f) /\ HeldCounted(f)
  /\ \A w \in Workers : /\ ReadCounted(w, f)
                        /\ \A j \in 1..Len(chan[w]) : DoneCounted(w, j, f)

\* While the loop may run, the counter of an unchanged unit and what is on its way add up
\* to what a worker has read of it.
CountInv == Looping => \A f \in jobs : Unchanged(f) => Counted(f)

\* Messages that carry nothing of f leave its counter alone.
LEMMA TallyNone ==
  ASSUME NEW s, NEW n \in Nat, NEW f, NEW a \in Nat, \A i \in 1..n : Records(s[i], f) = 0
  PROVE  Tally(s, n, f, a, a)
<1> DEFINE c == [i \in 0..n |-> a]
<1>1. c \in [0..n -> Nat] /\ c[0] = a /\ c[n] = a
  OBVIOUS
<1>2. ASSUME NEW i \in 1..n PROVE c[i] = c[i - 1] + Records(s[i], f)
  <2>1. c[i] = a /\ c[i - 1] = a /\ a = a + 0
    OBVIOUS
  <2>. QED
    BY <2>1
<1> HIDE DEF c
<1>. QED
  BY <1>1, <1>2 DEF Tally

\* The tally depends on the messages it counts only.
LEMMA TallySame ==
  ASSUME NEW s, NEW t, NEW n \in Nat, \A i \in 1..n : t[i] = s[i],
         NEW f, NEW a, NEW b, Tally(s, n, f, a, b)
  PROVE  Tally(t, n, f, a, b)
  BY DEF Tally

\* One more message.
LEMMA TallyNext ==
  ASSUME NEW s, NEW t, NEW n \in Nat, \A i \in 1..n : t[i] = s[i],
         NEW f, NEW a, NEW b, Tally(s, n, f, a, b),
         NEW r \in Nat, Records(t[n + 1], f) = r
  PROVE  Tally(t, n + 1, f, a, b + r)
<1>1. PICK c \in [0..n -> Nat] :
        /\ c[0] = a /\ c[n] = b
        /\ \A i \in 1..n : c[i] = c[i - 1] + Records(s[i], f)
  BY DEF Tally
<1> DEFINE d == [i \in 0..(n + 1) |-> IF i = n + 1 THEN b + r ELSE c[i]]
<1>2. b \in Nat
  BY <1>1
<1>3. d \in [0..(n + 1) -> Nat]
  BY <1>1, <1>2
<1>4. d[0] = a /\ d[n + 1] = b + r /\ d[n] = b
  BY <1>1
<1>5. ASSUME NEW i \in 1..(n + 1) PROVE d[i] = d[i - 1] + Records(t[i], f)
  <2>1. CASE i = n + 1
    BY <1>4, <2>1
  <2>2. CASE i # n + 1
    <3>1. i \in 1..n /\ i - 1 \in 0..n /\ i # n + 1 /\ i - 1 # n + 1
      BY <2>2
    <3>2. d[i] = c[i] /\ d[i - 1] = c[i - 1] /\ t[i] = s[i]
      BY <3>1
    <3>. QED
      BY <1>1, <3>1, <3>2
  <2>. QED
    BY <2>1, <2>2
<1> HIDE DEF d
<1>6. n + 1 \in Nat
  OBVIOUS
<1>. QED
  BY <1>3, <1>4, <1>5, <1>6 DEF Tally

\* The first message is counted.
LEMMA TallyHead ==
  ASSUME NEW s, NEW t, NEW n \in Nat \ {0}, \A i \in 1..(n - 1) : t[i] = s[i + 1],
         NEW f, NEW a, NEW b, Tally(s, n, f, a, b)
  PROVE  Tally(t, n - 1, f, a + Records(s[1], f), b)
<1>1. PICK c \in [0..n -> Nat] :
        /\ c[0] = a /\ c[n] = b
        /\ \A i \in 1..n : c[i] = c[i - 1] + Records(s[i], f)
  BY DEF Tally
<1> DEFINE d == [i \in 0..(n - 1) |-> c[i + 1]]
<1>2. d \in [0..(n - 1) -> Nat]
  BY <1>1
<1>3. d[0] = c[1] /\ d[n - 1] = b
  BY <1>1
<1>4. c[1] = a + Records(s[1], f)
  <2>1. 1 \in 1..n /\ 1 - 1 = 0
    OBVIOUS
  <2>. QED
    BY <1>1, <2>1
<1>5. ASSUME NEW i \in 1..(n - 1) PROVE d[i] = d[i - 1] + Records(t[i], f)
  <2>0. i \in Nat /\ 1 <= i /\ i <= n - 1 /\ n \in Nat
    OBVIOUS
  <2>1. i + 1 \in 1..n /\ i - 1 \in 0..(n - 1) /\ i \in 0..(n - 1)
        /\ (i + 1) - 1 = i /\ (i - 1) + 1 = i
    BY <2>0
  <2>2. d[i] = c[i + 1] /\ d[i - 1] = c[i]
    BY <2>1
  <2>3. c[i + 1] = c[i] + Records(s[i + 1], f)
    BY <1>1, <2>1
  <2>. QED
    BY <2>2, <2>3
<1> HIDE DEF d
<1>6. n - 1 \in Nat
  OBVIOUS
<1>. QED
  BY <1>2, <1>3, <1>4, <1>5, <1>6 DEF Tally

\* One message.
LEMMA TallyOne ==
  ASSUME NEW s, NEW f, NEW a, NEW b, Tally(s, 1, f, a, b)
  PROVE  b = a + Records(s[1], f)
<1>1. 1 \in 1..1 /\ 1 - 1 = 0
  OBVIOUS
<1>. QED
  BY <1>1 DEF Tally

\* What a message carries is a number of records.
LEMMA RecordsType ==
  ASSUME NEW m \in Message, NEW f
  PROVE  Records(m, f) \in Nat /\ (m.kind # "batch" => Records(m, f) = 0)
  BY DEF Records, Message

\* The records of the first n items are those of one item fewer and those of the n-th.
LEMMA YieldedNone == ASSUME NEW f, NEW v PROVE Cardinality(YieldedTo(f, v, 0)) = 0
<1>1. YieldedTo(f, v, 0) = {}
  BY DEF YieldedTo
<1>. QED
  BY <1>1, FS_EmptySet

LEMMA ImageFinite ==
  ASSUME NEW S, IsFiniteSet(S), NEW g, g = [x \in S |-> g[x]]
  PROVE  IsFiniteSet({g[x] : x \in S})
<1> DEFINE T == {g[x] : x \in S}
<1>1. g \in Surjection(S, T)
  BY DEF Surjection
<1>. HIDE DEF T
<1>2. IsFiniteSet(T)
  BY <1>1, FS_Surjection
<1>. QED
  BY <1>2 DEF T

LEMMA YieldedNext ==
  ASSUME NEW f \in Files, NEW v \in 1..MaxVersion, NEW n \in 1..Len(Content[f][v])
  PROVE  /\ Cardinality(YieldedTo(f, v, n - 1)) \in Nat
         /\ Cardinality(YieldedTo(f, v, n))
              = Cardinality(YieldedTo(f, v, n - 1)) + Len(Content[f][v][n].mails)
<1> DEFINE D(i) == {i} \X DOMAIN Content[f][v][i].mails
<1>1. ASSUME NEW i \in 1..Len(Content[f][v])
      PROVE  IsFiniteSet(D(i)) /\ Cardinality(D(i)) = Len(Content[f][v][i].mails)
  <2>1. Content[f][v][i].mails \in Seq(Mails)
    BY ItemType
  <2>2. PICK k \in Nat : /\ k = Len(Content[f][v][i].mails)
                        /\ DOMAIN Content[f][v][i].mails = 1..k
    BY <2>1
  <2>3. IsFiniteSet(1..k) /\ Cardinality(1..k) = k
    <3>1. 1 \in Int /\ k \in Int /\ k - 1 + 1 = k /\ (1 > k => k = 0)
      OBVIOUS
    <3>. QED
      BY <3>1, FS_Interval
  <2>4. IsFiniteSet({i}) /\ Cardinality({i}) = 1
    BY FS_Singleton
  <2>5. IsFiniteSet({i} \X (1..k)) /\ Cardinality({i} \X (1..k)) = 1 * k
    <3> DEFINE A == {i}
               B == 1..k
    <3>1. IsFiniteSet(A) /\ Cardinality(A) = 1 /\ IsFiniteSet(B) /\ Cardinality(B) = k
      BY <2>3, <2>4
    <3> HIDE DEF A, B
    <3>2. IsFiniteSet(A \X B) /\ Cardinality(A \X B) = 1 * k
      BY <3>1, FS_Product
    <3>. QED
      BY <3>2 DEF A, B
  <2>6. 1 * k = k
    OBVIOUS
  <2>. QED
    BY <2>2, <2>5, <2>6
<1>2. Len(Content[f][v]) \in Nat
  OBVIOUS
<1>3. n - 1 \in Nat /\ n \in Nat /\ 1..(n - 1) \subseteq 1..Len(Content[f][v])
      /\ 1..n = 1..(n - 1) \cup {n} /\ n \notin 1..(n - 1)
  BY <1>2
<1>4. IsFiniteSet(YieldedTo(f, v, n - 1))
  <2> DEFINE S == 1..(n - 1)
             g == [i \in S |-> D(i)]
             T == {g[i] : i \in S}
  <2>1. IsFiniteSet(S) /\ g = [i \in S |-> g[i]]
    BY <1>3, FS_Interval
  <2>2. IsFiniteSet(T)
    <3> HIDE DEF g, S
    <3>1. IsFiniteSet({g[i] : i \in S})
      BY <2>1, ImageFinite
    <3>. QED
      BY <3>1
  <2>3. \A t \in T : IsFiniteSet(t)
    BY <1>1, <1>3
  <2>4. UNION T = YieldedTo(f, v, n - 1)
    BY DEF YieldedTo
  <2> HIDE DEF T
  <2>. QED
    BY <2>2, <2>3, <2>4, FS_UNION
<1>5. YieldedTo(f, v, n) = YieldedTo(f, v, n - 1) \cup D(n)
  BY <1>3 DEF YieldedTo
<1>6. YieldedTo(f, v, n - 1) \cap D(n) = {}
  <2> SUFFICES ASSUME NEW p \in YieldedTo(f, v, n - 1), p \in D(n) PROVE FALSE
    OBVIOUS
  <2>1. PICK i \in 1..(n - 1) : p \in D(i)
    BY DEF YieldedTo
  <2>2. p[1] = i /\ p[1] = n
    BY <2>1
  <2>. QED
    BY <1>3, <2>2
<1>7. /\ Cardinality(YieldedTo(f, v, n - 1)) \in Nat
      /\ Cardinality(D(n)) \in Nat /\ Cardinality(D(n)) = Len(Content[f][v][n].mails)
      /\ IsFiniteSet(D(n))
  BY <1>1, <1>4, FS_CardinalityType
<1> HIDE DEF D
<1>8. Cardinality(YieldedTo(f, v, n - 1) \cup D(n))
        = Cardinality(YieldedTo(f, v, n - 1)) + Cardinality(D(n)) - Cardinality({})
  BY <1>4, <1>6, <1>7, FS_Union
<1>9. Cardinality({}) = 0
  BY FS_EmptySet
<1>. QED
  BY <1>5, <1>7, <1>8, <1>9

\* A step that leaves the workers and what they have put alone.
LEMMA CountQuiet ==
  ASSUME NEW f \in Files, Counted(f), disk'[f] = disk[f],
         UNCHANGED <<fileq, wst, wfile, wpos, chan>>,
         Known(f)' = Known(f), f \in fileq => written'[f] = written[f], HeldCounted(f)'
  PROVE  Counted(f)'
<1>1. QueuedIsZero(f)'
  BY DEF Counted, QueuedIsZero
<1>2. ASSUME NEW w \in Workers
      PROVE  ReadCounted(w, f)' /\ \A j \in 1..Len(chan'[w]) : DoneCounted(w, j, f)'
  <2>1. ReadCounted(w, f) /\ \A j \in 1..Len(chan[w]) : DoneCounted(w, j, f)
    BY DEF Counted
  <2>2. ReadCounted(w, f)'
    BY <2>1 DEF ReadCounted, ActiveOn, Upto
  <2>3. \A j \in 1..Len(chan[w]) : DoneCounted(w, j, f)'
    BY <2>1 DEF DoneCounted
  <2>. QED
    BY <2>2, <2>3
<1>. QED
  BY <1>1, <1>2 DEF Counted

\* What the counting of the other workers' messages rests on.
LEMMA CountOther ==
  ASSUME NEW f \in Files, Counted(f), disk'[f] = disk[f], Known(f)' = Known(f),
         NEW u \in Workers, wst'[u] = wst[u], wfile'[u] = wfile[u], wpos'[u] = wpos[u],
         chan'[u] = chan[u]
  PROVE  ReadCounted(u, f)' /\ \A j \in 1..Len(chan'[u]) : DoneCounted(u, j, f)'
<1>1. ReadCounted(u, f) /\ \A j \in 1..Len(chan[u]) : DoneCounted(u, j, f)
  BY DEF Counted
<1>2. ReadCounted(u, f)'
  BY <1>1 DEF ReadCounted, ActiveOn, Upto
<1>3. \A j \in 1..Len(chan[u]) : DoneCounted(u, j, f)'
  BY <1>1 DEF DoneCounted
<1>. QED
  BY <1>2, <1>3

\* What was counted before a message stays counted when messages after it come or go.
LEMMA CountPrefix ==
  ASSUME NEW f \in Files, Counted(f), disk'[f] = disk[f], Known(f)' = Known(f),
         NEW w \in Workers, NEW n \in Nat, n <= Len(chan[w]), Len(chan[w]) \in Nat,
         \A i \in 1..n : chan'[w][i] = chan[w][i]
  PROVE  \A j \in 1..n : DoneCounted(w, j, f)'
<1> SUFFICES ASSUME NEW j \in 1..n, chan[w][j].kind = "done", chan[w][j].file = f
             PROVE  Tally(chan'[w], j, f, Known(f)', Cardinality(Yielded(f, disk'[f])))
  BY DEF DoneCounted
<1>1. j \in 1..Len(chan[w]) /\ j \in Nat /\ \A i \in 1..j : chan'[w][i] = chan[w][i]
  OBVIOUS
<1>2. Tally(chan[w], j, f, Known(f), Cardinality(Yielded(f, disk[f])))
  BY <1>1 DEF Counted, DoneCounted
<1>3. Tally(chan'[w], j, f, Known(f), Cardinality(Yielded(f, disk[f])))
  BY <1>1, <1>2, TallySame
<1>. QED
  BY <1>3

\* A put by w: the new message is counted if it is a "done", and what w has read is.
LEMMA CountPut ==
  ASSUME TypeOK, NEW f \in Files, Counted(f), disk'[f] = disk[f],
         UNCHANGED <<fileq, written, mpc, cur>>,
         NEW w \in Workers, NEW m \in Message, Put(w, m),
         \A u \in Workers \ {w} : wst'[u] = wst[u] /\ wfile'[u] = wfile[u]
                                  /\ wpos'[u] = wpos[u],
         ReadCounted(w, f)',
         m.kind = "done" /\ m.file = f =>
           Tally(chan[w], Len(chan[w]), f, Known(f), Cardinality(Yielded(f, disk[f])))
  PROVE  Counted(f)'
<1>0. PICK n \in Nat : n = Len(chan[w])
  BY DEF TypeOK
<1>a. n <= Len(chan[w])
  BY <1>0
<1>1. /\ \A u \in Workers \ {w} : chan'[u] = chan[u]
      /\ Len(chan'[w]) = n + 1
      /\ \A i \in 1..n : chan'[w][i] = chan[w][i]
      /\ chan'[w][n + 1] = m
  BY <1>0, PutMsgs
<1>2. Known(f)' = Known(f)
  BY DEF Known, Handling
<1>3. QueuedIsZero(f)' /\ HeldCounted(f)'
  BY DEF Counted, QueuedIsZero, HeldCounted
<1>4. ASSUME NEW u \in Workers \ {w}
      PROVE  ReadCounted(u, f)' /\ \A j \in 1..Len(chan'[u]) : DoneCounted(u, j, f)'
  BY <1>1, <1>2, CountOther
<1>5. \A j \in 1..n : DoneCounted(w, j, f)'
  BY <1>0, <1>a, <1>1, <1>2, CountPrefix
<1>6. ASSUME NEW j \in Nat, j = n + 1 PROVE DoneCounted(w, j, f)'
  <2> SUFFICES ASSUME m.kind = "done", m.file = f
               PROVE  Tally(chan'[w], n + 1, f, Known(f), Cardinality(Yielded(f, disk[f])))
    BY <1>1, <1>2, <1>6 DEF DoneCounted
  <2> DEFINE b == Cardinality(Yielded(f, disk[f]))
  <2>1. Tally(chan[w], n, f, Known(f), b)
    BY <1>0
  <2>2. Records(chan'[w][n + 1], f) = 0
    BY <1>1 DEF Records
  <2>3. b \in Nat
    BY <2>1 DEF Tally
  <2> HIDE DEF b
  <2>4. Tally(chan'[w], n + 1, f, Known(f), b + 0)
    BY <1>1, <2>1, <2>2, TallyNext
  <2>5. b + 0 = b
    BY <2>3
  <2>. QED
    BY <2>4, <2>5 DEF b
<1>7. \A j \in 1..Len(chan'[w]) : j \in 1..n \/ (j \in Nat /\ j = n + 1)
  BY <1>1
<1>8. \A j \in 1..Len(chan'[w]) : DoneCounted(w, j, f)'
  BY <1>5, <1>6, <1>7
<1>. QED
  BY <1>3, <1>4, <1>8, Zenon DEF Counted

\* A unit a worker takes has not been counted.
LEMMA CountTake ==
  ASSUME TypeOK, PoolInv, NEW f \in Files, Counted(f), Orderly(f),
         NEW w \in Workers, TakePath(w)
  PROVE  Counted(f)'
<1>1. PICK g \in fileq : fileq' = fileq \ {g} /\ wfile' = [wfile EXCEPT ![w] = g]
  BY DEF TakePath
<1>2. /\ wst[w] = "idle" /\ wst' = [wst EXCEPT ![w] = "opening"]
      /\ wpos' = [wpos EXCEPT ![w] = 0]
      /\ UNCHANGED <<disk, written, chan, cur, mpc>>
  BY DEF TakePath, durable, loop
<1>3. /\ wst \in [Workers -> {"off", "idle", "opening", "parsing", "exited", "dead"}]
      /\ wfile \in [Workers -> Files \cup {NoFile}] /\ wpos \in [Workers -> Nat]
      /\ written \in [Files -> Nat] /\ disk[f] \in 1..MaxVersion
  BY DEF TypeOK
<1>4. Known(f)' = Known(f)
  BY <1>2 DEF Known, Handling
<1>5. QueuedIsZero(f)' /\ HeldCounted(f)'
  BY <1>1, <1>2 DEF Counted, QueuedIsZero, HeldCounted
<1>6. ASSUME NEW u \in Workers, u # w
      PROVE  ReadCounted(u, f)' /\ \A j \in 1..Len(chan'[u]) : DoneCounted(u, j, f)'
  BY <1>1, <1>2, <1>3, <1>4, <1>6, CountOther
<1>7. PICK n \in Nat : n = Len(chan[w])
  BY DEF TypeOK
<1>8. \A j \in 1..n : DoneCounted(w, j, f)'
  BY <1>2, <1>4, <1>7, CountPrefix
<1>9. ReadCounted(w, f)'
  <2>1. CASE f # g
    BY <1>1, <1>3, <2>1 DEF ReadCounted, ActiveOn
  <2>2. CASE f = g
    <3>1. /\ written[f] = 0 /\ ~SpokeOf(w, f) /\ (Handling => cur.file # f)
      BY <1>1, <2>2 DEF Counted, QueuedIsZero, Orderly, QueuedOnly, About
    <3>2. Known(f) = 0
      BY <3>1 DEF Known, Records
    <3>3. \A i \in 1..n : Records(chan[w][i], f) = 0
      BY <1>7, <3>1 DEF SpokeOf, Records
    <3>4. Tally(chan[w], n, f, 0, 0)
      BY <3>3, TallyNone
    <3>5. wpos'[w] = 0 /\ Len(Content[f][disk[f]]) \in Nat
      BY <1>2, <1>3
    <3>6. Upto(f, 0)' = 0
      BY YieldedNone DEF Upto
    <3>. QED
      BY <1>2, <1>4, <1>7, <3>2, <3>4, <3>5, <3>6 DEF ReadCounted
  <2>. QED
    BY <2>1, <2>2
<1>. QED
  BY <1>2, <1>5, <1>6, <1>7, <1>8, <1>9 DEF Counted

\* A worker that exits or dies is at no unit; what it leaves behind was counted.
LEMMA CountLeaves ==
  ASSUME TypeOK, NEW f \in Files, Counted(f), NEW w \in Workers, WorkerExit(w) \/ WorkerDies(w)
  PROVE  Counted(f)'
<1>1. /\ UNCHANGED <<disk, written, cur, mpc, fileq, wfile, wpos>>
      /\ wst'[w] \notin {"opening", "parsing"}
      /\ \A u \in Workers \ {w} : wst'[u] = wst[u] /\ chan'[u] = chan[u]
  BY DEF TypeOK, WorkerExit, WorkerDies, durable, loop
<1>2. Len(chan[w]) \in Nat
  BY DEF TypeOK
<1>3. PICK n \in 0..Len(chan[w]) :
        Len(chan'[w]) = n /\ \A i \in 1..n : chan'[w][i] = chan[w][i]
  <2>1. CASE WorkerExit(w)
    BY <1>2, <2>1 DEF WorkerExit
  <2>2. CASE WorkerDies(w)
    BY <2>2, DeathMsgs
  <2>. QED
    BY <2>1, <2>2
<1>4. Known(f)' = Known(f)
  BY <1>1 DEF Known, Handling
<1>5. QueuedIsZero(f)' /\ HeldCounted(f)'
  BY <1>1 DEF Counted, QueuedIsZero, HeldCounted
<1>6. ASSUME NEW u \in Workers \ {w}
      PROVE  ReadCounted(u, f)' /\ \A j \in 1..Len(chan'[u]) : DoneCounted(u, j, f)'
  BY <1>1, <1>4, CountOther
<1>7. n \in Nat /\ n <= Len(chan[w])
  BY <1>2
<1>8. \A j \in 1..n : DoneCounted(w, j, f)'
  BY <1>1, <1>2, <1>3, <1>4, <1>7, CountPrefix
<1>9. ReadCounted(w, f)'
  BY <1>1 DEF ReadCounted, ActiveOn
<1>. QED
  BY <1>3, <1>5, <1>6, <1>8, <1>9 DEF Counted

\* A step of a worker keeps the count.
LEMMA CountWorker ==
  ASSUME TypeOK, PoolInv, NEW f \in Files, Counted(f), Orderly(f), NEW w \in Workers,
         WorkerStep(w) \/ WorkerDies(w)
  PROVE  Counted(f)'
<1> USE DEF durable, ledger, loop, pool, bounds
<1>1. CASE TakePath(w)
  BY <1>1, CountTake
<1>2. CASE WorkerExit(w) \/ WorkerDies(w)
  BY <1>2, CountLeaves
<1>3. CASE Resolve(w) \/ PutFailed(w) \/ PutItem(w) \/ PutDone(w)
  <2>1. /\ UNCHANGED <<disk, fileq, wfile, cur, mpc, written>>
        /\ \A u \in Workers \ {w} : wst'[u] = wst[u] /\ wfile'[u] = wfile[u]
                                    /\ wpos'[u] = wpos[u]
    BY <1>3 DEF Resolve, PutFailed, PutItem, PutDone, TypeOK
  <2>2. wfile[w] \in Files /\ wpos[w] \in Nat /\ disk[f] \in 1..MaxVersion
    BY <1>3 DEF TypeOK, PoolInv, Resolve, PutFailed, PutItem, PutDone
  <2>3. Known(f)' = Known(f)
    BY <2>1 DEF Known, Handling
  <2>4. PICK n \in Nat : n = Len(chan[w])
    BY DEF TypeOK
  <2>5. CASE Resolve(w)
    <3> DEFINE m == Msg("resolved", wfile[w])
    <3>1. m \in Message /\ m.kind = "resolved"
      BY <2>2, MsgType DEF Msg
    <3>2. Put(w, m) /\ wpos' = wpos
      BY <2>5 DEF Resolve
    <3> HIDE DEF m
    <3>3. /\ Len(chan'[w]) = n + 1
          /\ \A i \in 1..n : chan'[w][i] = chan[w][i]
          /\ chan'[w][n + 1] = m
      BY <2>4, <3>1, <3>2, PutMsgs
    <3>4. ReadCounted(w, f)'
      <4> SUFFICES ASSUME wfile[w] = f
                   PROVE  /\ wpos[w] <= Len(Content[f][disk[f]])
                          /\ Tally(chan'[w], n + 1, f, Known(f), Upto(f, wpos[w]))
        BY <2>1, <2>3, <3>2, <3>3 DEF ReadCounted, ActiveOn, Upto
      <4>1. /\ wpos[w] <= Len(Content[f][disk[f]])
            /\ Tally(chan[w], n, f, Known(f), Upto(f, wpos[w]))
        BY <2>4, <2>5 DEF Counted, ReadCounted, ActiveOn, Resolve
      <4>2. Records(chan'[w][n + 1], f) = 0 /\ Upto(f, wpos[w]) \in Nat
        BY <3>1, <3>3, <4>1 DEF Records, Tally
      <4>3. Upto(f, wpos[w]) + 0 = Upto(f, wpos[w])
        BY <4>2
      <4>4. Tally(chan'[w], n + 1, f, Known(f), Upto(f, wpos[w]) + 0)
        BY <3>3, <4>1, <4>2, TallyNext
      <4>. QED
        BY <4>1, <4>3, <4>4
    <3>. QED
      BY <2>1, <3>1, <3>2, <3>4, CountPut
  <2>6. CASE PutFailed(w)
    <3> DEFINE m == Msg("failed", wfile[w])
    <3>1. m \in Message /\ m.kind = "failed"
      BY <2>2, MsgType DEF Msg
    <3>2. Put(w, m) /\ wst'[w] = "idle"
      BY <2>6 DEF PutFailed, TypeOK
    <3> HIDE DEF m
    <3>3. ReadCounted(w, f)'
      BY <3>2 DEF ReadCounted, ActiveOn
    <3>. QED
      BY <2>1, <3>1, <3>2, <3>3, CountPut
  <2>7. CASE PutDone(w)
    <3> DEFINE m == Msg("done", wfile[w])
    <3>1. m \in Message /\ m.file = wfile[w]
      BY <2>2, MsgType DEF Msg
    <3>2. Put(w, m) /\ wst'[w] = "idle"
      BY <2>7 DEF PutDone, TypeOK
    <3> HIDE DEF m
    <3>3. ReadCounted(w, f)'
      BY <3>2 DEF ReadCounted, ActiveOn
    <3>4. ASSUME m.file = f
          PROVE  Tally(chan[w], Len(chan[w]), f, Known(f), Cardinality(Yielded(f, disk[f])))
      <4>1. wst[w] = "parsing" /\ wpos[w] >= Len(Content[f][disk[f]])
        BY <2>7, <3>1, <3>4 DEF PutDone
      <4>2. /\ wpos[w] <= Len(Content[f][disk[f]])
            /\ Tally(chan[w], Len(chan[w]), f, Known(f), Upto(f, wpos[w]))
        BY <3>1, <3>4, <4>1 DEF Counted, ReadCounted, ActiveOn
      <4>3. wpos[w] = Len(Content[f][disk[f]])
        <5>1. Content[f][disk[f]] \in Seq(Item)
          BY <2>2, ContentAssumption
        <5>2. Len(Content[f][disk[f]]) \in Nat
          BY <5>1
        <5>. QED
          BY <2>2, <4>1, <4>2, <5>2
      <4>. QED
        BY <4>2, <4>3 DEF Upto, Yielded
    <3>. QED
      BY <2>1, <3>1, <3>2, <3>3, <3>4, CountPut
  <2>8. CASE PutItem(w)
    <3>0. PICK g \in Files, v \in 1..MaxVersion, i \in Nat :
            g = wfile[w] /\ v = disk[g] /\ i = wpos[w] + 1
      BY <2>8, ReadsItem
    <3> DEFINE m == [kind |-> Content[g][v][i].kind, file |-> g,
                     mails |-> Content[g][v][i].mails, version |-> v]
    <3>1. i \in 1..Len(Content[g][v])
      BY <2>8, <3>0, ReadsItem
    <3>2. /\ m.kind \in {"batch", "errors"} /\ m.mails \in Seq(Mails)
          /\ m.kind = "errors" => m.mails = <<>>
          /\ m.file = g /\ m.mails = Content[g][v][i].mails
      BY <3>1, ItemType
    <3>3. m \in Message
      BY <3>1, ItemMessage
    <3>4. Put(w, m) /\ wst' = wst /\ wfile' = wfile /\ wpos'[w] = i /\ i - 1 = wpos[w]
          /\ wst[w] = "parsing"
      <4>1. wpos \in [Workers -> Nat]
        BY DEF TypeOK
      <4>2. Put(w, m)
        BY <2>8, <3>0 DEF PutItem
      <4>. HIDE DEF m
      <4>3. UNCHANGED <<wst, wfile>> /\ wpos' = [wpos EXCEPT ![w] = i] /\ wst[w] = "parsing"
        BY <2>8, <3>0 DEF PutItem
      <4>4. wpos'[w] = i /\ i - 1 = wpos[w]
        BY <3>0, <4>1, <4>3
      <4>. QED
        BY <4>2, <4>3, <4>4
    <3> HIDE DEF m
    <3>5. /\ Len(chan'[w]) = n + 1
          /\ \A j \in 1..n : chan'[w][j] = chan[w][j]
          /\ chan'[w][n + 1] = m
      BY <2>4, <3>3, <3>4, PutMsgs
    <3>6. ReadCounted(w, f)'
      <4> SUFFICES ASSUME g = f
                   PROVE  /\ i <= Len(Content[f][disk[f]])
                          /\ Tally(chan'[w], n + 1, f, Known(f), Upto(f, i))
        BY <2>1, <2>3, <3>0, <3>4, <3>5 DEF ReadCounted, ActiveOn, Upto
      <4>1. Tally(chan[w], n, f, Known(f), Upto(f, i - 1))
        BY <2>4, <3>0, <3>4 DEF Counted, ReadCounted, ActiveOn
      <4>2. Len(m.mails) \in Nat /\ Records(m, f) = Len(m.mails)
        <5>1. m.kind = "errors" => Len(m.mails) = 0
          BY <3>2
        <5>. QED
          BY <3>2, <5>1 DEF Records
      <4>3. Upto(f, i) = Upto(f, i - 1) + Len(m.mails)
        <5>1. Cardinality(YieldedTo(f, v, i))
                = Cardinality(YieldedTo(f, v, i - 1)) + Len(Content[f][v][i].mails)
          BY <3>0, <3>1, YieldedNext, Zenon
        <5>. QED
          BY <3>0, <3>2, <5>1 DEF Upto
      <4>4. Tally(chan'[w], n + 1, f, Known(f), Upto(f, i - 1) + Len(m.mails))
        BY <3>5, <4>1, <4>2, TallyNext
      <4>5. i <= Len(Content[f][disk[f]])
        BY <3>0, <3>1
      <4>. QED
        BY <4>3, <4>4, <4>5
    <3>7. m.kind # "done"
      BY <3>2
    <3>. QED
      BY <2>1, <3>3, <3>4, <3>6, <3>7, CountPut
  <2>. QED
    BY <1>3, <2>5, <2>6, <2>7, <2>8
<1>. QED
  BY <1>1, <1>2, <1>3 DEF WorkerStep

\* The message in hand is counted before those behind it.
LEMMA CountReceive ==
  ASSUME TypeOK, NEW f \in Files, Counted(f), Orderly(f), NEW w \in Workers, Receive(w)
  PROVE  Counted(f)'
<1>1. /\ UNCHANGED <<disk, written, fileq, wst, wfile, wpos>>
      /\ mpc = "get" /\ mpc' = "handle"
  BY DEF Receive, durable
<1>2. PICK n \in Nat \ {0} : n = Len(chan[w])
  BY ReceiveMsgs
<1>3. /\ \A u \in Workers \ {w} : chan'[u] = chan[u]
      /\ Len(chan'[w]) = n - 1
      /\ \A i \in 1..(n - 1) : chan'[w][i] = chan[w][i + 1]
      /\ cur' = chan[w][1]
  BY <1>2, ReceiveMsgs
<1>4. chan[w][1] \in Message
  <2>1. chan[w] \in Seq(Message) /\ 1 \in 1..Len(chan[w])
    BY <1>2 DEF TypeOK
  <2>. QED
    BY <2>1, ElementOfSeq
<1> DEFINE r == Records(chan[w][1], f)
<1>5. r \in Nat /\ written[f] \in Nat
  BY <1>4, RecordsType DEF TypeOK
<1>6. Known(f) = written[f] /\ Known(f)' = written[f] + r
  <2>1. Known(f) = written[f] + 0
    BY <1>1 DEF Known, Handling
  <2>2. Known(f)' = written[f] + r
    BY <1>1, <1>3 DEF Known, Handling
  <2>. QED
    BY <1>5, <2>1, <2>2
<1> HIDE DEF r
<1>7. HeldCounted(f)'
  <2> SUFFICES ASSUME chan[w][1].kind = "done", chan[w][1].file = f
               PROVE  written[f] = Cardinality(Yielded(f, disk[f]))
    BY <1>1, <1>3 DEF HeldCounted
  <2>1. 1 \in 1..Len(chan[w])
    BY <1>2
  <2>2. Tally(chan[w], 1, f, Known(f), Cardinality(Yielded(f, disk[f])))
    BY <2>1 DEF Counted, DoneCounted
  <2>3. r = 0
    BY DEF r, Records
  <2>. QED
    BY <1>5, <1>6, <2>2, <2>3, TallyOne DEF r
<1>8. QueuedIsZero(f)'
  BY <1>1 DEF Counted, QueuedIsZero
<1>9. ASSUME NEW u \in Workers \ {w}
      PROVE  ReadCounted(u, f)' /\ \A j \in 1..Len(chan'[u]) : DoneCounted(u, j, f)'
  <2>1. CASE r = 0
    <3>1. Known(f)' = Known(f)
      BY <1>5, <1>6, <2>1
    <3>. QED
      BY <1>1, <1>3, <3>1, CountOther
  <2>2. CASE r # 0
    <3>1. 1 \in 1..Len(chan[w]) /\ chan[w][1].file = f
      BY <1>2, <2>2 DEF r, Records
    <3>2. About(w, f) /\ ~About(u, f)
      BY <3>1 DEF About, SpokeOf, Orderly, OneWorker
    <3>3. ~ActiveOn(u, f)' /\ \A j \in 1..Len(chan'[u]) : chan'[u][j].file # f
      BY <1>1, <1>3, <3>2 DEF About, ActiveOn, SpokeOf
    <3>. QED
      BY <3>3 DEF ReadCounted, DoneCounted
  <2>. QED
    BY <2>1, <2>2
<1>10. ReadCounted(w, f)'
  <2> SUFFICES ASSUME ActiveOn(w, f)
               PROVE  /\ wpos[w] <= Len(Content[f][disk[f]])
                      /\ Tally(chan'[w], n - 1, f, written[f] + r, Upto(f, wpos[w]))
    BY <1>1, <1>3, <1>6 DEF ReadCounted, ActiveOn, Upto
  <2>1. /\ wpos[w] <= Len(Content[f][disk[f]])
        /\ Tally(chan[w], n, f, written[f], Upto(f, wpos[w]))
    BY <1>2, <1>6 DEF Counted, ReadCounted
  <2>. QED
    BY <1>3, <2>1, TallyHead DEF r
<1>11. ASSUME NEW j \in 1..(n - 1) PROVE DoneCounted(w, j, f)'
  <2> SUFFICES ASSUME chan[w][j + 1].kind = "done", chan[w][j + 1].file = f
               PROVE  Tally(chan'[w], j, f, written[f] + r, Cardinality(Yielded(f, disk[f])))
    BY <1>1, <1>3, <1>6 DEF DoneCounted
  <2>0. j + 1 \in 1..n /\ j + 1 \in Nat \ {0} /\ (j + 1) - 1 = j /\ 1..j \subseteq 1..(n - 1)
    OBVIOUS
  <2>1. /\ j + 1 \in 1..Len(chan[w]) /\ j + 1 \in Nat \ {0} /\ (j + 1) - 1 = j
        /\ \A i \in 1..((j + 1) - 1) : chan'[w][i] = chan[w][i + 1]
    BY <1>2, <1>3, <2>0
  <2>2. Tally(chan[w], j + 1, f, written[f], Cardinality(Yielded(f, disk[f])))
    BY <1>6, <2>1 DEF Counted, DoneCounted
  <2>3. Tally(chan'[w], (j + 1) - 1, f, written[f] + r, Cardinality(Yielded(f, disk[f])))
    BY <2>1, <2>2, TallyHead DEF r
  <2>. QED
    BY <2>1, <2>3
<1>. QED
  BY <1>3, <1>7, <1>8, <1>9, <1>10, <1>11 DEF Counted

\* Every step keeps the count.
LEMMA CountStep ==
  ASSUME TypeOK, PoolInv, PlanInv, OrderInv, CountInv, [Next]_vars
  PROVE  CountInv'
<1> SUFFICES ASSUME Looping', NEW f \in Files, f \in jobs', Unchanged(f)' PROVE Counted(f)'
  <2>1. jobs' \subseteq Files
    BY TypeStep DEF TypeOK
  <2>. QED
    BY <2>1 DEF CountInv
<1> USE DEF durable, ledger, loop, pool, bounds
<1>1. CASE ~Looping
  <2>1. StartWorkers
    BY <1>1 DEF Looping, Next, MainStep, WorkerStep, Environment, vars, TakePath,
         WorkerExit, Resolve, PutFailed, PutItem, PutDone, WorkerDies, Receive, NothingToDo,
         OpenStorage, LoopDone, StopRequested, Proceed, Timeout, GiveUp, KeepWaiting,
         HandleNote, UpsertBatch, RecordBatch, SettleDone, SettleFailed, SetStop, Interrupt,
         UpsertFails, Raise, PlanFile, StartRun, Finish, RaiseEarly, Crash, Vanish, Modify,
         PoolInv
  <2>2. /\ mpc' = "opening" /\ mpc = "planning" /\ chan' = chan
        /\ written' = ZeroCounters /\ \A w \in Workers : wst'[w] \in {"idle", "off"}
    BY <2>1 DEF StartWorkers
  <2>3. QueuedIsZero(f)' /\ HeldCounted(f)'
    BY <2>2 DEF QueuedIsZero, HeldCounted, ZeroCounters
  <2>4. ASSUME NEW w \in Workers
        PROVE  ReadCounted(w, f)' /\ \A j \in 1..Len(chan'[w]) : DoneCounted(w, j, f)'
    <3>1. chan'[w] = <<>>
      BY <2>2 DEF PoolInv
    <3>2. Len(chan'[w]) = 0
      BY <3>1
    <3>3. ~ActiveOn(w, f)'
      BY <2>2, Zenon DEF ActiveOn
    <3>. QED
      BY <3>2, <3>3 DEF ReadCounted
  <2>. QED
    BY <2>3, <2>4 DEF Counted
<1>2. CASE Looping
  <2>0. /\ Orderly(f) /\ cur \in Message /\ written \in [Files -> Nat]
        /\ (Unchanged(f) => Counted(f)) /\ f \in jobs
    <3>1. jobs' = jobs
      <4>1. CASE StartRun \/ \E g \in Files : PlanFile(g)
        BY <1>2, <4>1 DEF Looping, StartRun, PlanFile
      <4>2. CASE \E w \in Workers : WorkerStep(w) \/ WorkerDies(w) \/ Receive(w)
        BY <4>2 DEF WorkerStep, TakePath, WorkerExit, Resolve, PutFailed, PutItem, PutDone,
                    WorkerDies, Receive
      <4>3. CASE \/ NothingToDo \/ StartWorkers \/ OpenStorage \/ LoopDone \/ StopRequested
                 \/ Proceed \/ Timeout \/ GiveUp \/ KeepWaiting \/ HandleNote \/ UpsertBatch
                 \/ RecordBatch \/ SettleDone \/ SettleFailed \/ UNCHANGED vars
        BY <4>3 DEF vars, NothingToDo, StartWorkers, OpenStorage, LoopDone, StopRequested,
                    Proceed, Timeout, GiveUp, KeepWaiting, HandleNote, UpsertBatch,
                    RecordBatch, SettleDone, SettleFailed
      <4>4. CASE \/ SetStop \/ Interrupt \/ UpsertFails \/ Raise \/ Finish \/ RaiseEarly
                 \/ Crash \/ \E g \in Files : Modify(g)
        BY <4>4 DEF SetStop, Interrupt, UpsertFails, Raise, Finish, RaiseEarly, Crash, Vanish,
                    Modify
      <4>. QED
        BY <4>1, <4>2, <4>3, <4>4, Zenon DEF Next, MainStep, Environment
    <3>. QED
      BY <1>2, <3>1 DEF OrderInv, CountInv, TypeOK
  <2>1. CASE \E w \in Workers : WorkerStep(w) \/ WorkerDies(w)
    <3>1. Unchanged(f)
      BY <2>1 DEF Unchanged, WorkerStep, TakePath, WorkerExit, Resolve, PutFailed, PutItem,
                  PutDone, WorkerDies
    <3>. QED
      BY <2>0, <2>1, <3>1, CountWorker
  <2>2. CASE \E w \in Workers : Receive(w)
    <3>1. Unchanged(f)
      BY <2>2 DEF Unchanged, Receive
    <3>. QED
      BY <2>0, <2>2, <3>1, CountReceive
  <2>3. CASE OpenStorage \/ Proceed \/ Timeout \/ KeepWaiting \/ HandleNote \/ SetStop
             \/ UpsertBatch \/ UNCHANGED vars
    <3>1. /\ UNCHANGED <<disk, plan, fileq, wst, wfile, wpos, chan, written>>
          /\ mpc' # "handle" \/ (mpc' = mpc /\ cur' = cur)
      BY <2>3 DEF OpenStorage, Proceed, Timeout, KeepWaiting, HandleNote, SetStop,
                  UpsertBatch, vars
    <3>2. Known(f)' = Known(f)
      <4>1. CASE HandleNote
        <5>1. /\ mpc' = "top" /\ mpc = "handle" /\ cur.kind # "batch"
          BY <4>1 DEF HandleNote
        <5>. QED
          BY <3>1, <5>1 DEF Known, Handling, Records
      <4>2. CASE ~HandleNote
        <5>1. (Handling' <=> Handling) /\ (Handling => cur' = cur)
          BY <2>3, <4>2 DEF OpenStorage, Proceed, Timeout, KeepWaiting, SetStop,
                            UpsertBatch, vars, Handling
        <5>. QED
          BY <3>1, <5>1 DEF Known
      <4>. QED
        BY <4>1, <4>2
    <3>3. Counted(f)
      BY <2>0, <3>1 DEF Unchanged
    <3>4. HeldCounted(f)'
      BY <3>1, <3>3 DEF Counted, HeldCounted
    <3>. QED
      BY <3>1, <3>2, <3>3, <3>4, CountQuiet
  <2>4. CASE \E g \in Files : Modify(g)
    <3>1. PICK g \in Files : Modify(g)
      BY <2>4
    <3>2. /\ UNCHANGED <<plan, fileq, wst, wfile, wpos, chan, written, mpc, cur>>
          /\ \A h \in Files \ {g} : disk'[h] = disk[h]
      BY <3>1 DEF Modify, TypeOK
    <3>3. f # g
      <4>1. plan[f] \in Nat /\ disk[f] \in Nat /\ plan[f] <= disk[f]
        <5>1. mpc # "idle"
          BY <1>2 DEF Looping
        <5>. QED
          BY <2>0, <5>1, JobStamp
      <4>2. plan[f] = disk'[f]
        BY <3>2 DEF Unchanged
      <4>3. f = g => disk'[f] = disk[f] + 1
        BY <3>1 DEF Modify, TypeOK
      <4>. QED
        BY <4>1, <4>2, <4>3
    <3>4. disk'[f] = disk[f] /\ Counted(f)
      BY <2>0, <3>2, <3>3 DEF Unchanged
    <3>5. Known(f)' = Known(f) /\ HeldCounted(f)'
      BY <3>2, <3>4 DEF Known, Handling, Counted, HeldCounted
    <3>. QED
      BY <3>2, <3>4, <3>5, CountQuiet
  <2>5. CASE RecordBatch
    <3>1. /\ UNCHANGED <<disk, plan, fileq, wst, wfile, wpos, chan>>
          /\ mpc' = "top" /\ mpc = "record" /\ cur.kind = "batch"
          /\ written' = [written EXCEPT ![cur.file] = @ + Len(cur.mails)]
      BY <2>5 DEF RecordBatch, PoolInv
    <3>2. Known(f)' = Known(f)
      <4>1. Known(f)' = written'[f] + 0 /\ Known(f) = written[f] + Records(cur, f)
        BY <3>1 DEF Known, Handling
      <4>2. Records(cur, f) \in Nat /\ written[f] \in Nat
        BY <2>0, RecordsType
      <4>3. written'[f] = written[f] + Records(cur, f)
        BY <2>0, <3>1, <4>2 DEF Records
      <4>. QED
        BY <4>1, <4>2, <4>3
    <3>3. f \in fileq => written'[f] = written[f]
      <4>1. f \in fileq => cur.file # f
        BY <2>0, <3>1 DEF Orderly, QueuedOnly, Handling
      <4>. QED
        BY <2>0, <3>1, <4>1
    <3>4. Counted(f) /\ HeldCounted(f)'
      BY <2>0, <3>1 DEF Unchanged, HeldCounted
    <3>. QED
      BY <3>1, <3>2, <3>3, <3>4, CountQuiet
  <2>6. CASE SettleDone \/ SettleFailed
    <3>1. /\ UNCHANGED <<disk, plan, fileq, wst, wfile, wpos, chan, written>>
          /\ mpc' = "top" /\ mpc = "handle" /\ cur.kind # "batch"
      BY <2>6 DEF SettleDone, SettleFailed
    <3>2. Known(f)' = Known(f)
      BY <3>1 DEF Known, Handling, Records
    <3>3. Counted(f) /\ HeldCounted(f)'
      BY <2>0, <3>1 DEF Unchanged, HeldCounted
    <3>. QED
      BY <3>1, <3>2, <3>3, CountQuiet
  <2>7. CASE NothingToDo \/ StartWorkers \/ LoopDone \/ StopRequested \/ GiveUp \/ Finish
             \/ StartRun \/ Interrupt \/ UpsertFails \/ Raise \/ RaiseEarly \/ Crash
             \/ \E g \in Files : PlanFile(g)
    <3>1. CASE RaiseEarly \/ Crash
      BY <3>1 DEF Looping, RaiseEarly, Crash, Vanish
    <3>2. CASE NothingToDo \/ StartWorkers \/ StartRun \/ \E g \in Files : PlanFile(g)
      BY <1>2, <3>2 DEF Looping, NothingToDo, StartWorkers, StartRun, PlanFile
    <3>3. CASE LoopDone \/ StopRequested \/ GiveUp \/ Finish \/ Interrupt \/ UpsertFails
               \/ Raise
      BY <3>3 DEF Looping, LoopDone, StopRequested, GiveUp, Finish, Interrupt, UpsertFails,
                  Raise
    <3>. QED
      BY <2>7, <3>1, <3>2, <3>3
  <2>. QED
    BY <2>1, <2>2, <2>3, <2>4, <2>5, <2>6, <2>7, Zenon DEF Next, MainStep, Environment
<1>. QED
  BY <1>1, <1>2

\* What a step may make of a count in the log.
LEMMA WrittenStep ==
  ASSUME TypeOK, PoolInv, PlanInv, CountInv, WrittenIsExact, [Next]_vars
  PROVE  WrittenIsExact'
<1> USE DEF durable, ledger, loop, pool, bounds
<1>1. ASSUME UNCHANGED disk,
             \A f \in Files : log'[f] = log[f] \/ log'[f].status # "COMPLETED"
      PROVE  WrittenIsExact'
  BY <1>1 DEF WrittenIsExact
<1>2. CASE \/ \E w \in Workers : WorkerStep(w) \/ WorkerDies(w) \/ Receive(w)
           \/ \E f \in Files : PlanFile(f)
           \/ StartRun \/ OpenStorage \/ LoopDone \/ StopRequested \/ Proceed \/ Timeout
           \/ GiveUp \/ KeepWaiting \/ HandleNote \/ Finish \/ SetStop \/ Interrupt
           \/ UpsertBatch \/ UpsertFails \/ Raise \/ RaiseEarly \/ Crash \/ UNCHANGED vars
  <2>1. UNCHANGED <<disk, log>>
    BY <1>2 DEF WorkerStep, TakePath, WorkerExit, Resolve, PutFailed, PutItem, PutDone,
         WorkerDies, Receive, PlanFile, StartRun, OpenStorage, LoopDone, StopRequested,
         Proceed, Timeout, GiveUp, KeepWaiting, HandleNote, Finish, SetStop, Interrupt,
         UpsertBatch, UpsertFails, Raise, RaiseEarly, Crash, Vanish, vars
  <2>. QED
    BY <1>1, <2>1
<1>3. CASE NothingToDo \/ StartWorkers
  <2>1. UNCHANGED disk /\ log' = PlannedLog
    BY <1>3 DEF NothingToDo, StartWorkers
  <2>2. \A f \in Files : log'[f] = log[f] \/ log'[f].status # "COMPLETED"
    BY <2>1 DEF PlannedLog
  <2>. QED
    BY <1>1, <2>1, <2>2
<1>4. CASE RecordBatch \/ SettleFailed
  <2>1. UNCHANGED disk /\ log \in [Files -> FileState]
    BY <1>4 DEF RecordBatch, SettleFailed, TypeOK
  <2>2. ASSUME NEW f \in Files PROVE log'[f] = log[f] \/ log'[f].status # "COMPLETED"
    <3>1. PICK e : log' = [log EXCEPT ![cur.file] = e] /\ e.status # "COMPLETED"
      BY <1>4 DEF RecordBatch, SettleFailed
    <3>. QED
      BY <2>1, <3>1
  <2>. QED
    BY <1>1, <2>1, <2>2
<1>5. CASE SettleDone
  <2> DEFINE g == cur.file
  <2>1. /\ UNCHANGED disk /\ mpc = "handle" /\ cur.kind = "done" /\ g \in jobs /\ g \in Files
        /\ \A f \in Files \ {g} : log'[f] = log[f]
        /\ log'[g].stamp = plan[g] /\ log'[g].written = written[g]
    BY <1>5 DEF SettleDone, RecordedStamp, TypeOK, PoolInv, MsgOK
  <2>2. plan[g] = disk[g] => written[g] = Cardinality(Yielded(g, disk[g]))
    BY <2>1 DEF CountInv, Looping, Unchanged, Counted, HeldCounted
  <2> HIDE DEF g
  <2>. QED
    BY <2>1, <2>2 DEF WrittenIsExact
<1>6. ASSUME NEW g \in Files, Modify(g) PROVE WrittenIsExact'
  <2>1. UNCHANGED log /\ \A f \in Files \ {g} : disk'[f] = disk[f]
    BY <1>6 DEF Modify, TypeOK
  <2>2. log[g].stamp # disk'[g]
    <3>1. log[g].stamp \in Nat /\ log[g].stamp <= disk[g] /\ disk[g] \in Nat
      BY DEF TypeOK, FileState, PlanInv
    <3>2. disk'[g] = disk[g] + 1
      BY <1>6 DEF Modify, TypeOK
    <3>. QED
      BY <3>1, <3>2
  <2>. QED
    BY <2>1, <2>2 DEF WrittenIsExact
<1>. QED
  BY <1>2, <1>3, <1>4, <1>5, <1>6, Zenon DEF Next, MainStep, Environment

\* The count in the log of a completed unit that has not changed since is the number of
\* records it holds: those of one pass (written_per_file, orchestrator.py).
THEOREM WrittenAlwaysExact == Spec => []WrittenIsExact
<1>1. Init => CountInv /\ WrittenIsExact
  BY DEF Init, CountInv, Looping, WrittenIsExact, NoState
<1>2. IInv /\ OrderInv /\ CountInv /\ WrittenIsExact /\ [Next]_vars
        => CountInv' /\ WrittenIsExact'
  BY CountStep, WrittenStep DEF IInv
<1>. QED
  BY <1>1, <1>2, OrderAlways, PTL DEF Spec

-----------------------------------------------------------------------------
(* The slots of the results queue *)

\* A message put has taken a slot, which it gives back when it is got; a message lost with
\* its worker does not.
SlotInv == IsFiniteSet(InFlight) /\ slots + Cardinality(InFlight) <= 2 * Cardinality(crew)

\* The crew is finite.
LEMMA CrewType == IsFiniteSet(crew) /\ Cardinality(crew) \in Nat
<1>1. crew \subseteq Workers
  BY DEF crew
<1>2. IsFiniteSet(crew)
  BY <1>1, OrchestratorAssumption, FS_Subset
<1>. QED
  BY <1>2, FS_CardinalityType

\* The places of the messages of one worker.
LEMMA Places ==
  /\ TypeOK  => InFlight = {p \in Workers \X Nat : p[2] \in 1..Len(chan[p[1]])}
  /\ TypeOK' => InFlight' = {p \in Workers \X Nat : p[2] \in 1..Len(chan'[p[1]])}
<1>1. ASSUME TypeOK
      PROVE  InFlight = {p \in Workers \X Nat : p[2] \in 1..Len(chan[p[1]])}
  <2>1. \A w \in Workers : DOMAIN chan[w] = 1..Len(chan[w]) /\ Len(chan[w]) \in Nat
    BY <1>1 DEF TypeOK
  <2>. QED
    BY <2>1 DEF InFlight
<1>2. ASSUME TypeOK'
      PROVE  InFlight' = {p \in Workers \X Nat : p[2] \in 1..Len(chan'[p[1]])}
  <2>1. \A w \in Workers : DOMAIN chan'[w] = 1..Len(chan'[w]) /\ Len(chan'[w]) \in Nat
    BY <1>2 DEF TypeOK
  <2>. QED
    BY <2>1 DEF InFlight
<1>. QED
  BY <1>1, <1>2

\* A put takes a slot for its message.
LEMMA SlotPut ==
  ASSUME TypeOK, TypeOK', SlotInv, NEW w \in Workers, NEW m \in Message, Put(w, m), crew' = crew
  PROVE  SlotInv'
<1>1. PICK n \in Nat : n = Len(chan[w])
  BY DEF TypeOK
<1>2. /\ \A u \in Workers \ {w} : chan'[u] = chan[u]
      /\ Len(chan'[w]) = n + 1
  BY <1>1, PutMsgs
<1>3. InFlight = {p \in Workers \X Nat : p[2] \in 1..Len(chan[p[1]])}
      /\ InFlight' = {p \in Workers \X Nat : p[2] \in 1..Len(chan'[p[1]])}
  BY Places
<1>4. InFlight' = InFlight \cup {<<w, n + 1>>}
  <2>1. ASSUME NEW u \in Workers, NEW i \in Nat
        PROVE  i \in 1..Len(chan'[u]) <=> i \in 1..Len(chan[u]) \/ (u = w /\ i = n + 1)
    BY <1>1, <1>2
  <2>. QED
    BY <1>3, <2>1
<1>5. <<w, n + 1>> \notin InFlight
  BY <1>1, <1>3
<1>6. IsFiniteSet(InFlight) /\ Cardinality(InFlight) \in Nat
  BY FS_CardinalityType DEF SlotInv
<1>7. IsFiniteSet(InFlight') /\ Cardinality(InFlight') = Cardinality(InFlight) + 1
  BY <1>4, <1>5, <1>6, FS_AddElement
<1>8. slots' = slots - 1 /\ slots \in Nat
  BY DEF Put, TypeOK
<1>9. Cardinality(crew) \in Nat /\ crew' = crew
  BY CrewType
<1>. QED
  BY <1>6, <1>7, <1>8, <1>9 DEF SlotInv

\* A get gives the slot of its message back.
LEMMA SlotReceive ==
  ASSUME TypeOK, TypeOK', SlotInv, NEW w \in Workers, Receive(w)
  PROVE  SlotInv'
<1>1. PICK n \in Nat \ {0} : n = Len(chan[w])
  BY ReceiveMsgs
<1>2. /\ \A u \in Workers \ {w} : chan'[u] = chan[u]
      /\ Len(chan'[w]) = n - 1
  BY <1>1, ReceiveMsgs
<1>3. InFlight = {p \in Workers \X Nat : p[2] \in 1..Len(chan[p[1]])}
      /\ InFlight' = {p \in Workers \X Nat : p[2] \in 1..Len(chan'[p[1]])}
  BY Places
<1>4. InFlight' = InFlight \ {<<w, n>>}
  <2>1. ASSUME NEW u \in Workers, NEW i \in Nat
        PROVE  i \in 1..Len(chan'[u]) <=> i \in 1..Len(chan[u]) /\ ~(u = w /\ i = n)
    BY <1>1, <1>2
  <2>. QED
    BY <1>3, <2>1
<1>5. <<w, n>> \in InFlight
  BY <1>1, <1>3
<1>6. IsFiniteSet(InFlight) /\ Cardinality(InFlight) \in Nat
  BY FS_CardinalityType DEF SlotInv
<1>7. IsFiniteSet(InFlight') /\ Cardinality(InFlight') = Cardinality(InFlight) - 1
  BY <1>4, <1>5, <1>6, FS_RemoveElement
<1>8. slots' = slots + 1 /\ slots \in Nat /\ crew' = crew
  BY DEF Receive, TypeOK, crew
<1>9. Cardinality(crew) \in Nat
  BY CrewType
<1>. QED
  BY <1>6, <1>7, <1>8, <1>9 DEF SlotInv

\* The messages that die with a worker keep their slots.
LEMMA SlotDies ==
  ASSUME TypeOK, TypeOK', SlotInv, NEW w \in Workers, WorkerDies(w)
  PROVE  SlotInv'
<1>1. /\ \A u \in Workers \ {w} : chan'[u] = chan[u]
      /\ Len(chan'[w]) \in 0..Len(chan[w])
  BY DeathMsgs
<1>2. InFlight = {p \in Workers \X Nat : p[2] \in 1..Len(chan[p[1]])}
      /\ InFlight' = {p \in Workers \X Nat : p[2] \in 1..Len(chan'[p[1]])}
  BY Places
<1>3. \A u \in Workers : Len(chan[u]) \in Nat
  BY DEF TypeOK
<1>4. InFlight' \subseteq InFlight
  <2>1. ASSUME NEW u \in Workers, NEW i \in Nat, i \in 1..Len(chan'[u])
        PROVE  i \in 1..Len(chan[u])
    BY <1>1, <1>3, <2>1
  <2>. QED
    BY <1>2, <2>1
<1>5. IsFiniteSet(InFlight') /\ Cardinality(InFlight') <= Cardinality(InFlight)
  BY <1>4, FS_Subset DEF SlotInv
<1>6. Cardinality(InFlight') \in Nat /\ Cardinality(InFlight) \in Nat
  BY <1>5, FS_CardinalityType DEF SlotInv
<1>7. slots' = slots /\ slots \in Nat
  BY DEF WorkerDies, TypeOK
<1>8. crew' = crew
  BY DEF WorkerDies, TypeOK, crew, alive
<1>9. Cardinality(crew) \in Nat
  BY CrewType
<1>. QED
  BY <1>5, <1>6, <1>7, <1>8, <1>9 DEF SlotInv

\* With empty channels, the crew has at most the slots it was given.
LEMMA SlotEmpty ==
  ASSUME \A w \in Workers : chan'[w] = <<>>, slots' <= 2 * Cardinality(crew'), slots' \in Nat
  PROVE  SlotInv'
<1>1. InFlight' = {}
  BY DEF InFlight
<1>2. IsFiniteSet(InFlight') /\ Cardinality(InFlight') = 0
  BY <1>1, FS_EmptySet
<1>3. \A n \in Nat : n + 0 = n
  OBVIOUS
<1>. QED
  BY <1>2, <1>3 DEF SlotInv

\* Every step keeps account of the slots.
LEMMA SlotStep ==
  ASSUME TypeOK, TypeOK', PoolInv, SlotInv, [Next]_vars
  PROVE  SlotInv'
<1> USE DEF durable, ledger, loop, pool, bounds
<1>1. ASSUME UNCHANGED <<slots, chan, crew>> PROVE SlotInv'
  BY <1>1 DEF SlotInv, InFlight
<1>2. CASE \E w \in Workers : TakePath(w) \/ WorkerExit(w)
  <2>1. UNCHANGED <<slots, chan, crew>>
    BY <1>2 DEF TypeOK, TakePath, WorkerExit, crew
  <2>. QED
    BY <1>1, <2>1
<1>3. ASSUME NEW w \in Workers, Resolve(w) \/ PutFailed(w) \/ PutItem(w) \/ PutDone(w)
      PROVE  SlotInv'
  <2>1. crew' = crew
    BY <1>3 DEF TypeOK, Resolve, PutFailed, PutItem, PutDone, crew
  <2>2. wfile[w] \in Files
    BY <1>3 DEF TypeOK, PoolInv, Resolve, PutFailed, PutItem, PutDone
  <2>3. \E m \in Message : Put(w, m)
    <3>1. CASE Resolve(w) \/ PutFailed(w) \/ PutDone(w)
      BY <2>2, <3>1, MsgType DEF Resolve, PutFailed, PutDone
    <3>2. CASE PutItem(w)
      <4> DEFINE f == wfile[w]
                 i == wpos[w] + 1
                 m == [kind |-> Content[f][disk[f]][i].kind, file |-> f,
                       mails |-> Content[f][disk[f]][i].mails, version |-> disk[f]]
      <4>1. f \in Files /\ disk[f] \in 1..MaxVersion /\ i \in 1..Len(Content[f][disk[f]])
        BY <3>2, ReadsItem
      <4>2. m \in Message
        BY <4>1, ItemMessage, Zenon
      <4>3. Put(w, m)
        BY <3>2 DEF PutItem
      <4>. QED
        BY <4>2, <4>3
    <3>. QED
      BY <1>3, <3>1, <3>2
  <2>. QED
    BY <2>1, <2>3, SlotPut
<1>4. CASE \E w \in Workers : WorkerDies(w)
  BY <1>4, SlotDies
<1>5. CASE \E w \in Workers : Receive(w)
  BY <1>5, SlotReceive
<1>6. CASE StartWorkers
  <2>1. /\ slots' = 2 * PoolSize /\ chan' = chan /\ mpc = "planning"
        /\ \E c \in SUBSET Workers :
             /\ Cardinality(c) = PoolSize
             /\ wst' = [w \in Workers |-> IF w \in c THEN "idle" ELSE "off"]
    BY <1>6 DEF StartWorkers
  <2>2. \A w \in Workers : chan'[w] = <<>>
    BY <2>1 DEF PoolInv
  <2>3. Cardinality(crew') = PoolSize
    <3>1. PICK c \in SUBSET Workers :
             /\ Cardinality(c) = PoolSize
             /\ wst' = [w \in Workers |-> IF w \in c THEN "idle" ELSE "off"]
      BY <2>1
    <3>2. crew' = c
      BY <3>1 DEF crew
    <3>. QED
      BY <3>1, <3>2
  <2>4. slots' \in Nat
    BY DEF TypeOK
  <2>5. slots' <= 2 * Cardinality(crew')
    BY <2>1, <2>3, <2>4
  <2>. QED
    BY <2>2, <2>4, <2>5, SlotEmpty
<1>7. CASE Finish \/ RaiseEarly \/ Crash
  <2>1. ResetPool
    BY <1>7 DEF Finish, RaiseEarly, Crash, Vanish
  <2>2. (\A w \in Workers : chan'[w] = <<>>) /\ slots' = 0 /\ crew' = {}
    BY <2>1 DEF ResetPool, crew
  <2>3. slots' <= 2 * Cardinality(crew')
    BY <2>2, FS_EmptySet
  <2>. QED
    BY <2>2, <2>3, SlotEmpty
<1>8. CASE \/ \E f \in Files : PlanFile(f) \/ Modify(f)
           \/ StartRun \/ NothingToDo \/ OpenStorage \/ LoopDone \/ StopRequested \/ Proceed
           \/ Timeout \/ GiveUp \/ KeepWaiting \/ HandleNote \/ UpsertBatch \/ RecordBatch
           \/ SettleDone \/ SettleFailed \/ SetStop \/ Interrupt \/ UpsertFails \/ Raise
           \/ UNCHANGED vars
  <2>1. UNCHANGED <<slots, chan, wst>>
    BY <1>8 DEF vars, PlanFile, Modify, StartRun, NothingToDo, OpenStorage, LoopDone,
         StopRequested, Proceed, Timeout, GiveUp, KeepWaiting, HandleNote, UpsertBatch,
         RecordBatch, SettleDone, SettleFailed, SetStop, Interrupt, UpsertFails, Raise
  <2>2. crew' = crew
    BY <2>1 DEF crew
  <2>. QED
    BY <1>1, <2>1, <2>2
<1>. QED
  BY <1>2, <1>3, <1>4, <1>5, <1>6, <1>7, <1>8, Zenon
     DEF Next, MainStep, WorkerStep, Environment

\* The messages put and not got are never more than the results queue has slots: twice the
\* number of workers (maxsize, orchestrator.py).
THEOREM BackpressureHolds == Spec => []Backpressure
<1>1. Init => SlotInv
  <2> SUFFICES ASSUME Init PROVE SlotInv
    OBVIOUS
  <2>1. (\A w \in Workers : chan[w] = <<>>) /\ slots = 0 /\ crew = {}
    BY DEF Init, crew
  <2>2. InFlight = {}
    BY <2>1 DEF InFlight
  <2>. QED
    BY <2>1, <2>2, FS_EmptySet DEF SlotInv
<1>2. IInv /\ IInv' /\ SlotInv /\ [Next]_vars => SlotInv'
  BY SlotStep DEF IInv
<1>3. IInv /\ SlotInv => Backpressure
  <2> SUFFICES ASSUME TypeOK, SlotInv PROVE Backpressure
    BY DEF IInv
  <2>1. slots \in Nat /\ Cardinality(InFlight) \in Nat /\ Cardinality(crew) \in Nat
    BY FS_CardinalityType, CrewType DEF TypeOK, SlotInv
  <2>. QED
    BY <2>1 DEF SlotInv, Backpressure
<1>. QED
  BY <1>1, <1>2, <1>3, Inductive, PTL DEF Spec

-----------------------------------------------------------------------------
(* The indexing run implements Catalog: every step of the processes, the   *)
(* queues and the environment is, to the log and the table, a step of the  *)
(* abstract promise or none                                                *)

\* What the abstract operators are made of is the same as here.
LEMMA SameOperators ==
  /\ \A f, v : Abstract!MailsOf(f, v) = MailsOf(f, v)
  /\ \A rows, f, v : Abstract!Holds(rows, f, v) <=> Holds(rows, f, v)
  /\ \A rows, f, v, ks : Abstract!Upserted(rows, f, v, ks) = Upserted(rows, f, v, ks)
<1>1. \A f, v : Abstract!MailsOf(f, v) = MailsOf(f, v)
  BY Zenon DEF Abstract!MailsOf, Abstract!MailsIn, Abstract!Range, MailsOf, MailsIn, Range
<1>2. \A rows, f, v, k : Abstract!Fresh(rows, f, v, k) <=> Fresh(rows, f, v, k)
  BY DEF Abstract!Fresh, Fresh
<1>3. \A rows, f, v : Abstract!Holds(rows, f, v) <=> Holds(rows, f, v)
  BY <1>1, <1>2 DEF Abstract!Holds, Holds
<1>4. \A rows, f, v, ks : Abstract!Upserted(rows, f, v, ks) = Upserted(rows, f, v, ks)
  BY DEF Abstract!Upserted, Upserted
<1>. QED
  BY <1>1, <1>3, <1>4

\* No unit is settled at first.
LEMMA InitMaps == Init => Abstract!Init
  BY DEF Init, Abstract!Init, Settled, NoState

\* A step that leaves disk, log and table alone is a stutter.
LEMMA StutterMaps ==
  ASSUME UNCHANGED <<disk, log, db>>
  PROVE  UNCHANGED Abstract!catalog
  BY DEF Abstract!catalog, Settled

\* A step that only takes some units out of COMPLETED unsettles them.
LEMMA UnsettleMaps ==
  ASSUME NEW fs \in SUBSET Files, UNCHANGED <<disk, db>>,
         \A f \in Files : IF f \in fs THEN log'[f].status # "COMPLETED" ELSE log'[f] = log[f]
  PROVE  Abstract!Next
<1>1. Settled' = [f \in Files |-> IF f \in fs THEN 0 ELSE Settled[f]]
  BY DEF Settled
<1>2. Abstract!Unsettle(fs)
  BY <1>1 DEF Abstract!Unsettle
<1>. QED
  BY <1>2 DEF Abstract!Next

\* Every step maps to a step or to a stutter.
LEMMA StepMaps ==
  ASSUME IInv, [Next]_vars
  PROVE  [Abstract!Next]_(Abstract!catalog)
<1> USE DEF durable, ledger, loop, pool, bounds
<1>0. TypeOK /\ PoolInv /\ PlanInv /\ CoverInv
  BY DEF IInv
<1>1. CASE UNCHANGED <<disk, log, db>>
  BY <1>1, StutterMaps
<1>2. CASE NothingToDo \/ StartWorkers
  <2>1. UNCHANGED <<disk, db>> /\ log' = PlannedLog
    BY <1>2 DEF NothingToDo, StartWorkers
  <2>2. jobs \cup summary.failed \in SUBSET Files
    BY <1>0 DEF TypeOK, Summary
  <2>3. \A f \in Files : IF f \in jobs \cup summary.failed
                         THEN log'[f].status # "COMPLETED" ELSE log'[f] = log[f]
    BY <2>1 DEF PlannedLog
  <2>. QED
    BY <2>1, <2>2, <2>3, UnsettleMaps
<1>3. CASE RecordBatch \/ SettleFailed
  <2>1. cur.file \in Files /\ {cur.file} \in SUBSET Files
    BY <1>0, <1>3 DEF TypeOK, PoolInv, MsgOK, RecordBatch, SettleFailed
  <2>2. UNCHANGED <<disk, db>>
    BY <1>3 DEF RecordBatch, SettleFailed
  <2>3. \A f \in Files : IF f \in {cur.file}
                         THEN log'[f].status # "COMPLETED" ELSE log'[f] = log[f]
    <3>1. log \in [Files -> FileState]
      BY <1>0 DEF TypeOK
    <3>2. PICK s : s.status \in {"WRITING", "FAILED"} /\ log' = [log EXCEPT ![cur.file] = s]
      BY <1>3 DEF RecordBatch, SettleFailed
    <3>. QED
      BY <2>1, <3>1, <3>2
  <2>. QED
    BY <2>1, <2>2, <2>3, UnsettleMaps
<1>4. CASE SettleDone
  <2> DEFINE f == cur.file
  <2>1. /\ UNCHANGED <<disk, db>> /\ mpc = "handle" /\ cur.kind = "done"
        /\ f \in Files /\ f \in jobs
        /\ log' = [log EXCEPT ![f] = [status |-> "COMPLETED", stamp |-> plan[f],
                                      written |-> written[f]]]
    BY <1>0, <1>4 DEF SettleDone, RecordedStamp, TypeOK, PoolInv, MsgOK
  <2>2. plan[f] \in 1..disk[f]
    BY <1>0, <2>1 DEF PlanInv
  <2>3. plan[f] = disk[f] => Holds(db, f, plan[f])
    BY <1>0, <2>1 DEF CoverInv, FileCovered, Looping, DoneHeld, Unchanged
  <2>4. Settled' = [Settled EXCEPT ![f] = plan[f]]
    BY <1>0, <2>1 DEF TypeOK, Settled
  <2> HIDE DEF f
  <2>5. Abstract!Settle(f, plan[f])
    BY <2>1, <2>2, <2>3, <2>4, SameOperators DEF Abstract!Settle
  <2>. QED
    BY <2>1, <2>2, <2>5 DEF Abstract!Next
<1>5. CASE UpsertBatch
  <2> DEFINE f  == cur.file
             v  == cur.version
             ks == Range(cur.mails)
  <2>1. /\ UNCHANGED <<disk, log>> /\ mpc = "handle" /\ cur.kind = "batch"
        /\ db' = Upserted(db, f, v, ks)
    BY <1>5 DEF UpsertBatch
  <2>2. /\ f \in Files /\ plan[f] \in 1..disk[f] /\ v \in plan[f]..disk[f]
        /\ ks \subseteq MailsOf(f, v) /\ log[f].stamp = plan[f]
    BY <1>0, <2>1 DEF TypeOK, PoolInv, MsgOK, PlanInv
  <2>3. v \in 1..disk[f] /\ (plan[f] = disk[f] => v = disk[f])
    BY <1>0, <2>2 DEF TypeOK
  <2>4. Settled' = Settled
    BY <2>1 DEF Settled
  <2>5. Settled[f] = disk[f] => v = disk[f]
    <3>1. disk[f] # 0
      BY <1>0, <2>2 DEF TypeOK
    <3>2. Settled[f] = disk[f] => log[f].stamp = disk[f]
      BY <2>2, <3>1 DEF Settled
    <3>. QED
      BY <2>2, <2>3, <3>2
  <2> HIDE DEF f, v, ks
  <2>6. Abstract!Store(f, v, ks)
    BY <2>1, <2>2, <2>3, <2>4, <2>5, SameOperators DEF Abstract!Store
  <2>7. ks \in SUBSET Abstract!MailsOf(f, v)
    BY <2>2, SameOperators
  <2>. QED
    BY <2>2, <2>3, <2>6, <2>7 DEF Abstract!Next
<1>6. ASSUME NEW f \in Files, Modify(f) PROVE Abstract!Next
  <2>1. Abstract!Modify(f)
    BY <1>6 DEF Modify, Abstract!Modify, Settled
  <2>. QED
    BY <2>1 DEF Abstract!Next
<1>7. CASE \/ \E w \in Workers : WorkerStep(w) \/ WorkerDies(w) \/ Receive(w)
           \/ \E f \in Files : PlanFile(f)
           \/ StartRun \/ OpenStorage \/ LoopDone \/ StopRequested \/ Proceed \/ Timeout
           \/ GiveUp \/ KeepWaiting \/ HandleNote \/ Finish \/ SetStop \/ Interrupt
           \/ UpsertFails \/ Raise \/ RaiseEarly \/ Crash \/ UNCHANGED vars
  <2>1. UNCHANGED <<disk, log, db>>
    BY <1>7 DEF WorkerStep, TakePath, WorkerExit, Resolve, PutFailed, PutItem, PutDone,
         WorkerDies, Receive, PlanFile, StartRun, OpenStorage, LoopDone, StopRequested,
         Proceed, Timeout, GiveUp, KeepWaiting, HandleNote, Finish, SetStop, Interrupt,
         UpsertFails, Raise, RaiseEarly, Crash, Vanish, vars
  <2>. QED
    BY <1>1, <2>1
<1>. QED
  BY <1>2, <1>3, <1>4, <1>5, <1>6, <1>7 DEF Next, MainStep, Environment

\* run_index, whatever is modified, dies, fails or is interrupted around it, does to the
\* log and the table only what Catalog allows.
THEOREM Implements == Spec => ImplementsCatalog
<1>1. Init => Abstract!Init
  BY InitMaps
<1>2. IInv /\ [Next]_vars => [Abstract!Next]_(Abstract!catalog)
  BY StepMaps
<1>. QED
  BY <1>1, <1>2, Inductive, PTL DEF Spec, ImplementsCatalog, Abstract!Spec
-----------------------------------------------------------------------------
(* The promise of Catalog is kept by its own steps *)

\* A unit is settled at a version it has had.
Past ==
  /\ disk \in [Files -> Nat \ {0}]
  /\ Settled \in [Files -> Nat]
  /\ \A f \in Files : Settled[f] <= disk[f]

Promised == Past /\ Abstract!SettledIsHeld

\* Every step of Catalog keeps the promise.
LEMMA PromiseStep ==
  ASSUME Promised, [Abstract!Next]_(Abstract!catalog)
  PROVE  Promised'
<1> DEFINE settled == Settled
<1>0. /\ Past
      /\ \A f \in Files : settled[f] = disk[f] => Holds(db, f, disk[f])
  BY SameOperators DEF Promised, Abstract!SettledIsHeld
<1>a. /\ disk' \in [Files -> Nat \ {0}] /\ settled' \in [Files -> Nat]
      /\ \A f \in Files : settled'[f] <= disk'[f]
      /\ \A f \in Files : settled'[f] = disk'[f] => Holds(db', f, disk'[f])
      => Promised'
  BY SameOperators DEF Promised, Past, Abstract!SettledIsHeld
<1>p. /\ disk \in [Files -> Nat \ {0}] /\ settled \in [Files -> Nat]
      /\ \A f \in Files : settled[f] <= disk[f]
  BY <1>0 DEF Past
<1>1. ASSUME NEW f \in Files, Abstract!Modify(f) PROVE Promised'
  <2>1. /\ UNCHANGED <<db, Settled>> /\ disk' = [disk EXCEPT ![f] = @ + 1]
    BY <1>1 DEF Abstract!Modify
  <2> HIDE DEF settled
  <2>2. /\ settled' = settled /\ db' = db
        /\ \A g \in Files : disk'[g] = IF g = f THEN disk[f] + 1 ELSE disk[g]
        /\ disk' \in [Files -> Nat \ {0}]
    BY <2>1, <1>p DEF settled
  <2>3. \A g \in Files : settled[g] \in Nat /\ disk[g] \in Nat /\ settled[g] <= disk[g]
    BY <1>p
  <2>4. ASSUME NEW g \in Files
        PROVE  /\ settled'[g] <= disk'[g]
               /\ settled'[g] = disk'[g] => settled[g] = disk[g] /\ disk'[g] = disk[g]
    <3>1. CASE g = f
      <4>1. settled'[g] = settled[g] /\ disk'[g] = disk[g] + 1
        BY <2>2, <3>1
      <4>2. settled[g] < disk[g] + 1
        BY <2>3
      <4>. QED
        BY <4>1, <4>2, <2>3
    <3>2. CASE g # f
      BY <2>2, <2>3, <3>2
    <3>. QED
      BY <3>1, <3>2
  <2>5. \A g \in Files : settled'[g] = disk'[g] => Holds(db', g, disk'[g])
    BY <2>2, <2>4, <1>0
  <2>6. settled' \in [Files -> Nat]
    BY <2>2, <1>p
  <2>. QED
    BY <2>2, <2>4, <2>5, <2>6, <1>a
<1>2. ASSUME NEW f \in Files, NEW v \in 1..disk[f], Abstract!Settle(f, v) PROVE Promised'
  <2>1. /\ UNCHANGED <<disk, db>> /\ (v = disk[f] => Holds(db, f, v))
        /\ settled' = [settled EXCEPT ![f] = v]
    BY <1>2, SameOperators DEF Abstract!Settle
  <2> HIDE DEF settled
  <2>2. /\ \A g \in Files : settled'[g] = IF g = f THEN v ELSE settled[g]
        /\ settled' \in [Files -> Nat]
    BY <2>1, <1>p
  <2>. QED
    BY <2>1, <2>2, <1>0, <1>a, <1>p
<1>3. ASSUME NEW f \in Files, NEW v \in 1..disk[f], NEW ks \in SUBSET Abstract!MailsOf(f, v),
             Abstract!Store(f, v, ks)
      PROVE  Promised'
  <2>1. /\ UNCHANGED <<disk, Settled>> /\ (settled[f] = disk[f] => v = disk[f])
        /\ db' = Upserted(db, f, v, ks)
    BY <1>3, SameOperators DEF Abstract!Store
  <2> HIDE DEF settled
  <2>2. settled' = settled /\ disk' = disk
    BY <2>1 DEF settled
  <2>3. ASSUME NEW g \in Files, settled[g] = disk[g], NEW k \in MailsOf(g, disk[g])
        PROVE  Fresh(db', g, disk[g], k)
    <3>1. Fresh(db, g, disk[g], k)
      BY <1>0, <2>3 DEF Holds
    <3>. QED
      BY <2>1, <2>3, <3>1, FreshKept
  <2>4. \A g \in Files : settled[g] = disk[g] => Holds(db', g, disk[g])
    BY <2>3 DEF Holds
  <2>. QED
    BY <2>2, <2>4, <1>a, <1>p
<1>4. ASSUME NEW fs \in SUBSET Files, Abstract!Unsettle(fs) PROVE Promised'
  <2>1. /\ UNCHANGED <<disk, db>>
        /\ settled' = [f \in Files |-> IF f \in fs THEN 0 ELSE settled[f]]
    BY <1>4 DEF Abstract!Unsettle
  <2> HIDE DEF settled
  <2>2. /\ \A g \in Files : settled'[g] = IF g \in fs THEN 0 ELSE settled[g]
        /\ settled' \in [Files -> Nat]
    BY <2>1, <1>p
  <2>. QED
    BY <2>1, <2>2, <1>0, <1>a, <1>p
<1>5. CASE UNCHANGED Abstract!catalog
  <2>1. disk' = disk /\ db' = db /\ settled' = settled
    BY <1>5 DEF Abstract!catalog
  <2> HIDE DEF settled
  <2>. QED
    BY <2>1, <1>0, <1>a, <1>p
<1>. QED
  BY <1>1, <1>2, <1>3, <1>4, <1>5 DEF Abstract!Next

\* Whatever does only what Catalog allows has a unit settled at the version it holds in
\* the table, with all its mails.
THEOREM PromiseKept == Abstract!Spec => []Abstract!SettledIsHeld
<1>1. Abstract!Init => Promised
  BY DEF Abstract!Init, Promised, Past, Abstract!SettledIsHeld
<1>2. Promised /\ [Abstract!Next]_(Abstract!catalog) => Promised'
  BY PromiseStep
<1>3. Promised => Abstract!SettledIsHeld
  BY DEF Promised
<1>. QED
  BY <1>1, <1>2, <1>3, PTL DEF Abstract!Spec

\* And so has an indexing run.
COROLLARY RunKeepsPromise == Spec => []Abstract!SettledIsHeld
  BY Implements, PromiseKept DEF ImplementsCatalog
=============================================================================
