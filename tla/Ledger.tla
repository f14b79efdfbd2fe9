-------------------------------- MODULE Ledger --------------------------------
(***************************************************************************)
(* What the log is for: which units a run may pass over.  Runs of          *)
(* run_index one after the other and at once, for one database or several, *)
(* over a log saved as in StateLog, while the units change, processes are  *)
(* killed and the power fails.                                             *)
(*                                                                         *)
(* Abstractions.  A run has one unit, which is one batch (Orchestrator has *)
(* runs of several units of several batches).  A unit only ever becomes a  *)
(* later version; an old copy put back is a later version with the old     *)
(* stamp.  The rows a unit has in a database are the version they are of.  *)
(* SQLite, in WAL mode with synchronous = NORMAL, may lose the commits     *)
(* since its last checkpoint when the power fails, and loses none when a   *)
(* process is killed.                                                      *)
(***************************************************************************)
EXTENDS StateLog

CONSTANTS
  Units,
  Dbs,       \* databases the runs are for: cli.py --db, the box of the window
  Stamp,     \* Stamp[u]: for each version of unit u, its [size, mtime]
  Tolerance, \* two times nearer than this are one to should_skip (state.py:100)
  MaxRuns    \* bound: the number of runs

ASSUME LedgerAssumption ==
  /\ Tolerance \in Nat /\ MaxRuns \in Nat
  /\ DOMAIN Stamp = Units
  /\ \A u \in Units : DOMAIN Stamp[u] \subseteq Nat \ {0} /\ 1 \in DOMAIN Stamp[u]

None == 0    \* no version: no rows
Lost == -1   \* rows the power failure took

VARIABLES
  disk,      \* disk[u]: the version on the disk
  table,     \* table[d][u]: the version the rows are of, None or Lost
  unsafe,    \* the <<d, u>> committed since the last checkpoint of d
  job,       \* job[s]: what run s is for and how far it is
  runs,
  crowded    \* history: units that two runs were at at once

lvars == <<disk, table, unsafe, job, runs, crowded>>

\* plan, read: the versions the plan and the worker met.
NoJob == [stage |-> "none"]
Job(u, d) == [stage |-> "planning", unit |-> u, db |-> d, plan |-> None, read |-> None]

\* The entries a log may have.  Completed: with the size and mtime of the plan, which stand
\* for a version, and, what the code does not write down, the database the run was for.  Any
\* other FileState is one to should_skip.
Unsettled == [status |-> "unsettled"]
Completed(d, v) == [status |-> "COMPLETED", db |-> d, version |-> v]
Set(s, e) == [u \in DOMAIN data[s] \cup {job[s].unit} |-> IF u = job[s].unit THEN e ELSE data[s][u]]

Near(a, b) == a.size = b.size /\ a.mtime - b.mtime < Tolerance /\ b.mtime - a.mtime < Tolerance

\* should_skip.
ShouldSkip(s) ==
  LET u == job[s].unit
  IN /\ u \in DOMAIN data[s]
     /\ data[s][u].status = "COMPLETED"
     /\ Near(Stamp[u][data[s][u].version], Stamp[u][disk[u]])

\* StateManager(state_path), for a run of unit u into database d.
Start(s, u, d) ==
  /\ runs < MaxRuns /\ runs' = runs + 1
  /\ Load(s)
  /\ job' = [job EXCEPT ![s] = Job(u, d)]
  /\ crowded' = crowded \cup
       {v \in {u} : \E t \in Savers : InUse(t) /\ job[t].unit = u /\ job[t].db = d}
  /\ UNCHANGED <<disk, table, unsafe>>

\* plan_files and the planning loop, to the save after it: the unit is passed over,
Skip(s) ==
  /\ job[s].stage = "planning" /\ ShouldSkip(s)
  /\ OpenTmp(s, data[s])
  /\ job' = [job EXCEPT ![s].stage = "skipped"]
  /\ UNCHANGED <<disk, table, unsafe, runs, crowded>>
\* or it is PARSING, and handed to a worker (FAILED, without a parser, is Fail at once).
Plan(s) ==
  /\ job[s].stage = "planning" /\ ~ShouldSkip(s)
  /\ OpenTmp(s, Set(s, Unsettled))
  /\ job' = [job EXCEPT ![s].stage = "handed", ![s].plan = disk[job[s].unit]]
  /\ UNCHANGED <<disk, table, unsafe, runs, crowded>>

\* The worker reads the unit, as it is by now, and puts its mails as a batch.
Read(s) ==
  /\ pc[s] = "ready" /\ job[s].stage = "handed"
  /\ job' = [job EXCEPT ![s].stage = "read", ![s].read = disk[job[s].unit]]
  /\ UNCHANGED <<vars, disk, table, unsafe, runs, crowded>>

\* upsert_batch.
Commit(s) ==
  /\ pc[s] = "ready" /\ job[s].stage = "read"
  /\ table' = [table EXCEPT ![job[s].db][job[s].unit] = job[s].read]
  /\ unsafe' = unsafe \cup {<<job[s].db, job[s].unit>>}
  /\ job' = [job EXCEPT ![s].stage = "committed", ![s].read = None]
  /\ UNCHANGED <<vars, disk, runs, crowded>>

\* The batch is recorded: WRITING.
Record(s) ==
  /\ job[s].stage = "committed"
  /\ OpenTmp(s, Set(s, Unsettled))
  /\ job' = [job EXCEPT ![s].stage = "recorded"]
  /\ UNCHANGED <<disk, table, unsafe, runs, crowded>>

\* "done" arrives: COMPLETED.  Mutation: with the stamp of now.
SettleAsNow(s) ==
  /\ job[s].stage = "recorded"
  /\ OpenTmp(s, Set(s, Completed(job[s].db, disk[job[s].unit])))
  /\ job' = [job EXCEPT ![s] = [Job(@.unit, @.db) EXCEPT !.stage = "over"]]
  /\ UNCHANGED <<disk, table, unsafe, runs, crowded>>
Settle(s) ==
  /\ job[s].stage = "recorded"
  /\ OpenTmp(s, Set(s, Completed(job[s].db, job[s].plan)))
  /\ job' = [job EXCEPT ![s] = [Job(@.unit, @.db) EXCEPT !.stage = "over"]]
  /\ UNCHANGED <<disk, table, unsafe, runs, crowded>>

\* FAILED: there is no parser, or "failed" arrives, before the batch or after it.
Fail(s) ==
  /\ \/ job[s].stage \in {"handed", "recorded"}
     \/ job[s].stage = "planning" /\ ~ShouldSkip(s)
  /\ OpenTmp(s, Set(s, Unsettled))
  /\ job' = [job EXCEPT ![s] = [Job(@.unit, @.db) EXCEPT !.stage = "over"]]
  /\ UNCHANGED <<disk, table, unsafe, runs, crowded>>

\* The run returns, at its end or before: the stop flag, Ctrl+C, workers that died, a
\* commit that failed; or its rename fails.
Return(s) ==
  /\ Leave(s) \/ ReplaceFails(s)
  /\ job' = [job EXCEPT ![s] = NoJob]
  /\ UNCHANGED <<disk, table, unsafe, runs, crowded>>

\* Write and Replace of StateLog.
Save(s) == (Write(s) \/ Replace(s)) /\ UNCHANGED lvars

Ended == [s \in Savers |-> IF InUse(s)' THEN job[s] ELSE NoJob]

Die(p) == Kill({p}) /\ job' = Ended /\ UNCHANGED <<disk, table, unsafe, runs, crowded>>

\* An earlier log or the last, and the commits since the last checkpoint or not.  Bound: not
\* in the last run when it is alone, after which nothing comes.
PowerFailure ==
  /\ runs < MaxRuns \/ \E s, t \in Savers : s # t /\ InUse(s) /\ InUse(t)
  /\ Outage
  /\ job' = Ended
  /\ \E gone \in SUBSET unsafe :
       table' = [d \in Dbs |-> [u \in Units |-> IF <<d, u>> \in gone THEN Lost ELSE table[d][u]]]
  /\ unsafe' = {}
  /\ UNCHANGED <<disk, runs, crowded>>

\* SQLite writes the WAL of d back.
Checkpoint(d) ==
  /\ \E u \in Units : <<d, u>> \in unsafe
  /\ unsafe' = {w \in unsafe : w[1] # d}
  /\ UNCHANGED <<vars, disk, table, job, runs, crowded>>

\* Outlook writes to the archive, somebody replaces it.
Change(u, v) ==
  /\ v > disk[u]
  /\ disk' = [disk EXCEPT ![u] = v]
  /\ UNCHANGED <<vars, table, unsafe, job, runs, crowded>>

\* At first, or after a run that has settled every unit, for one database.
LedgerInit ==
  /\ disk = [u \in Units |-> 1]
  /\ \E done \in SUBSET Dbs :
       /\ Cardinality(done) <= 1
       /\ Init(IF done = {} THEN Blank ELSE [u \in Units |-> Completed(CHOOSE d \in done : TRUE, 1)])
       /\ table = [d \in Dbs |-> [u \in Units |-> IF d \in done THEN 1 ELSE None]]
  /\ unsafe = {} /\ runs = 0 /\ crowded = {}
  /\ job = [s \in Savers |-> NoJob]

LedgerNext ==
  \/ \E s \in Savers :
       \/ \E u \in Units, d \in Dbs : Start(s, u, d)
       \/ Skip(s) \/ Plan(s) \/ Read(s) \/ Commit(s) \/ Record(s) \/ Settle(s) \/ Fail(s)
       \/ Return(s) \/ Save(s)
  \/ \E p \in Processes : Die(p)
  \/ PowerFailure
  \/ \E d \in Dbs : Checkpoint(d)
  \/ \E u \in Units : \E v \in DOMAIN Stamp[u] : Change(u, v)

LedgerSpec == LedgerInit /\ [][LedgerNext]_<<vars, lvars>>

-----------------------------------------------------------------------------
(* Properties *)

\* An entry is never lost over saves, ends of runs and kills at any step of a save, and only
\* a run of its unit changes it (state.py:70-81).  But when the power fails, since the
\* directory is not synced: an earlier log may return, or none; and when two runs were under
\* way at once: the one that saves last wins.
NothingForgotten ==
  [][log # NoFile /\ ~together =>
       \/ PowerFailure
       \/ /\ log' # NoFile
          /\ \A u \in DOMAIN inode[log].entries :
               /\ u \in DOMAIN inode'[log'].entries
               /\ \/ inode'[log'].entries[u] = inode[log].entries[u]
                  \/ \E s \in Savers : InUse(s) /\ job[s].unit = u]_<<vars, lvars>>

\* Whatever was killed or changed and whenever, and whichever log a power failure has brought
\* back, a unit is passed over only if the database has its mails as they are on the disk
\* (orchestrator.py:141, state.py:93-100).  But where
\* should_skip cannot know: the change left the size as it was and the time nearly so; the
\* unit was completed for another database (the log is not told which); the power failure
\* took the rows; two runs were at the unit at once.
SkipIsJustified ==
  [][\A s \in Savers :
       LET u == job[s].unit
           e == data[s][u]
       IN job[s].stage # "skipped" /\ job'[s].stage = "skipped" =>
            \/ table[job[s].db][u] \in {disk[u], Lost}
            \/ e.version # disk[u] /\ Near(Stamp[u][e.version], Stamp[u][disk[u]])
            \/ e.db # job[s].db
            \/ u \in crowded]_<<vars, lvars>>
=============================================================================
