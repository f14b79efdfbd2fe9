---------------------------- MODULE Orchestrator ----------------------------
(***************************************************************************)
(* The indexing run of pst_engine: run_index and _worker_main of           *)
(* orchestrator.py, the durable indexing_log.json of state.py and the      *)
(* mails table of storage.py, over any number of runs.                     *)
(*                                                                         *)
(* One main process (the Single Writer) plans the run, starts a pool of    *)
(* worker processes and is the only one to write the database and the log. *)
(* The workers take paths from a file queue and answer on one bounded      *)
(* results queue.  Around them: mailbox files that change at any time,     *)
(* workers that die, Ctrl+C, the GUI's stop flag, a write that fails for   *)
(* good, and the death of the whole program at any step.                   *)
(*                                                                         *)
(* Abstractions.  A file is known by the number of the version it holds    *)
(* (see Mailboxes).  updated_at, last_batch_index and the error texts are  *)
(* left out: nothing reads them back.  What of a message is still in its   *)
(* worker's buffer and what is in the pipe is decided when the worker dies.*)
(* The order in which the paths are queued is left open.  A worker may die *)
(* with a lock of a queue in its hands (POSIX; on Windows a queue has no   *)
(* write lock, and a message reaches its pipe whole).                      *)
(***************************************************************************)
EXTENDS Mailboxes, FiniteSets

CONSTANTS
  Workers,     \* the worker processes config.workers allows
  Flaky,       \* the units whose parser may be missing or may raise
  Faults,      \* the environment events of an instance, a subset of AllFaults
  MaxRuns,     \* bound: the number of runs
  MaxDeaths,   \* bound: the number of workers that die
  NoFile       \* "no file": not a member of Files

AllFaults == {"crash", "raise", "interrupt", "stop"}

ASSUME OrchestratorAssumption ==
  /\ NoFile \notin Files
  /\ IsFiniteSet(Files) /\ IsFiniteSet(Workers)
  /\ Flaky \subseteq Files /\ Faults \subseteq AllFaults
  /\ MaxRuns \in Nat /\ MaxDeaths \in Nat

VARIABLES
  disk,      \* disk[f]: the version file f holds now
  log,       \* indexing_log.json: a FileState for every file
  db,        \* the mails table: its committed rows
  mpc,       \* where the main process is
  targets,   \* the units this run was given
  todo,      \* those plan_files has not looked at yet
  plan,      \* plan[f]: the stamp plan_files read
  jobs,      \* to_process
  remaining, \* the jobs not yet settled
  written,   \* written_per_file
  cur,       \* the message the main process is handling
  summary,   \* IndexSummary
  stop,      \* the stop flag, set by the user interface
  outcome,   \* how the last run ended
  fileq,     \* the paths still in the file queue
  wst,       \* wst[w]: where worker w is
  wfile,     \* wfile[w]: the path it is working on
  wpos,      \* wpos[w]: how many items of it were put
  chan,      \* chan[w]: what w put and the main process has not got yet
  slots,     \* free slots of the bounded results queue
  left,      \* what workers died with in their hands
  runs, deaths

durable == <<disk, log, db>>
ledger  == <<targets, todo, plan, jobs, summary>>
loop    == <<remaining, written, cur>>
pool    == <<fileq, wst, wfile, wpos, chan, slots, left>>
bounds  == <<runs, deaths>>
vars    == <<durable, mpc, ledger, loop, stop, outcome, pool, bounds>>

-----------------------------------------------------------------------------
(* Data *)

Statuses  == {"DISCOVERED", "PARSING", "WRITING", "COMPLETED", "FAILED"}
FileState == [status : Statuses, stamp : Nat, written : Nat]
NoState   == [status |-> "DISCOVERED", stamp |-> 0, written |-> 0]

Message == [kind : {"none", "resolved", "batch", "errors", "done", "failed"},
            file : Files \cup {NoFile}, mails : Seq(Mails), version : Nat]
Msg(k, f) == [kind |-> k, file |-> f, mails |-> <<>>, version |-> 0]
NoMsg     == Msg("none", NoFile)

Summary   == [skipped : SUBSET Files, completed : SUBSET Files, failed : SUBSET Files]
NoSummary == [skipped |-> {}, completed |-> {}, failed |-> {}]

-----------------------------------------------------------------------------
(* The worker processes and the results queue *)

\* What the dead have left of the queues.
\*   files: the read lock of the file queue is taken
\*   lock:  the write lock of the results queue is taken; piped[w] of w's messages are in
\*          the pipe, and no more can follow
\*   half:  behind them, half of a message
Left    == [files : BOOLEAN, lock : BOOLEAN, half : BOOLEAN, piped : [Workers -> Nat]]
NoneLeft == [files |-> FALSE, lock |-> FALSE, half |-> FALSE, piped |-> [w \in Workers |-> 0]]

\* A process that came to its end goes on until its messages are in the pipe.
Flushed(w) == left.lock => Len(chan[w]) <= left.piped[w]

alive == {w \in Workers : \/ wst[w] \in {"idle", "opening", "parsing"}
                          \/ wst[w] = "exited" /\ ~Flushed(w)}
crew  == {w \in Workers : wst[w] # "off"}

\* Whether a message of w can be got.
Arrived(w) == chan[w] # <<>> /\ (left.lock => left.piped[w] > 0)

\* The places of the messages put and not yet got, in all channels.
InFlight == UNION {{w} \X DOMAIN chan[w] : w \in Workers}

\* Every queue is new in each run, and no worker outlives its run.
ResetPool ==
  /\ fileq' = {}
  /\ wst'   = [w \in Workers |-> "off"]
  /\ wfile' = [w \in Workers |-> NoFile]
  /\ wpos'  = [w \in Workers |-> 0]
  /\ chan'  = [w \in Workers |-> <<>>]
  /\ slots' = 0 /\ left' = NoneLeft

\* Queue.put: blocks until the semaphore of maxsize slots has one free.  A message
\* waits in its worker's buffer or in the pipe: chan[w] stands for both, since only
\* the order of each worker's messages is fixed before the main process gets them.
\* Mutation: an unbounded queue.
PutAnyway(w, m) ==
  /\ slots' = slots - 1
  /\ chan'  = [chan EXCEPT ![w] = Append(@, m)]
Put(w, m) ==
  /\ slots > 0
  /\ slots' = slots - 1
  /\ chan'  = [chan EXCEPT ![w] = Append(@, m)]

\* file_queue.get() returned a path.
TakePath(w) ==
  /\ wst[w] = "idle" /\ ~left.files
  /\ \E f \in fileq : /\ fileq' = fileq \ {f}
                      /\ wfile' = [wfile EXCEPT ![w] = f]
  /\ wst'  = [wst EXCEPT ![w] = "opening"]
  /\ wpos' = [wpos EXCEPT ![w] = 0]
  /\ UNCHANGED <<durable, mpc, ledger, loop, stop, outcome, chan, slots, left, bounds>>

\* file_queue.get() returned None: the paths are all queued before the Nones.
WorkerExit(w) ==
  /\ wst[w] = "idle" /\ fileq = {} /\ ~left.files
  /\ wst' = [wst EXCEPT ![w] = "exited"]
  /\ UNCHANGED <<durable, mpc, ledger, loop, stop, outcome,
                 fileq, wfile, wpos, chan, slots, left, bounds>>

\* resolve_parser again, in the worker, found a parser.
Resolve(w) ==
  /\ wst[w] = "opening"
  /\ Put(w, Msg("resolved", wfile[w]))
  /\ wst' = [wst EXCEPT ![w] = "parsing"]
  /\ UNCHANGED <<durable, mpc, ledger, loop, stop, outcome, fileq, wfile, wpos, left, bounds>>

\* No parser, or an exception while opening or iterating: what was not put is dropped.
PutFailed(w) ==
  /\ wst[w] \in {"opening", "parsing"} /\ wfile[w] \in Flaky
  /\ Put(w, Msg("failed", wfile[w]))
  /\ wst' = [wst EXCEPT ![w] = "idle"]
  /\ UNCHANGED <<durable, mpc, ledger, loop, stop, outcome, fileq, wfile, wpos, left, bounds>>

\* The next batch, or the next list of errors, as the file's bytes are now.
PutItem(w) ==
  LET f == wfile[w]
      v == disk[f]
      i == wpos[w] + 1
  IN /\ wst[w] = "parsing"
     /\ i <= Len(Content[f][v])
     /\ Put(w, [kind |-> Content[f][v][i].kind, file |-> f,
                mails |-> Content[f][v][i].mails, version |-> v])
     /\ wpos' = [wpos EXCEPT ![w] = i]
     /\ UNCHANGED <<durable, mpc, ledger, loop, stop, outcome, fileq, wst, wfile, left, bounds>>

\* Mutation: "done" is put as soon as the file was read, ahead of its last batch.
PutDoneEarly(w) ==
  LET f == wfile[w]
  IN /\ wst[w] = "parsing"
     /\ wpos[w] + 1 >= Len(Content[f][disk[f]])
     /\ Put(w, Msg("done", f))
     /\ wst' = [wst EXCEPT ![w] = IF wpos[w] >= Len(Content[f][disk[f]])
                                  THEN "idle" ELSE "parsing"]
     /\ UNCHANGED <<durable, mpc, ledger, loop, stop, outcome, fileq, wfile, wpos, left, bounds>>
\* The parser has no message left.
PutDone(w) ==
  LET f == wfile[w]
  IN /\ wst[w] = "parsing"
     /\ wpos[w] >= Len(Content[f][disk[f]])
     /\ Put(w, Msg("done", f))
     /\ wst' = [wst EXCEPT ![w] = "idle"]
     /\ UNCHANGED <<durable, mpc, ledger, loop, stop, outcome, fileq, wfile, wpos, left, bounds>>

\* How many messages of each worker are in the pipe if w dies with n of its own there.
Piped(w, n) ==
  {p \in [Workers -> UNION {0..Len(chan[u]) : u \in Workers}] :
     /\ p[w] = n
     /\ \A u \in Workers : p[u] <= Len(chan[u])
     /\ \A u \in Workers : wst[u] = "dead" => p[u] = Len(chan[u])}

\* The process dies: what its feeder thread had not flushed to the pipe is lost, and the
\* semaphore slots of those messages with it.  If it was in file_queue.get() it may have held
\* the read lock (whether a path went with it makes no difference: nobody reads that queue
\* any more).  The feeder thread may have held the write lock, the message in its hands
\* unwritten, half written or written.
WorkerDies(w) ==
  /\ w \in alive /\ deaths < MaxDeaths
  /\ deaths' = deaths + 1
  /\ wst' = [wst EXCEPT ![w] = "dead"]
  /\ \E n \in 0..Len(chan[w]), files, half \in BOOLEAN :
       /\ files = left.files \/ (files /\ wst[w] = "idle")
       /\ chan' = [chan EXCEPT ![w] = SubSeq(@, 1, n)]
       /\ \/ /\ left.lock => n = left.piped[w]
             /\ left' = [left EXCEPT !.files = files]
          \/ /\ ~left.lock /\ wfile[w] # NoFile
             /\ half => n < Len(chan[w])
             /\ \E p \in Piped(w, n) :
                  left' = [files |-> files, lock |-> TRUE, half |-> half, piped |-> p]
  /\ UNCHANGED <<durable, mpc, ledger, loop, stop, outcome, fileq, wfile, wpos, slots, runs>>

WorkerStep(w) == TakePath(w) \/ WorkerExit(w) \/ Resolve(w) \/ PutFailed(w)
                 \/ PutItem(w) \/ PutDone(w)

-----------------------------------------------------------------------------
(* The main process: planning *)

\* run_index is called: StateManager loads the log, discover_targets finds the units.
StartRun ==
  /\ mpc = "idle" /\ runs < MaxRuns
  /\ runs' = runs + 1
  /\ targets' \in SUBSET Files \ {{}}
  /\ todo' = targets'
  /\ plan' = [f \in Files |-> 0]
  /\ jobs' = {} /\ summary' = NoSummary
  /\ stop' = FALSE /\ outcome' = "none"
  /\ mpc' = "planning"
  /\ UNCHANGED <<durable, loop, pool, deaths>>

\* StateManager.should_skip.  Mutation: without the comparison of the stamps.
SkipIfCompleted(f) == log[f].status = "COMPLETED"
ShouldSkip(f) == log[f].status = "COMPLETED" /\ log[f].stamp = disk[f]

\* plan_files for one unit: stamp, should_skip, resolve_parser.
PlanFile(f) ==
  /\ mpc = "planning" /\ f \in todo
  /\ todo' = todo \ {f}
  /\ plan' = [plan EXCEPT ![f] = disk[f]]
  /\ \/ /\ ShouldSkip(f)
        /\ summary' = [summary EXCEPT !.skipped = @ \cup {f}]
        /\ UNCHANGED jobs
     \/ /\ ~ShouldSkip(f) /\ f \in Flaky
        /\ summary' = [summary EXCEPT !.failed = @ \cup {f}]
        /\ UNCHANGED jobs
     \/ /\ ~ShouldSkip(f)
        /\ jobs' = jobs \cup {f}
        /\ UNCHANGED summary
  /\ UNCHANGED <<durable, mpc, targets, loop, stop, outcome, pool, bounds>>

\* The log after the planning loop, saved once for all units.
PlannedLog ==
  [f \in Files |->
     IF f \in jobs \cup summary.failed
     THEN [status |-> IF f \in jobs THEN "PARSING" ELSE "FAILED",
           stamp |-> plan[f], written |-> 0]
     ELSE log[f]]

\* Every unit is skipped or has no parser: the early return.
NothingToDo ==
  /\ mpc = "planning" /\ todo = {} /\ jobs = {}
  /\ log' = PlannedLog
  /\ mpc' = "idle" /\ outcome' = "returned"
  /\ plan' = [f \in Files |-> 0]
  /\ UNCHANGED <<disk, db, targets, todo, jobs, summary, loop, stop, pool, bounds>>

\* min(workers, jobs) processes, a results queue of twice as many slots.
PoolSize == IF Cardinality(Workers) < Cardinality(jobs)
            THEN Cardinality(Workers) ELSE Cardinality(jobs)

\* Mutation: the counters of the previous run are kept.
KeepCounters == written
ZeroCounters == [f \in Files |-> 0]

StartWorkers ==
  /\ mpc = "planning" /\ todo = {} /\ jobs # {}
  /\ log' = PlannedLog
  /\ \E c \in SUBSET Workers :
       /\ Cardinality(c) = PoolSize
       /\ wst' = [w \in Workers |-> IF w \in c THEN "idle" ELSE "off"]
  /\ slots' = 2 * PoolSize
  /\ fileq' = jobs
  /\ remaining' = jobs /\ written' = ZeroCounters
  /\ mpc' = "opening"
  /\ UNCHANGED <<disk, db, ledger, cur, stop, outcome, wfile, wpos, chan, left, bounds>>

-----------------------------------------------------------------------------
(* The main process: the Single Writer loop *)

\* MailStorageEngine(db_path) and ErrorLogger(errors_path).
OpenStorage ==
  /\ mpc = "opening"
  /\ mpc' = "top"
  /\ UNCHANGED <<durable, ledger, loop, stop, outcome, pool, bounds>>

\* while remaining: the loop is over.
LoopDone ==
  /\ mpc = "top" /\ remaining = {}
  /\ mpc' = "cleanup" /\ outcome' = "returned"
  /\ UNCHANGED <<durable, ledger, loop, stop, pool, bounds>>

\* The stop flag is looked at once per round, before the next message.
StopRequested ==
  /\ mpc = "top" /\ remaining # {} /\ stop
  /\ mpc' = "cleanup" /\ outcome' = "interrupted"
  /\ UNCHANGED <<durable, ledger, loop, stop, pool, bounds>>

Proceed ==
  /\ mpc = "top" /\ remaining # {} /\ ~stop
  /\ mpc' = "get"
  /\ UNCHANGED <<durable, ledger, loop, stop, outcome, pool, bounds>>

\* results_queue.get returned a message, which frees its slot.
Receive(w) ==
  /\ mpc = "get" /\ Arrived(w)
  /\ cur' = Head(chan[w])
  /\ chan' = [chan EXCEPT ![w] = Tail(@)]
  /\ left' = IF left.lock THEN [left EXCEPT !.piped[w] = @ - 1] ELSE left
  /\ slots' = slots + 1
  /\ mpc' = "handle"
  /\ UNCHANGED <<durable, ledger, remaining, written, stop, outcome,
                 fileq, wst, wfile, wpos, bounds>>

\* results_queue.get(timeout=0.5) raised queue.Empty: the timeout is for the first byte of
\* a message, not for its last ...
Timeout ==
  /\ mpc = "get" /\ ~left.half /\ \A w \in Workers : ~Arrived(w)
  /\ mpc' = "empty"
  /\ UNCHANGED <<durable, ledger, loop, stop, outcome, pool, bounds>>

\* ... and only then does the main process look at the workers: none is alive.
GiveUp ==
  /\ mpc = "empty" /\ alive = {}
  /\ mpc' = "cleanup" /\ outcome' = "abandoned"
  /\ UNCHANGED <<durable, ledger, loop, stop, pool, bounds>>

\* Mutation: it waits for the next message whether a worker is alive or not.
WaitAnyway ==
  /\ mpc = "empty"
  /\ mpc' = "top"
  /\ UNCHANGED <<durable, ledger, loop, stop, outcome, pool, bounds>>
KeepWaiting ==
  /\ mpc = "empty" /\ alive # {}
  /\ mpc' = "top"
  /\ UNCHANGED <<durable, ledger, loop, stop, outcome, pool, bounds>>

\* "resolved" is only reported; "errors" go to errors.jsonl.
HandleNote ==
  /\ mpc = "handle" /\ cur.kind \in {"resolved", "errors"}
  /\ mpc' = "top" /\ cur' = NoMsg
  /\ UNCHANGED <<durable, ledger, remaining, written, stop, outcome, pool, bounds>>

\* storage.upsert_batch: the batch is committed, the log does not know of it yet.
UpsertBatch ==
  /\ mpc = "handle" /\ cur.kind = "batch"
  /\ db' = Upserted(db, cur.file, cur.version, Range(cur.mails))
  /\ mpc' = "record"
  /\ UNCHANGED <<disk, log, ledger, loop, stop, outcome, pool, bounds>>

\* state.set(WRITING) and state.save.
RecordBatch ==
  LET f == cur.file
      n == written[f] + Len(cur.mails)
  IN /\ mpc = "record"
     /\ written' = [written EXCEPT ![f] = n]
     /\ log' = [log EXCEPT ![f] = [status |-> "WRITING", stamp |-> plan[f], written |-> n]]
     /\ mpc' = "top" /\ cur' = NoMsg
     /\ UNCHANGED <<disk, db, ledger, remaining, stop, outcome, pool, bounds>>

\* The stamp that goes into the log is the plan's, never a new look at the file.
\* Mutation: the file is looked at again when its last message arrives.
StampNow(f)     == disk[f]
RecordedStamp(f) == plan[f]

SettleDone ==
  LET f == cur.file
  IN /\ mpc = "handle" /\ cur.kind = "done"
     /\ log' = [log EXCEPT ![f] = [status |-> "COMPLETED", stamp |-> RecordedStamp(f),
                                   written |-> written[f]]]
     /\ summary' = [summary EXCEPT !.completed = @ \cup {f}]
     /\ remaining' = remaining \ {f}
     /\ mpc' = "top" /\ cur' = NoMsg
     /\ UNCHANGED <<disk, db, targets, todo, plan, jobs, written, stop, outcome, pool, bounds>>

\* Mutation: the failure is reported and never logged.
SettleFailedUnlogged ==
  LET f == cur.file
  IN /\ mpc = "handle" /\ cur.kind = "failed"
     /\ summary' = [summary EXCEPT !.failed = @ \cup {f}]
     /\ remaining' = remaining \ {f}
     /\ mpc' = "top" /\ cur' = NoMsg
     /\ UNCHANGED <<durable, targets, todo, plan, jobs, written, stop, outcome, pool, bounds>>
SettleFailed ==
  LET f == cur.file
  IN /\ mpc = "handle" /\ cur.kind = "failed"
     /\ log' = [log EXCEPT ![f] = [status |-> "FAILED", stamp |-> plan[f], written |-> 0]]
     /\ summary' = [summary EXCEPT !.failed = @ \cup {f}]
     /\ remaining' = remaining \ {f}
     /\ mpc' = "top" /\ cur' = NoMsg
     /\ UNCHANGED <<disk, db, targets, todo, plan, jobs, written, stop, outcome, pool, bounds>>

\* finally: terminate and join the workers, close the connection; then return or raise.
Finish ==
  /\ mpc = "cleanup"
  /\ mpc' = "idle"
  /\ remaining' = {} /\ cur' = NoMsg
  /\ plan' = [f \in Files |-> 0]
  /\ ResetPool
  /\ UNCHANGED <<durable, targets, todo, jobs, summary, written, stop, outcome, bounds>>

-----------------------------------------------------------------------------
(* The environment *)

\* A mailbox file changes, and its size or modification time with it.
Modify(f) ==
  /\ disk[f] < MaxVersion
  /\ disk' = [disk EXCEPT ![f] = @ + 1]
  /\ UNCHANGED <<log, db, mpc, ledger, loop, stop, outcome, pool, bounds>>

\* The GUI's stop button.
SetStop ==
  /\ "stop" \in Faults /\ mpc # "idle" /\ ~stop
  /\ stop' = TRUE
  /\ UNCHANGED <<durable, mpc, ledger, loop, outcome, pool, bounds>>

\* Ctrl+C inside the loop's try is caught and ends the run.
Interrupt ==
  /\ "interrupt" \in Faults
  /\ mpc \in {"top", "get", "empty", "handle", "record"}
  /\ mpc' = "cleanup" /\ outcome' = "interrupted"
  /\ UNCHANGED <<durable, ledger, loop, stop, pool, bounds>>

\* upsert_batch has used up its retries: the batch is rolled back, the exception leaves
\* the loop.
UpsertFails ==
  /\ "raise" \in Faults
  /\ mpc = "handle" /\ cur.kind = "batch"
  /\ mpc' = "cleanup" /\ outcome' = "unwritten"
  /\ UNCHANGED <<durable, ledger, loop, stop, pool, bounds>>

\* Any other exception inside the try: a line of errors.jsonl or the log itself could not
\* be written.
Raise ==
  /\ "raise" \in Faults
  /\ mpc = "record" \/ (mpc = "handle" /\ cur.kind \in {"errors", "done", "failed"})
  /\ mpc' = "cleanup" /\ outcome' = "raised"
  /\ UNCHANGED <<durable, ledger, loop, stop, pool, bounds>>

\* The program ends at once, and with it everything it held in memory.
Vanish(o) ==
  /\ mpc' = "idle" /\ outcome' = o
  /\ remaining' = {} /\ cur' = NoMsg
  /\ plan' = [f \in Files |-> 0]
  /\ ResetPool
  /\ UNCHANGED <<durable, targets, todo, jobs, summary, written, stop, bounds>>

\* An exception or Ctrl+C before the try: no clean-up runs.  Workers that were already
\* started are left behind, blocked on queues nobody reads any more.
RaiseEarly ==
  /\ "raise" \in Faults
  /\ mpc \in {"planning", "opening"}
  /\ Vanish("raised")

\* Killed, or the machine restarts with what was written intact.
Crash ==
  /\ "crash" \in Faults /\ mpc # "idle"
  /\ Vanish("crashed")

-----------------------------------------------------------------------------
Init ==
  /\ disk = [f \in Files |-> 1]
  /\ log = [f \in Files |-> NoState]
  /\ db = {}
  /\ mpc = "idle"
  /\ targets = {} /\ todo = {} /\ jobs = {} /\ summary = NoSummary
  /\ plan = [f \in Files |-> 0]
  /\ remaining = {} /\ written = [f \in Files |-> 0] /\ cur = NoMsg
  /\ stop = FALSE /\ outcome = "none"
  /\ fileq = {} /\ slots = 0 /\ left = NoneLeft
  /\ wst = [w \in Workers |-> "off"]
  /\ wfile = [w \in Workers |-> NoFile]
  /\ wpos = [w \in Workers |-> 0]
  /\ chan = [w \in Workers |-> <<>>]
  /\ runs = 0 /\ deaths = 0

MainStep ==
  \/ \E f \in Files : PlanFile(f)
  \/ NothingToDo \/ StartWorkers \/ OpenStorage
  \/ LoopDone \/ StopRequested \/ Proceed
  \/ \E w \in Workers : Receive(w)
  \/ Timeout \/ GiveUp \/ KeepWaiting
  \/ HandleNote \/ UpsertBatch \/ RecordBatch \/ SettleDone \/ SettleFailed
  \/ Finish

Environment ==
  \/ StartRun
  \/ \E f \in Files : Modify(f)
  \/ \E w \in Workers : WorkerDies(w)
  \/ SetStop \/ Interrupt \/ UpsertFails \/ Raise \/ RaiseEarly \/ Crash

Next == MainStep \/ (\E w \in Workers : WorkerStep(w)) \/ Environment

Spec == Init /\ [][Next]_vars

\* The operating system keeps running every process that can run.
Fairness == WF_vars(MainStep) /\ \A w \in Workers : WF_vars(WorkerStep(w))
FairSpec == Spec /\ Fairness

-----------------------------------------------------------------------------
(* Properties *)

\* The type invariant.
TypeOK ==
  /\ disk \in [Files -> 1..MaxVersion]
  /\ log \in [Files -> FileState]
  /\ db \subseteq Row
  /\ mpc \in {"idle", "planning", "opening", "top", "get", "empty",
              "handle", "record", "cleanup"}
  /\ targets \subseteq Files /\ todo \subseteq Files /\ jobs \subseteq Files
  /\ plan \in [Files -> 0..MaxVersion]
  /\ summary \in Summary
  /\ remaining \subseteq Files
  /\ written \in [Files -> Nat]
  /\ cur \in Message
  /\ stop \in BOOLEAN
  /\ outcome \in {"none", "returned", "interrupted", "abandoned", "unwritten",
                  "raised", "crashed"}
  /\ fileq \subseteq Files
  /\ wst \in [Workers -> {"off", "idle", "opening", "parsing", "exited", "dead"}]
  /\ wfile \in [Workers -> Files \cup {NoFile}]
  /\ wpos \in [Workers -> Nat]
  /\ chan \in [Workers -> Seq(Message)]
  /\ slots \in Nat /\ left \in Left
  /\ runs \in 0..MaxRuns /\ deaths \in 0..MaxDeaths

\* A unit logged COMPLETED whose stamp is still the file's is in the table with every
\* mail it holds, as it holds them: the next run may skip it.  The code's order makes
\* it so, whatever changes, dies or fails in between: the stamp is taken before the
\* file is read, a batch is committed before it is counted, "done" comes last.
CompletedIsIndexed ==
  \A f \in Files :
    log[f].status = "COMPLETED" /\ log[f].stamp = disk[f] => Holds(db, f, disk[f])

\* A unit is skipped only if the table holds all its mails; a file modified after it was
\* stamped is for the next run to see.
SkippedIsIndexed ==
  mpc # "idle" => \A f \in summary.skipped : plan[f] = disk[f] => Holds(db, f, disk[f])

\* message_id is UNIQUE: a mail met again, in another file, in a later version of its own
\* or in a run that starts over, replaces its row and adds none.
OneRowPerMail == \A r, s \in db : r.mail = s.mail => r = s

\* A run that returns without being stopped and without giving up has accounted for every
\* unit it was given, once, and says of it what the log says.
SummaryAccountsForAll ==
  mpc = "idle" /\ outcome = "returned" =>
    /\ targets = summary.skipped \cup summary.completed \cup summary.failed
    /\ summary.completed \cap summary.failed = {}
    /\ \A f \in summary.completed : log[f].status = "COMPLETED"
    /\ \A f \in summary.failed : log[f].status = "FAILED"

\* The count kept for a completed unit is the number of records it yielded in that one
\* pass, not what several runs or a pass cut short have added up to.
WrittenIsExact ==
  \A f \in Files :
    log[f].status = "COMPLETED" /\ log[f].stamp = disk[f] =>
      log[f].written = Cardinality(Yielded(f, disk[f]))

\* The messages workers have put and the main process has not got are never more than
\* maxsize: what keeps a slow writer from filling the memory with batches.
Backpressure ==
  Cardinality(InFlight) <= 2 * Cardinality(crew)

\* Within a run a settled unit stays settled: no message of a file follows its "done" or
\* "failed", so no batch sends a COMPLETED unit back to WRITING.
SettledStaysSettled ==
  [][\A f \in Files : mpc # "planning" /\ log[f].status \in {"COMPLETED", "FAILED"}
                        => log'[f] = log[f]]_vars

\* What the dead can do to a run: the main process waits for the rest of a message, or it
\* polls for ever while a worker that lives waits for a lock, or for one of the slots that
\* went with the messages the dead had not flushed.
HeldByTheDead ==
  \/ mpc = "get" /\ left.half
  \/ alive # {} /\ (left.files \/ left.lock \/ slots = 0)

\* Every run ends: no worker waits for a slot, and the main process for a message, that will
\* never come, unless a worker died and it is held for ever in one of these ways.  The stop
\* button ends even such a run, but for the rest of a message.
RunEndsUnlessTheDeadHoldIt ==
  /\ []<>(mpc = "idle") \/ <>[]HeldByTheDead
  /\ stop /\ mpc # "idle" ~> mpc = "idle" \/ (mpc = "get" /\ left.half)

\* The runs do to the log and the table only what Catalog allows.
Settled == [f \in Files |-> IF log[f].status = "COMPLETED" THEN log[f].stamp ELSE 0]
Abstract == INSTANCE Catalog WITH rows <- db, settled <- Settled
ImplementsCatalog == Abstract!Spec

\* A file whose batch finally could not be written is left FAILED (state.py:10-11).
WriteFailureIsLogged ==
  [][mpc = "cleanup" /\ mpc' = "idle" /\ outcome = "unwritten"
       => log'[cur.file].status = "FAILED"]_vars
=============================================================================
