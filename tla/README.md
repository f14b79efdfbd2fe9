# EmailQuickscan in TLA+

Specifications of `pst_engine` (`src/src/pst_engine/`), the engine of EmailQuickscan: it reads
PST/OST archives and directories of `.msg` files, stores their mails in one SQLite database
with a bigram full-text index, and searches it from a command line or a Tk window. Python file
names below are relative to `src/src/pst_engine/`; `README.md` and `USAGE.md` with a line
number are the repository's.

Contents: 1 inventory, 2 plan, 3 modules, 4 runs and bounds, 5 findings and other
divergences, 6 proofs, 7 what is only model-checked and what is not modelled.

## 1. Inventory

| component | state it keeps | operations | talks to |
|---|---|---|---|
| `orchestrator.py` | in memory: plan, `to_process`, `remaining`, `written_per_file`, `IndexSummary`; queues; worker processes | `discover_targets`, `plan_files`, `run_index`, `_worker_main`, `ErrorLogger` | everything below, by calls; its workers by two `multiprocessing` queues |
| `state.py` | `indexing_log.json`: a `FileState` per unit | `_load`, `get`, `set`, `save`, `should_skip` | the main process only |
| `storage.py` | SQLite: `mails` (unique `message_id`), `mails_fts` (same rowids) | `upsert_batch`, `_resolve_rowid`, `verify_candidate`, `export_csv`, `export_eml` | written by the main process, read by search and exports |
| `indexer.py` | the batch and the error list being filled | `iter_batches`, `_normalize` | a parser below it, the worker above |
| `resolver.py`, `optional_deps.py` | a cache of optional imports | `resolve_parser`, `fetch_attachment` | parsers |
| `parsers/*` | an open archive; for readpst a temporary directory | `open`, `iter_messages`, `fetch_attachment`, `close` | files, the `readpst` process |
| `search.py` | a read-only connection | `parse_query`, `parse_date_range`, `build_match_expression`, `search`, `get_full`, `_diagnose` | the database |
| `gui.py` | the search engine, a preview cache, a stop event, an index thread, event queues | search with a debounce, preview, export, index dialog, log viewer | `run_index` on a thread, search, the log |
| `cli.py` | none | sub-commands, among them `cmd_search` and `cmd_export`; `--db` | run, search, storage |
| `config.py`, `models.py`, `encoding.py` | settings | reading settings; charset guessing | all of the above |

What is hard about each, and what makes it correct:

* **Indexing run** (orchestrator, state, storage). Several processes, a bounded queue, two
  durable stores that are not written together, files that change while they are read, and
  ways to end the run at every step. Correct: the log never says of a unit more than the table
  holds (else the next run skips it for ever); a unit is settled once per run and accounted
  for; the queue stays bounded; every run ends; a mail has one row.
* **Storage**. A transaction over two tables with a retry loop, row ids that encode a date and
  a hash and are probed on collision, several writers. Correct: both tables hold the same
  rowids with the same text; a batch goes in whole or not at all; a rowid never moves; rowid
  order is date order, as search assumes; every call ends.
* **State log**. A temporary file named after the process and a whole-file save, at the mercy
  of a kill, a power failure and other savers; stamps by which a change may not show; one log
  whatever the database. Correct: a reader sees a complete log; entries are kept; a unit is
  passed over only if the database has its mails.
* **Indexer, parsers, resolver**. Batches by size, errors beside them, exceptions at any item,
  a temporary directory. Correct: every message is in exactly one batch or error list, in
  order; a unit reported done was delivered whole; the disk is cleaned up.
* **Search and exports**. A query language whose terms are first narrowed by a superset (bigrams)
  and then verified, dates turned into half-open intervals, pages by rowid while a writer
  commits, rows read again for an export. Correct: what is returned is what the query means,
  and all of it; no page skips or repeats a mail; an empty answer blames the right condition;
  an export has what the search found.
* **GUI**. Callbacks of the event loop, worker threads with one stop flag, cached records.
  Correct: the list and the preview are of the input and the database on the screen; the count
  of an index dialog is exact; a stop reaches the run it was meant for.

`PROJECT.json` lists the hazards behind these words, each at its line.

## 2. Plan

1. *(done)* `Mailboxes`, `Catalog`, `Orchestrator`: the indexing run and its abstract promise,
   with proofs.
2. *(done)* `MailTable`, `Storage`: `upsert_batch`, shown to implement the atomic batch.
3. *(done)* `StateLog`: save at the level of files; `IndexWindow`: the dialogs, their event
   queues, the shared stop flag.
4. *(done)* `Extraction`: the choice of a parser, its life, `iter_batches`, the worker's puts.
5. *(done)* `Query`: `parse_query`, the MATCH expression and verification against the meaning of
   a query; `Search`: scan, look, pages, relevance order.
6. *(done)* `Viewer`: the search tab, previews, attachments.
7. *(done)* `Ledger`: what the entries of the log are for, over runs, kills and power failures (WAL
   with `synchronous=NORMAL` may lose commits that the log, which is fsynced, knows of), stamps
   that hide a change (`state.py:100`), and one log for two databases (`cli.py:119`).
8. *(done)* `Dates`, and in `Query` the values of conditions and the diagnosis of an empty answer.
9. *(done)* `Export`: `cmd_search` and `cmd_export` over `Search`, with a writer.
10. *(done)* Proofs of every safety invariant and action property the passing runs check, and of
    the two refinements (section 6).

What could still be stated and proved: a composition of `Extraction` with `Orchestrator`, in which the
items of a unit are those a parser yields, and of `Storage` with `Ledger`, in which the commit that a
power failure takes is a transaction of two tables. Today these seams are argued in section 3.

## 3. Modules

| module | models |
|---|---|
| `Mailboxes` | the data `Catalog` and `Orchestrator` share: units, what parsing a version of one yields, the rows of `mails` and the upsert |
| `Catalog` | the promise of indexing, without processes: a table, and for each unit the version it is settled at |
| `Orchestrator` | `run_index`, `plan_files`, `_worker_main`, the log, the table, and their environment; implements `Catalog` |
| `MailTable` | the promise of `upsert_batch`: a batch goes into the table whole |
| `Storage` | `upsert_batch` statement by statement for several writers; implements `MailTable` |
| `StateLog` | `StateManager` at the level of files |
| `Ledger` | which units a run may pass over: `should_skip` over runs, databases and failures; extends `StateLog` |
| `Extraction` | one worker: `resolve_parser`, the three parsers, `iter_batches`, the messages it puts |
| `Dates` | `parse_date_range` and `parse_size_filter`, and what a date value means day by day |
| `Query` | `parse_query`, `build_match_expression`, the WHERE, `verify_candidate`, `_diagnose`; extends `Dates` |
| `Search` | `MailSearchEngine.search`, its pages and its relevance order |
| `Export` | `cmd_search`, `cmd_export`, `export_csv`, `export_eml`; extends `Search` |
| `IndexWindow` | `IndexProgressDialog`, `start_index_thread`, `stop_index` |
| `Viewer` | the search tab of `EmailQuickscanApp`, `fetch_attachment` |
| `MC<module>` | the constants of the instances |
| `OrchestratorProofs` | proofs about `Orchestrator`, `Mailboxes` and `Catalog`, and that the first implements the last |
| `StorageProofs`, `LedgerProofs` | proofs about `Storage` and `MailTable`, about `StateLog` and `Ledger` |
| `ExtractionProofs`, `QueryProofs`, `SearchProofs`, `IndexWindowProofs`, `ViewerProofs` | proofs about `Extraction`, `Dates` and `Query`, `Search` and `Export`, `IndexWindow`, `Viewer` |

How they fit together. `Extraction` is where the items come from that `Orchestrator` takes as
given (`Content` in `Mailboxes`); its message kinds are those of `Orchestrator`. `Storage` is
where the one step `UpsertBatch` of `Orchestrator` comes from: `MailTable`'s step is `Upserted`
with a record for a mail. `StateLog` is where the one-step saves of `Orchestrator` come from.
`Ledger` is `Orchestrator` seen from the log: it keeps of a run only the plan, the reading, the
commit and the entries, takes each save apart as `StateLog` does, and adds what `Orchestrator` has
not, other databases, stamps that coincide and the loss of commits. `Search` rests on
`RowidNeverMoves` and `NewestFirst` of `Storage`, and composed with the commands that use it and
the writer that disturbs it, it is `Export`; `Viewer` rests on `Query` and `Search` for what a query
finds; `IndexWindow` keeps of `Orchestrator` only what a dialog sees.

Mutation operators (marked `Mutation:` in the modules) are changed forms of the definitions
after them, the bugs the properties are there to catch; nothing in the modules uses them.

### `Orchestrator`

The main process is the program counter `mpc`:

| `mpc` | place in `run_index` | actions that leave it |
|---|---|---|
| `idle` | not running | `StartRun` |
| `planning` | `plan_files` and the planning loop (261-297) | `PlanFile`, `NothingToDo`, `StartWorkers` |
| `opening` | engine and error log (306-307) | `OpenStorage` |
| `top` | `while remaining`, the stop flag (314-317) | `LoopDone`, `StopRequested`, `Proceed` |
| `get` | `results_queue.get(timeout=0.5)` (319) | `Receive`, `Timeout` |
| `empty` | the handler of `queue.Empty` (320-327) | `GiveUp`, `KeepWaiting` |
| `handle` | a message is in hand (329-398) | `HandleNote`, `UpsertBatch`, `SettleDone`, `SettleFailed`, `UpsertFails` |
| `record` | the batch is committed, the log not yet saved (337-349) | `RecordBatch` |
| `cleanup` | the `finally` block (402-409) | `Finish` |

A worker is `off`, `idle` (before `file_queue.get`), `opening` (it has a path), `parsing`, or
`exited`/`dead`. `chan[w]` holds what it put and the main process has not got: a message sits
in the worker's feeder buffer or in the pipe, and the messages of one worker stay in order.
`slots` is the semaphore of the bounded queue. A worker that came to its end counts as alive until
its messages are in the pipe (`Flushed`), since a process joins its feeder thread before it ends.

`WorkerDies` is a death at any moment, and `left` what the dead leave behind. What the feeder had not
flushed is lost and its slots with it; every prefix may have been flushed. A worker killed in
`file_queue.get()` (177) may keep the read lock of that queue (`left.files`): no other worker takes
a path or a `None` any more. One killed while its feeder writes may keep the write lock of the
results queue (`left.lock`): of each worker, what is then in the pipe (`left.piped`) still arrives and
nothing more, and its message may be there in half (`left.half`): when all that is before it was
received, `get(timeout=0.5)` (319) finds a first byte, so that its time-out does not run any more,
and waits for the rest for ever. These are the queues of POSIX; on Windows the results queue has no write
lock and its messages arrive whole.

A put is one step with the change of the worker's state that follows it. The receipt, the
commit and the save of the log are separate steps, since a crash can fall between them.

Abstractions: a file is its version number, so its `(size, mtime)` stamp always changes with
it; a mail is its `message_id`; the parser of a unit in `Flaky` may be missing or may raise at
any point; `updated_at`, `last_batch_index`, error texts and event callbacks are left out. A
parser reads each item from the file as it is at that moment (readpst reads a snapshot taken
when it opens; for a file that does not change, all that the properties speak of, that is the
same). Workers orphaned by an exception before the `try` of line 313 are taken to be gone.

### `Storage`

`pc[w]` of a writer: `begin` (before `BEGIN IMMEDIATE`), `row` (record `pos[w]` of the loop in
`_upsert_batch_once`, or the COMMIT after the last), `returned`, `raised`. `tx` is what the
open transaction has made of the two tables; readers see `mails` and `fts`. `redated` is a history, the
mails whose date a later record changed, which `tx` carries too since a rollback undoes the change. `StoreRecord` is
one turn of the loop with all its statements: existence, rowid, the upsert into `mails`, the
replacement of the FTS row, the counters. `MeetsLock` is where `sqlite3.OperationalError` with
"locked" or "busy" can come up: at BEGIN always (another writer, or a connection that is none
of ours), later only when the file refused WAL (`wal`), since readers then lock the writer
out. `Retry`, `GiveUp` and `Error` are the three ways on from an exception, each with the
ROLLBACK. `ResolveRowid` and `ComputeRowid` are exact, over a `BandSize` smaller than 2^20.

### `StateLog`

Names point to inodes. `Load`, then for each save `OpenTmp` (set, and the `open("w")` that
truncates or makes the file), `Write` (dump, flush, fsync), `Replace` (`os.replace`); between
any two of them a kill or the steps of another run. Two runs in one process have one temporary
name; if one opens the file the other is writing, or writes after the other, what is in it may
not be JSON; if one renames it away the other's `os.replace` raises (`ReplaceFails`). A log that
is not JSON is loaded as nothing. `data[s]` is what the saver has in memory; what the entries say
is left to `Ledger`. `together`, `sharing` and `orphaned` are histories for the properties.

`save` syncs the file and not the directory it is renamed in (`state.py:79-80`), so a rename is
durable at some later time. `earlier` has what each log held that was replaced since the last
power failure; `Outage` ends every process and shows the last log or any of these, or none. Named
abstractions: a temporary file stays through an outage as it is, though it too may be undone or come
back (the next `open(.., "w")` empties it or makes it, so no run can tell); and a replaced log
returns as it was when it was replaced.

### `Ledger`

`job[s].stage` is the place of run `s` in `run_index`:

| `stage` | place | actions that leave it |
|---|---|---|
| `none` | no run | `Start` |
| `planning` | before `should_skip` (`orchestrator.py:141`) | `Skip`, `Plan`, `Fail` |
| `handed` | the unit is `PARSING`, saved, and in the file queue | `Read`, `Fail` |
| `read` | its batch is in the results queue | `Commit` |
| `committed` | `upsert_batch` has returned | `Record` |
| `recorded` | `WRITING` is saved | `Settle`, `Fail` |
| `skipped`, `over` | nothing is left to do | `Return` |

Each of `Skip`, `Plan`, `Record`, `Settle` and `Fail` opens the temporary file of a save, which `Save`
writes and renames; `Return` is every way out of a run, at any stage, an exception of the rename
included. `Die` kills a process. `PowerFailure` is an `Outage` of `StateLog`, which may bring an
earlier log back, and takes any of the commits since the last `Checkpoint` of each database: that
is what `synchronous=NORMAL` permits (`storage.py:197`). Its bound: none in the last run when that is
alone, since no run follows that could pass over anything.
`Change` makes a unit a later version; `Stamp` says what size and time each version has. An entry
`COMPLETED` remembers the version its stamp was taken of and, which the code does not write, the
database it was for: the properties need both, and `ShouldSkip` looks only at the stamps.

Named abstractions: one unit of one batch a run (`Orchestrator` has several of each); versions
only grow, so an old copy put back is a later version with the old stamp.

### `Extraction`

`pc`: `idle` (before `file_queue.get`), `opening` (inside the `with` statement), `extracting`
(readpst has run), `walking` (the parser is asked for the next message), `in hand`
(`iter_batches` has a message), `putting` and `noting` (it has yielded, the batch and then the
errors are put), `asked` (readpst is resumed and removes the file it yielded), and after the last message
`closing` (the end of the `with` statement) and `reporting` ("done" is put); `over` tells the last yield
from the others. A kill may fall between any two of these.
`written` is `total_written` of `_worker_main`, the count that "done" carries (`orchestrator.py:188-200`).
`Usable` is the four-step choice of `resolve_parser`. The temporary directory is `dir`, `files`,
`stuck` (could not be removed) and `left` (outlived its unit). An exception may come up at
every call of the parser (`Faults`).

### `Dates`

`ParseDateRange` is `parse_date_range` over days counted from the first of January of the year 1
(`Ordinal`, `Civil`), with `DayLength` moments a day instead of 86400: an interval `[after, before)`
with a side that may be `None`, or the exception `datetime()` raises. `MeansMoment`, `MeansAfter` and
`MeansBefore` say the same from the documentation (`USAGE.md:281-291`), as a set of days with a name
for each and no arithmetic of intervals; they are what `Query` compares with. `IsDate` and `IsSize` are
what the regular expressions let through. The parts of a range are no ranges themselves (of `a..b..c`,
of which no document speaks, the code takes the start of `a` and the end of `c`).

### `Query`

A session is a user: tokens to write a query with, mails, a time. The loop of `parse_query` is
one action a token (`ReadTerm`, `ReadFolder`, `ReadFilter`, `ReadRaises`, `ReadAnd`, `ReadOr`,
`ReadNot`), over `clauses`, `pendingOr`, `pendingNot`, `folders` and `settings`; so every query of up to `LengthOf` tokens
is a behaviour, and every state of it is a query. `Sets` is what the value of a condition sets;
one that sets nothing is ignored with a warning, a later one replaces an earlier one, and
`ValueRaises` is where an exception leaves `parse_query`. `MatchExpr` is what SQLite evaluates over
the bigrams a mail holds, `Where` the conditions, `Verify` the look at the text, `Found` all three.
`BlamedTerms` and `BlamedConditions` are what `_diagnose` marks when nothing is found.

`Meant` is the reference: the meaning of the tokens as the user wrote them, from the tables of
`README.md` and chapter 4 of `USAGE.md`, for the queries these speak of (`WellFormed`: operators between
what they can join, values in a documented form that exist, no condition made twice). It is
defined over `read`, not over what the parser made of it.

### `Search`

`Search` or `NextPage` is the scan, one SELECT cut at `ScanLimit`; then `Verify` and `VerifyWhole` look
at each candidate with a SELECT of its own, and `Return` cuts the page. `ReturnSorted` cuts it
likewise and then orders it by a SELECT over the page with the MATCH expression (`_bm25_sort`), from
which a row that was rewritten meanwhile may be missing; equal scores come in any order. `Write`
is a commit of an indexing run between any two of them.

### `Export`

`command` is the command that was given. `ExportSearch` and `ExportSearches` are the search of
`cmd_export` with its own limit, `ExportHits` its second SELECT, by the rowids of the hits, and the
writing of a CSV file or of `.eml` files, `ExportAll` the same of the whole table. `ExportNothing` and
`ExportRaises` are its early return and the exception of more placeholders than SQLite takes.
`files` are the rows by the name of their file, so that two with one `_safe_filename` are one.

### `IndexWindow`

A run is `planning`, `top`, `get`, then `finished`, `stopped` or `failed`; a window is `open`, `done` or
`closed`. `Open` is the file dialog with the start of the thread, which clears the flag `stop`
that all runs share; `Poll` takes all the events there are and counts those of chosen paths.
`discover_targets` may report a path under another spelling or drop it (`Reported`).

### `Viewer`

One action for each callback of the window: `Type`, `ToggleFolder`, `ClearFolders` arm the timer,
`Fire` is a pending `_run_search`, `SelectRow`, `OpenDb`, `IndexFinished`, and the two halves of
`_save_attachment` around its file dialog (`AskWhere`, `SaveAttachment`), during which the event loop
goes on. `timers` counts the calls that are pending and `job` says whether `_debounce_job` knows
of the last: a `_run_search` made by other callbacks forgets it without cancelling it. `RunSearch`
is the whole of `_run_search` and `_populate_results`: the engine opened when there is none, the
menu with the ticks it keeps, the filter by folders and the cut, the list, the first row
selected and shown. A mailbox is a sequence of mails, a locator an index into it.

## 4. Runs

| run | instance | what it shows | states |
|---|---|---|---|
| `faults` | 1 worker, 2 units of 2 versions, 2 runs, crash, exception, Ctrl+C, stop | the log never claims more than the table holds (`CompletedIsIndexed`, `SkippedIsIndexed`), rows stay unique (`OneRowPerMail`), counts are of one pass (`WrittenIsExact`), a settled unit stays settled (`SettledStaysSettled`), every step is one of `Catalog` (`ImplementsCatalog`) | 236 000 |
| `pool` | 2 workers, one of which may die, stop, fairness | all units accounted for (`SummaryAccountsForAll`); the queue bounded (`Backpressure`); the run ends unless a dead worker holds it (`RunEndsUnlessTheDeadHoldIt`) | 370 000 |
| `storage` | 2 writers, 3 mails, 3 calls, one retry, errors, deaths, fairness | both tables and keys agree (`TablesAgree`), statistics are right (`InsertedAreTheRows`), rowid order is date order (`NewestFirst`), rowids stay (`RowidNeverMoves`), a batch goes in whole (`ImplementsMailTable`), every call ends (`CallEnds`) | 537 000 |
| `state` | 2 runs in one process or two, 2 databases, 2 units, one of 3 versions, kills, power failures that undo renames and commits | the log is whole unless a name was shared (`LogIsWhole`), no litter (`NoLitter`), no entry lost to a save or a kill while one run is under way (`NothingForgotten`), a unit passed over is in the database but for four named cases (`SkipIsJustified`) | 1 433 000 |
| `query` | all queries of 5 words and operators over all mails of 3 terms; all of 2 date values at 4 times; all of 3 of other conditions | what is found is what is meant, but for two exceptions (`FoundIsWhatIsMeant`); what an empty answer blames (`BlameIsExact`); an OR joins neighbours, but for what it reaches back over (`PairsAreNeighbours`), and none is lost (`EveryOrIsHonouredOrReported`) | 412 000 |
| `search_pages` | 4 rowids, pages of two, searches and exports, 2 writes | no mail twice (`NoHitTwice`), none skipped (`NothingIsSkipped`), `more_available` true (`MoreIsTrue`), relevance has the best of the newest, where they fit (`BestOfTheNewest`), an export has what was found (`ExportIsWhatWasFound`) | 1 157 000 |
| `window` | 2 dialogs, 5 spellings, a run that raises, fairness | the count is exact (`CountIsExact`), a stop is obeyed (`StopTakesEffect`, `StopEndsTheRun`), the window completes (`WindowCompletes`) | 54 000 |
| `extraction` | 5 units of every shape, all 16 choices of software, every fault | nothing lost between parser and queue (`NothingInBetween`); done is whole and its batches full (`DoneIsWhole`); the disk is clean (`ReadIsDeleted`, `OnlyFailuresStay`) | 284 000 |
| `viewer` | 2 databases, 2 queries, 2 folders, 2 timers, every call may fail | list (`ListIsOfTheInput`, `NothingIsHiddenUnsaid`), preview and records (`HeldIsOfTheScreen`) are of the input and the database on the screen | 168 000 |
| `write_failure` *(violation)* | exceptions | finding 1 | |
| `short_or` *(violation)* | as `query` | finding 2 | |
| `attachment` *(violation)* | one database, one change of its mailbox | finding 3 | |

Why the bounds are enough.

* `Orchestrator`. Two units that share a mail are the smallest case in which messages of
  different files interleave and one row changes its source; the first has two batches (so a
  run can end between them) and its second version loses a mail and gains one; the second has
  an error list, may fail, and becomes empty. Two versions allow a modification at any point;
  two runs allow a run to meet the leftovers of any other. With two workers up to eight
  messages compete for four slots, so the queue does fill up. `MaxRuns`, `MaxDeaths` and
  `MaxVersion` are guards of `StartRun`, `WorkerDies` and `Modify`.
* `Storage`. Two mails of one second collide, and the probed id of the second is the first choice
  of a third; a batch names a mail twice, another brings a mail with a new date and then with the
  old one again. Three calls of two writers let one be rolled back while the other is between two attempts.
* `StateLog`, `Ledger`. Two runs, at once or one after the other, and a log and a database that a
  run before them may have completed, so that there are three runs in a row. Of the versions of
  one unit the second cannot be told from the first (same size, one second apart, `Tolerance` two)
  and the third can from the first but not from the second, so that a run may stamp a version it
  passes over later; the other unit never changes, so that its entry must survive the runs of the
  first. `MaxRuns` is a guard of `Start`.
* `Query`. A term that contains another, so that bigrams do not decide; a term without a bigram.
  Five tokens hold an OR of two words with a negated word or a condition on either side. Dates:
  each documented form of value in each of `date:`, `after:` and `before:`, and two conditions together,
  with a mail in each half of each day about the ends of 2023 and 2024 and of a leap February, at
  times in the last and in the first day of a year and of a month; every value begins and ends in
  those days. Conditions: tables with no mail, one, and two that meet different conditions.
* `Search`, `Export`. `ScanLimit` 3 under 4 rowids: scans that are cut and scans that are not; pages of
  two, so that relevance has something to order; two writes can change a row before and after it
  is looked at. `ExportLimit` 4 is met by four hits and `VariableLimit` 3 is exceeded by them; two of
  the mails make one file name.
* `IndexWindow`. A dialog with two files, one with a file reported under another name, one whose
  file is dropped, so that a second run starts and ends while the first goes on.
* `Extraction`. A batch of two over five and three messages is filled once, filled twice and ends
  in the middle, with every fate at its edges.
* `Viewer`. A page of one row is less than a database holds; two timers are pending once one was
  forgotten. One attachment is saved (`AskWhere`), mailboxes change once.

`CHECK_DEADLOCK FALSE` stands in the cfgs of systems that really stop: after the last run, call,
export or token, when the windows are closed, or when the file queue is empty. The search tab
never stops; its runs are checked for deadlock. Symmetry (of savers, processes and databases) is
used in `state`, which checks no liveness.

Fairness. `pool` assumes weak fairness of the main process and of each worker: the operating
system runs every process that can run. A `put` on a full queue resumes when there is a slot,
and the main process takes a message each round, so weak fairness suffices. After a death it is still
only of what can run: a process that waits for what the dead hold is disabled in the model, not slow. `storage` assumes weak
fairness of each writer's own steps, in which meeting a lock is one: it is what is bounded by
`RetryMax`. `window` assumes it of each run thread and of each `_poll`, which `after` puts into the
event loop again. The environment is not assumed fair: no death, stop, crash, modification,
click or error has to happen. Where a liveness property has an exception it is named in it:
`RunEndsUnlessTheDeadHoldIt` (a worker can die with all four slots in its feeder buffer, with the
read lock of the file queue or with the write lock of the results queue: another worker then waits
for ever, stays alive, and the main process polls for ever, until the stop button ends the run; or
it leaves half of a message, and the main process waits for the rest, where no stop button reaches it),
`StopEndsTheRun` (another run started meanwhile clears the flag), `WindowCompletes` (only for a run
that came to its end, and for paths that come back as they were spelled).

One type invariant is checked and proved, `TypeOK` of `Orchestrator`; the other modules state only
what relates pieces of their state.

## 5. Findings and other divergences

Three runs exhibit a disagreement of the code with what the repository says of it:

1. *Write failure* (`orchestrator.py:399`). `state.py:10-11` and `README.md:355` say that when the
   retries of `upsert_batch` are used up the file is left `FAILED`. `run_index` catches only
   `KeyboardInterrupt`: the exception leaves the loop, all files included, and the file stays
   `PARSING` or `WRITING`. The next run reads it again, so no mail is lost by it.
2. *Short OR* (`search.py:396`). Of an OR pair with one side too short for a bigram only the other
   side goes into the MATCH expression: `ab OR x` does not find a mail that contains only `x`.
   `USAGE.md:301`: one of the two.
3. *Attachment* (`gui.py:375`). A mail previewed before its mailbox was reordered and indexed again
   keeps its old locator in the window, and the attachment of another mail is saved. A new
   indexing run does not clear the cache (`gui.py:497-499`), only another database does.

Divergences met while modelling that the modules contain, but no run is about:

* A mail whose date changes keeps the rowid of its old date (`storage.py:343`), while `README.md:109-111`
  takes rowid order for date order. `NewestFirst` excepts these mails (`redated`).
* The probe for a free rowid stays in the band of its second, says the comment at `storage.py:354`;
  nothing stops it at the end of the band, and a mail may get a rowid of the next second. It takes as
  many mails of one second as there are ids from a hash on. `NewestFirst` excepts a mail whose second
  has no id left from its hash on (`HasRoom`).
* Two runs of one process share the temporary file of the log, so that a kill or an overlap can
  leave a half-written log in spite of `state.py:70-72`. `LogIsWhole` excepts them.
* NOT of a word excludes every mail that has all its bigrams, with or without the word
  (`search.py:413`; `USAGE.md:302`). `FoundIsWhatIsMeant` excepts these mails (`NotTooWide`).
* A NOT that stands before a filter survives it and negates the next word (`search.py:206`).
* An OR takes the last word before it, even with a folder or filters in between (`search.py:218`), and
  leaves no warning, though OR joins adjacent single terms only (`README.md:59`, `search.py:11-12`):
  `A folder:X OR B` finds mails with either word. `PairsAreNeighbours` excepts just these
  (`ReachesBack`). And OR between two folders, which `USAGE.md:269-270` recommends,
  works but leaves a warning (`search.py:214`).
* `hasattachment:` with a value that is no boolean is ignored without a warning (`search.py:159`;
  `search.py:129-131`).
* Relevance order cuts the page by date before it sorts it (`search.py:539`): where more of the newest
  `relevance_candidates` mails match than fit, the page has the newest of them in order of their
  scores, and not the best, as in `README.md:106`, `README.md:358-360`, `default.yaml:32-35` and
  `USAGE.md:316-317`. `BestOfTheNewest` states what the documents do and excepts which matches are
  on such a page (`DateCutsThePage`).
* `parse_query` raises for a date that does not exist (`date:2026-13`, `date:2023-02-29`), for the year
  9999, for a time ago before the year 1 and for a size with two dots (`search.py:306-324`,
  `search.py:339`), though it says it never does (`search.py:127-132`). `ReadRaises`; the queries are not
  `WellFormed`.
* Of two conditions on one side of the date the later replaces the earlier (`after:2024-03 date:2024`),
  though a space means that both hold (`USAGE.md:300`). The same for two sizes, two `file:` and two
  `hasattachment:`.
* The text of `folder:` and `file:` goes into LIKE as it is (`search.py:593`): `_` and `%` in it match
  anything. The model has folders and files as whole values.
* The diagnosis counts neither sizes, files, ORs, NOTs nor words of one letter (`search.py:672-719`;
  `README.md:71-73` has every condition). `BlameIsExact` is about those it counts.
* Days are days of UTC, `today` included.
* An export of more hits than SQLite takes placeholders raises (`cli.py:277`), and of the mails whose
  ids make one file name the last overwrites the others, while the count has them all
  (`storage.py:467-469`). `ExportIsWhatWasFound` excepts both.
* "Only new or changed files are processed" (`USAGE.md:195`): a change that leaves the size and moves
  the time by less than a second is passed over; so is a unit that was completed for another
  database with the same log, and one whose rows a power failure took. `SkipIsJustified` excepts
  just these, and a unit that two runs were at at once.
* `load_config` raises for values of a wrong type (`config.py:277-292`), in spite of its docstring
  (`config.py:264-265`). Read, not modelled.
* Starting a run clears the stop flag another run has not seen yet (`gui.py:483`).
* After `queue.Empty` the workers are looked at without another look at the queue
  (`orchestrator.py:321-323`): the last one may put its last message and exit in between, and the run
  gives up with a message unread. The unit is read again by the next run.
* The resolver finds a `readpst` beside the program (`resolver.py:79-90`) that `ReadpstParser.open`,
  which looks only in the path, refuses (`parsers/readpst_parser.py:53`). A failing open makes the
  unit fail (`resolver.py:10-14`); `parsers/base.py:5-7` says the next parser would be tried. And its
  temporary directory stays, since `with` does not close what did not open.
* The list of errors is emptied only with a full batch, so it grows with a unit of which nothing
  can be normalised (`indexer.py:38-39` has all lists bounded); messages a parser cannot read are
  logged, but not in `errors.jsonl` (`USAGE.md:236`, `USAGE.md:359`).
* When folders are ticked, rows beyond the page are cut after the filter and nothing says so
  (`gui.py:247-248`); a failed `list_folders` loses the ticks (`gui.py:177-187`); the status line says
  a database was opened when it was not (`gui.py:83`).
* Rows are never deleted, so a mail that left its mailbox keeps a locator that names another.

## 6. Proofs

Every safety invariant and every action property that the passing runs check is proved by TLAPS,
for every value of the constants: any units, mails, workers, writers, savers, processes,
databases, dialogs, queries, contents, stamps, hashes and bounds. So are the two refinements. The proofs
rest on the assumptions of the modules and on nothing else; TLC evaluates them in the runs. They are

* that sets are finite where a number of their members is taken: the units, workers, savers, rowids
  (`OrchestratorAssumption`, `StateLogAssumption`, `SearchAssumption`), the paths of one dialog
  (`IndexWindowAssumption`), the mails of the window (`ViewerAssumption`);
* what the data are: parsing yields a sequence of items (`ContentAssumption`, `ExtractionAssumption`), a
  hash is within its band (`StorageAssumption`), a version has a stamp (`LedgerAssumption`), bounds and
  limits are numbers, positive ones where the code has them positive (`ExportAssumption` and those above);
* of `Search`, that a mail that matches is a candidate; of `Query`, why that is so: a text with a term in
  it has the bigrams of the term (`SupersetAssumption`); and the values conditions may have, as the
  regular expressions and the tables of names let them through (`QueryAssumption`);
* of `Dates`, that the days that are looked at end before the year 9999, whose end is no date
  (`DatesAssumption`).

| theorem | module | says |
|---|---|---|
| `TypeCorrect` | `OrchestratorProofs` | `Spec => []TypeOK` |
| `CompletedAlwaysIndexed` | | `Spec => []CompletedIsIndexed` |
| `SkippedAlwaysIndexed` | | `Spec => []SkippedIsIndexed` |
| `OneRow` | | `Spec => []OneRowPerMail` |
| `WrittenAlwaysExact` | | `Spec => []WrittenIsExact` |
| `StaysSettled` | | `Spec => SettledStaysSettled` |
| `SummaryAccounts` | | `Spec => []SummaryAccountsForAll` |
| `BackpressureHolds` | | `Spec => []Backpressure` |
| `Implements` | | `Spec => ImplementsCatalog`: the runs refine `Catalog` |
| `PromiseKept` | | `Abstract!Spec => []Abstract!SettledIsHeld`, of `Catalog` alone |
| `RunKeepsPromise` | | `Spec => []Abstract!SettledIsHeld`, from the two above |
| `TablesAlwaysAgree` | `StorageProofs` | `Spec => []TablesAgree` |
| `CountsAreRows` | | `Spec => []InsertedAreTheRows` |
| `RowidsAreNewestFirst` | | `Spec => []NewestFirst` |
| `RowidsStay` | | `Spec => RowidNeverMoves` |
| `StorageImplements` | | `Spec => ImplementsMailTable`: a batch goes in whole or not at all |
| `LogAlwaysWhole` | `LedgerProofs` | `LedgerSpec => []LogIsWhole` |
| `NeverLitter` | | `LedgerSpec => []NoLitter` |
| `SkipsAreJustified` | | `LedgerSpec => SkipIsJustified` |
| `NothingIsForgotten` | | `LedgerSpec => NothingForgotten` |
| `NothingIsLostInBetween` | `ExtractionProofs` | `Spec => []NothingInBetween` |
| `DoneMeansDelivered` | | `Spec => []DoneIsWhole` |
| `FilesGoAsTheyAreRead` | | `Spec => []ReadIsDeleted` |
| `DirectoriesGoWithTheUnit` | | `Spec => OnlyFailuresStay` |
| `FindsWhatIsMeant` | `QueryProofs` | `Spec => []FoundIsWhatIsMeant` |
| `BlamesExactly` | | `Spec => []BlameIsExact` |
| `AnOrJoinsNeighbours` | | `Spec => []PairsAreNeighbours` |
| `NoOrIsForgotten` | | `Spec => []EveryOrIsHonouredOrReported` |
| `PagesGoDown` | `SearchProofs` | `ExportSpec => []NoHitTwice` |
| `PagesAreWhole` | | `ExportSpec => []NothingIsSkipped` |
| `MoreTells` | | `ExportSpec => []MoreIsTrue` |
| `RelevanceIsBestOfTheNewest` | | `ExportSpec => []BestOfTheNewest` |
| `ExportHasWhatWasFound` | | `ExportSpec => []ExportIsWhatWasFound` |
| `CountingIsExact` | `IndexWindowProofs` | `Spec => []CountIsExact` |
| `StopIsSoon` | | `Spec => []StopTakesEffect` |
| `HeldAlwaysOfTheScreen` | `ViewerProofs` | `Spec => []HeldIsOfTheScreen` |
| `ListAlwaysOfTheInput` | | `Spec => []ListIsOfTheInput` |
| `NothingIsEverHiddenUnsaid` | | `Spec => []NothingIsHiddenUnsaid` |

Where a proof needs an
induction (over the messages on their way, the members of a sequence, the days of a year), it is
made by a least counterexample in a well-founded order (`WFMin`), or by a function of the data that is
carried along in the invariant (`Tally`, `IsFlat`): the provers cannot instantiate an induction theorem.

### `Orchestrator`

`CompletedIsIndexed` is not inductive: that the table holds all mails of a unit
when its "done" is handled depends on what was put, where it travels, and which version it was
read from. The inductive invariant `IInv` adds

* `PoolInv`: what is in flight is about the jobs of this run, and a batch was read from a
  version between the one stamped in planning and the present one. So for a unit that has not
  changed since its stamp, every batch in flight is of the present version.
* `PlanInv`: stamps are of versions the unit has had, and the log of a job carries the stamp of
  this run. So an upsert can never make an old `COMPLETED` entry wrong: the entries of jobs
  carry this run's stamp, and those of other units are not touched by batches of another
  version.
* `CoverInv`: every mail a worker has read of an unchanged unit is *covered*: it is fresh in
  the table, in the hand of the main process, or in a message of that worker. For a "done" in a
  queue the cover lies before it, so when "done" reaches the main process it is all in the
  table. This is where the order of puts, the single queue and "commit before save" matter.

`CoverStep` is proved per kind of step: quiet steps, steps of a worker that puts (`CoverPut`),
`Receive` (a message moves from a queue to the hand), `UpsertBatch` (the hand to the table).
TLC checked `IInv` on instances before it was proved. The refinement uses `IInv` again: `UpsertBatch` maps to `Store`, `SettleDone` to `Settle`, planning,
`RecordBatch` and `SettleFailed` to `Unsettle`, all else to stutters.

That a settled unit stays settled is a matter of order, not of contents, and has an invariant of
its own, `OrderInv`: while the loop runs, a queued path is nobody's; a unit is with one worker; the
closing message of a unit is the last of it in its worker's channel; once that is handled nothing
of the unit is queued or in flight; and a settled unit is quiet. So a message in hand is never of
a settled unit. On top of it `Accounts` follows the summary: the plan splits the targets into
skipped, failed and jobs, and while the loop runs a job is remaining or counted as what the log
says of it.

`WrittenIsExact` is that of `CoverInv` with numbers, and needs `OrderInv` for it: the counter of a unit,
the batch in hand and the batches on their way add up to the mails read (`CountInv`). The sum
over the messages of a channel is said by a function that grows with each of them (`Tally`); for a "done"
on its way it is what lies before it that adds up to the whole unit.

`Backpressure`: a message put has taken a slot and gives it back when it is got, so the free slots
and the messages in flight are never more than there were slots (`SlotInv`); what a dead worker took
with it stays away, which can only make them fewer.

### `Storage`

The invariant ties an open transaction to the table it began from (`Transaction`): at record `n` it
is the committed table with the first `n - 1` records of the batch applied (`Partly`), up to rowids.
At COMMIT that is the whole batch, which is the step of `MailTable`. `Locked` has one transaction at a
time, so that the committed table is still under it. The two tables are twins and the keys unique
in the committed tables as well as inside the transaction; `StoreOne` says that one turn of the loop
then replaces or adds just the row of its mail, and `ProbeIsFree` that the probe ends at an id no
row has, since the table is finite. `Counts` has the mails counted by finished calls be the rows, and, in
WAL mode, nothing counted by an attempt that is about to be made again.

`NewestFirst` follows from where the rows are (`PlaceInv`): but for the redated mails each is at the id
of its date and hash, or after it with no id between them left (`PlacedAt`). Rows are not deleted, so
that remains. If now two rows were out of the order of their dates, the one of the earlier date would be
past the end of its second, with every id from its hash to that end taken: no room.

### `StateLog` and `Ledger`

`FileInv` is about names. As long as no two runs of one process were under way, each run has a
process of its own (`Apart`), no file has two names (`OneName`), and a saver finds under its temporary
name what it has put there (`Mine`); a temporary file belongs to a save under way or to one that
was killed (`Owned`).

`SkipIsJustified` needs to know that no copy of the log lies. An entry is copied from memory to a
file, to the log, to the memory of a later run, a run may save a copy that is long out of date,
and a power failure may bring one back. So `LedgerInv` speaks of every copy there is: what it has as `COMPLETED` for a database is
`Truthful`, that is, the rows are of that version or a later one, or the power failure took them, or
two runs were at the unit at once. Only a commit of an older reading could make such a copy lie;
`Ahead` excludes it: a run that has read a unit is the only one at it (`Alone`), and when it read
no copy had a version later than the one on the disk. So of a unit that is passed over the entry
has the version on the disk, and then the rows have it too, or it has an older one, and then the
stamps hide the change.
`KeepInv` is for `NothingForgotten`: as long as one run was under way at a time, what the run has in
memory is the log, but for its own unit. `NothingIsForgotten` is about saves, ends of runs and kills:
a power failure may undo renames, and then entries are gone. What still holds then is
`LogIsWhole` and, since `Truthful` is of every copy that may return, `SkipIsJustified`: such a
failure costs a second reading of a unit and never a wrong skip.

### `Extraction`

`NothingInBetween` and `DoneIsWhole` are two halves of one invariant (`Told`): what was put of a unit,
one message after another, and then what is held is what was read, in order. To it belong that what is
held is less than a batch until one is yielded (`HeldBack`), that nothing final was said of the unit in
hand, that its batches are full until the walk is over, and that `written` is the number of its mails put
(`Current`). What is put after the walk may be smaller; from there on nothing raises, so that no unit with
a smaller batch fails, though its worker may be killed before it says "done". That `FlattenSeq`
of a sequence with a message more is that of the sequence with the message's items more
(`FlattenMore`) is proved from its definition. `ReadIsDeleted` is inductive with `Temporary`: the
directory is there from the extraction to the end of the unit. `OnlyFailuresStay` rests on `Gone`, which is
inductive on top: a directory that stays while its unit goes on was left by `close`, over a file
that could not be removed.

### `Dates` and `Query`

`QueryInv` is for the properties of whatever is typed. The flag of the loop says whether an OR waits
(`OrIsPending`); a last clause that an OR may take is of the last word (`LastIsOfLastWord`), which is why
nothing but conditions that make no clause is between the words of a pair it makes; and the conditions with an OR before them are as many as the pairs
and the warnings (`OrsAreCounted`).

`LoopInv` says what the state of the loop says of the query as written. The clauses have `Homes`: a
strictly growing list of the words that head them, such that a word heads no clause exactly if it
has joined the one of the word before it (`Joins`), and each clause is that of its word, with the
negation that stands in front of it, and of the one that joined it. The folders are those named,
a setting is that of the last condition that sets it, and an exception had a value that raises.
In a `WellFormed` query an OR has two words or two folders, and no two conditions set the same; then
clauses, folders and settings are just what the query means, one lemma for each kind of condition
(`AndTermsMean` and those after it, `DatesMean`, `SizeMeans`, ...).

Of the dates that takes a calendar: that years and months follow one another without a gap
(`NextJanuary`, `NextMonth`), so that `Civil`, which looks for a year and a month, finds those of the day
(`CivilIs`); that the interval the parser makes of a value has the moments of the days the value names,
and those days only (`SpanOfName` and the others), through the ends of weeks, Decembers and leap
Februaries; and so that a value in `date:` and in `after:` or `before:` means what the documentation has
(`DateMeans`, `AfterMeans`), ranges and times ago included.

### `Search` and `Export`

`SearchInv` follows a search from its scan to the end of its pages. What has passed and what is still
to come go down, below what was shown (`Sorted`, `ShownDown`); a wanted mail that stayed as it was is
shown, or passed, or to come, or passed and did not fit (`Kept`); what passed and stayed as it was is
wanted (`Sound`). Nothing is claimed of the rows a writer has touched since the search began.
`Answered` has what the last answer said of itself. `RankInv` is for `BestOfTheNewest`: a wanted mail
that was among the newest `relevance_candidates`, whatever rows were written since the scan
(`SurelyRanked`), is shown, or passed, or to come, and whatever was scanned may have been among
them (`PerhapsRanked`). `ExportInv` adds that the search of an export is
one call, whose hits are not looked for again, and `ExportIsWhatWasFound` is inductive with that.

### `IndexWindow`

`CountIsExact` relates the count to the events still in the queue: counted and waiting are the
chosen files that are settled. It needs that nothing happens before a dialog is opened (`Untouched`) and
that a unit is to plan, to read or settled, one of them (`Apart`), so that no file is counted
twice. `FlagIsUp`: unless another run cleared it, the flag is up for a run that was asked to stop, and
one that has handled a message since is about to look at it.

### `Viewer`

The invariant adds to the three properties that the search engine in use is one of the open
database, and that a timer known as pending is pending. Every callback is shown to leave
records of that database and a preview of the selected mail (`HeldOf`), and a list that is full, or
speaks of more, or has all that the search found in the ticked folders.

## 7. What is only model-checked, and what is not modelled

Only model-checked is liveness under fairness, which is out of the prover's reach:
`RunEndsUnlessTheDeadHoldIt`, `CallEnds`, `StopEndsTheRun` and `WindowCompletes`; and so are the three
disagreements of section 5, which are counterexamples.

Not modelled:

* `config.py` reads settings and keeps no state: they are the CONSTANTS of the modules that use them.
* `encoding.py`, `_normalize` beyond whether it raises, MAPI and MIME decoding, body compression, the
  text of a CSV row or an EML file, highlighting: conversions.
* Argument parsing and printing of `cli.py`, widgets, the log viewer, the build scripts.
* The export dialog of the window (`gui.py:396-466`): after its file dialog it reads the rows of the
  hits that are then listed, from the engine then open, in one callback; what these are is the
  subject of `ListIsOfTheInput` and `HeldIsOfTheScreen`, what the writing does to them that of `Export`.
* Globs and directory walks of `discover_targets`: the set of units they yield is a constant.
* Other failures of the disk than those named: a full disk, an SQLite file that is corrupted.
