------------------------------- MODULE Storage -------------------------------
(***************************************************************************)
(* MailStorageEngine.upsert_batch of storage.py: one transaction over the  *)
(* tables mails and mails_fts, a rowid that encodes the date and a hash of *)
(* the message_id, and a loop that tries again while the database is busy. *)
(*                                                                         *)
(* Several writers, each with a connection of its own: two indexing runs   *)
(* of the window, or a window and a command line.  SQLite gives one of     *)
(* them the write lock at BEGIN IMMEDIATE; the others get "database is     *)
(* locked" once the time-out of their connection has passed.               *)
(*                                                                         *)
(* Abstractions.  A record is its message_id, its date and a text that     *)
(* stands for all other columns; the FTS row holds the token stream of the *)
(* same text.  time.sleep is the other writers going on.                   *)
(***************************************************************************)
EXTENDS Integers, Sequences, Functions, FiniteSets

CONSTANTS
  Mails, Dates, Texts, Batches,   \* as in MailTable
  Hash,       \* Hash[m]: the low bits of the digest of message_id m
  BandSize,   \* 2^20: the rowids of one second
  RetryMax,   \* config.retry_max_attempts
  Writers,    \* the connections
  NoWriter,   \* "nobody": not a member of Writers
  Faults,     \* the environment events of an instance, a subset of AllFaults
  MaxCalls    \* bound: the number of calls

AllFaults == {"error", "die"}

Record == [mail : Mails, date : Dates, text : Texts]

ASSUME StorageAssumption ==
  /\ Dates \subseteq Int /\ Batches \subseteq Seq(Record)
  /\ BandSize \in Nat \ {0} /\ Hash \in [Mails -> 0..(BandSize - 1)]
  /\ RetryMax \in Nat /\ MaxCalls \in Nat
  /\ NoWriter \notin Writers
  /\ Faults \subseteq AllFaults

VARIABLES
  wal,       \* whether the file took PRAGMA journal_mode=WAL: some disks refuse it
  mails,     \* the committed rows of mails
  fts,       \* the committed rows of mails_fts
  lock,      \* who holds the write lock
  tx,        \* what the holder's transaction has made of the two tables, and of redated
  pc,        \* pc[w]: where the call of w is
  batch,     \* batch[w]: its records
  pos,       \* pos[w]: the record it is at
  attempt,   \* attempt[w]: attempt
  stats,     \* stats[w]: UpsertStats
  counted,   \* history: the sum of inserted over the calls that returned
  redated,   \* history: the mails whose date was changed by a later record
  calls

vars == <<wal, mails, fts, lock, tx, pc, batch, pos, attempt, stats, counted, redated, calls>>

Row    == [id : Int, mail : Mails, date : Dates, text : Texts]
FtsRow == [id : Int, text : Texts]
Stats  == [inserted : Nat, updated : Nat, retries : Nat]

NoTx      == [mails |-> {}, fts |-> {}, redated |-> {}]
ZeroStats == [inserted |-> 0, updated |-> 0, retries |-> 0]

-----------------------------------------------------------------------------
(* Rowids *)

\* compute_rowid.  Mutation: the hash above, the date below.
HashFirst(m, d)    == Hash[m] * BandSize + d
ComputeRowid(m, d) == d * BandSize + Hash[m]

\* The first id at or after c that no row has: the linear probe.  Among as many ids as
\* there are rows, and one more, one is free.
Free(rows, c)  == (c..(c + Cardinality(rows))) \ {r.id : r \in rows}
Probe(rows, c) == CHOOSE n \in Free(rows, c) : \A k \in Free(rows, c) : n <= k

\* _resolve_rowid.
ResolveRowid(rows, m, d) ==
  IF \E r \in rows : r.mail = m THEN (CHOOSE r \in rows : r.mail = m).id
                                ELSE Probe(rows, ComputeRowid(m, d))

-----------------------------------------------------------------------------
(* One record *)

\* _row_exists, before the INSERT.  Mutation: after it, when the row is always there.
ExistsAfter(rows, id) == TRUE
RowExists(rows, id)   == \E r \in rows : r.id = id

\* INSERT INTO mails .. ON CONFLICT(message_id) DO UPDATE, which leaves the rowid alone.
\* Mutation: the row of a mail whose date changes moves to the id of its new date.
MoveRow(rows, id, rec) ==
  {r \in rows : r.mail # rec.mail}
    \cup {[id |-> ComputeRowid(rec.mail, rec.date), mail |-> rec.mail,
           date |-> rec.date, text |-> rec.text]}
UpsertRow(rows, id, rec) ==
  {r \in rows : r.mail # rec.mail}
    \cup {[id |-> IF \E r \in rows : r.mail = rec.mail
                  THEN (CHOOSE r \in rows : r.mail = rec.mail).id ELSE id,
           mail |-> rec.mail, date |-> rec.date, text |-> rec.text]}

\* DELETE FROM mails_fts, then INSERT.  Mutation: without the DELETE.
AddTokens(rows, id, rec)     == rows \cup {[id |-> id, text |-> rec.text]}
ReplaceTokens(rows, id, rec) == {r \in rows : r.id # id} \cup {[id |-> id, text |-> rec.text]}

\* The mails whose date a record changes.
Redated(rows, rec) == {rec.mail : r \in {r \in rows : r.mail = rec.mail /\ r.date # rec.date}}

\* One turn of the loop over the records.  Mutation: no transaction is open, and what it
\* writes is committed as it goes.
StoreCommitting(w) ==
  LET rec == batch[w][pos[w]]
      id  == ResolveRowid(mails, rec.mail, rec.date)
  IN /\ pc[w] = "row" /\ pos[w] <= Len(batch[w])
     /\ mails' = UpsertRow(mails, id, rec)
     /\ fts' = ReplaceTokens(fts, id, rec)
     /\ tx' = [mails |-> mails', fts |-> fts', redated |-> tx.redated]
     /\ pos' = [pos EXCEPT ![w] = @ + 1]
     /\ UNCHANGED <<wal, lock, pc, batch, attempt, stats, counted, redated, calls>>
StoreRecord(w) ==
  LET rec == batch[w][pos[w]]
      id  == ResolveRowid(tx.mails, rec.mail, rec.date)
  IN /\ pc[w] = "row" /\ pos[w] <= Len(batch[w])
     /\ tx' = [mails |-> UpsertRow(tx.mails, id, rec),
               fts |-> ReplaceTokens(tx.fts, id, rec),
               redated |-> tx.redated \cup Redated(tx.mails, rec)]
     /\ stats' = IF RowExists(tx.mails, id)
                 THEN [stats EXCEPT ![w].updated = @ + 1]
                 ELSE [stats EXCEPT ![w].inserted = @ + 1]
     /\ pos' = [pos EXCEPT ![w] = @ + 1]
     /\ UNCHANGED <<wal, mails, fts, lock, pc, batch, attempt, counted, redated, calls>>

-----------------------------------------------------------------------------
(* One call of upsert_batch *)

Call(w, b) ==
  /\ pc[w] \in {"idle", "returned", "raised"} /\ calls < MaxCalls
  /\ calls' = calls + 1
  /\ batch' = [batch EXCEPT ![w] = b]
  /\ pc' = [pc EXCEPT ![w] = IF b = <<>> THEN "returned" ELSE "begin"]
  /\ pos' = [pos EXCEPT ![w] = 1]
  /\ attempt' = [attempt EXCEPT ![w] = 0]
  /\ stats' = [stats EXCEPT ![w] = ZeroStats]
  /\ UNCHANGED <<wal, mails, fts, lock, tx, counted, redated>>

\* BEGIN IMMEDIATE took the write lock.
Begin(w) ==
  /\ pc[w] = "begin" /\ lock = NoWriter
  /\ lock' = w
  /\ tx' = [mails |-> mails, fts |-> fts, redated |-> redated]
  /\ pos' = [pos EXCEPT ![w] = 1]
  /\ pc' = [pc EXCEPT ![w] = "row"]
  /\ UNCHANGED <<wal, mails, fts, batch, attempt, stats, counted, redated, calls>>

Commit(w) ==
  /\ pc[w] = "row" /\ pos[w] > Len(batch[w])
  /\ mails' = tx.mails /\ fts' = tx.fts
  /\ lock' = NoWriter /\ tx' = NoTx
  /\ counted' = counted + stats[w].inserted
  /\ redated' = tx.redated
  /\ pc' = [pc EXCEPT ![w] = "returned"]
  /\ UNCHANGED <<wal, batch, pos, attempt, stats, calls>>

\* A busy or locked database where the attempt of w is: at BEGIN because another writer
\* is in a transaction, or because of a connection that is none of ours; later than that
\* only without WAL, where readers lock writers out.
MeetsLock(w) == pc[w] = "begin" \/ (pc[w] = "row" /\ ~wal)

\* ROLLBACK, if the transaction of w is open.
Rollback(w) ==
  /\ lock' = IF lock = w THEN NoWriter ELSE lock
  /\ tx' = IF lock = w THEN NoTx ELSE tx

\* The attempt is made again, but not for ever.  Mutation: the attempts are not counted.
RetryForEver(w) ==
  /\ MeetsLock(w)
  /\ Rollback(w)
  /\ stats' = [stats EXCEPT ![w].retries = IF @ < RetryMax THEN @ + 1 ELSE @]
  /\ pc' = [pc EXCEPT ![w] = "begin"]
  /\ UNCHANGED <<wal, mails, fts, batch, pos, attempt, counted, redated, calls>>
Retry(w) ==
  /\ MeetsLock(w) /\ attempt[w] < RetryMax
  /\ Rollback(w)
  /\ attempt' = [attempt EXCEPT ![w] = @ + 1]
  /\ stats' = [stats EXCEPT ![w].retries = @ + 1]
  /\ pc' = [pc EXCEPT ![w] = "begin"]
  /\ UNCHANGED <<wal, mails, fts, batch, pos, counted, redated, calls>>

GiveUp(w) ==
  /\ MeetsLock(w) /\ attempt[w] >= RetryMax
  /\ Rollback(w)
  /\ pc' = [pc EXCEPT ![w] = "raised"]
  /\ UNCHANGED <<wal, mails, fts, batch, pos, attempt, stats, counted, redated, calls>>

-----------------------------------------------------------------------------
(* The environment *)

\* Any other exception inside the transaction: it is rolled back and leaves the loop.
Error(w) ==
  /\ "error" \in Faults /\ pc[w] = "row"
  /\ Rollback(w)
  /\ pc' = [pc EXCEPT ![w] = "raised"]
  /\ UNCHANGED <<wal, mails, fts, batch, pos, attempt, stats, counted, redated, calls>>

\* The process ends: SQLite drops its open transaction.
Die(w) ==
  /\ "die" \in Faults /\ pc[w] \in {"begin", "row"}
  /\ Rollback(w)
  /\ pc' = [pc EXCEPT ![w] = "idle"]
  /\ UNCHANGED <<wal, mails, fts, batch, pos, attempt, stats, counted, redated, calls>>

-----------------------------------------------------------------------------
Init ==
  /\ wal \in BOOLEAN
  /\ mails = {} /\ fts = {}
  /\ lock = NoWriter /\ tx = NoTx
  /\ pc = [w \in Writers |-> "idle"]
  /\ batch = [w \in Writers |-> <<>>]
  /\ pos = [w \in Writers |-> 1]
  /\ attempt = [w \in Writers |-> 0]
  /\ stats = [w \in Writers |-> ZeroStats]
  /\ counted = 0 /\ redated = {} /\ calls = 0

WriterStep(w) == Begin(w) \/ StoreRecord(w) \/ Commit(w) \/ Retry(w) \/ GiveUp(w)

Next ==
  \E w \in Writers : \/ \E b \in Batches : Call(w, b)
                     \/ WriterStep(w)
                     \/ Error(w) \/ Die(w)

Spec     == Init /\ [][Next]_vars
FairSpec == Spec /\ \A w \in Writers : WF_vars(WriterStep(w))

-----------------------------------------------------------------------------
(* Properties *)

\* Two tables agree: the same rowids, and under each the tokens of the row's own text.
Twins(rows, tokens) == tokens = {[id |-> r.id, text |-> r.text] : r \in rows}

\* No message_id and no rowid twice.
Keyed(rows) == \A r, s \in rows : r.mail = s.mail \/ r.id = s.id => r = s

\* What readers see, and what an open transaction would make of it, is a table and its
\* index over the same rows: search joins the two by rowid, and after a roll-back, a
\* death or a second attempt a mail must be found by the words it has now and by no other.
\* And both keys hold, whatever collides: the probe gives each mail of a second its own id.
TablesAgree ==
  /\ Twins(mails, fts) /\ Keyed(mails)
  /\ lock # NoWriter => Twins(tx.mails, tx.fts) /\ Keyed(tx.mails)

\* A mail keeps its rowid for ever: the page a reader goes on from (offset_rowid) and the
\* row it verifies after the scan stay those of the same mail.
RowidNeverMoves ==
  [][\A r \in mails : \E s \in mails' : s.id = r.id /\ s.mail = r.mail]_vars

\* A batch is in the table whole or not at all, however often it was tried.
Abstract == INSTANCE MailTable WITH
              table <- {[mail |-> r.mail, date |-> r.date, text |-> r.text] : r \in mails}
ImplementsMailTable == Abstract!Spec

\* The mails reported as inserted by the calls that returned are those in the table, if
\* the file is in WAL mode: without, an attempt undone after it has counted counts again.
InsertedAreTheRows == wal => counted = Cardinality(mails)

\* A newer mail has the greater rowid, so that ORDER BY rowid DESC is newest first
\* (storage.py:151-171), though mails collide; but for a mail read again with another
\* date, which keeps the rowid of the first, and for one whose second has no id left from
\* its hash on, which the probe may have carried into the next second.
HasRoom(m, d) ==
  \E n \in ComputeRowid(m, d)..(d * BandSize + BandSize - 1) : \A r \in mails : r.id # n
NewestFirst ==
  \A r, s \in mails :
    r.date < s.date /\ {r.mail, s.mail} \cap redated = {} /\ HasRoom(r.mail, r.date)
      => r.id < s.id

\* Every call returns or raises: nobody waits for a lock for ever.
CallEnds ==
  \A w \in Writers : pc[w] \in {"begin", "row"} ~> pc[w] \in {"idle", "returned", "raised"}
=============================================================================
