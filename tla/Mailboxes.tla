------------------------------ MODULE Mailboxes ------------------------------
(***************************************************************************)
(* The data of pst_engine that its modules share: the indexing units, what *)
(* parsing one yields, and the mails table it is written to.               *)
(*                                                                         *)
(* A unit's (size, mtime) stamp is the number of the version it holds, so  *)
(* a modification always changes the stamp.  A mail is its message_id; its *)
(* row records which version of which unit it was last read from.          *)
(***************************************************************************)
EXTENDS Integers, Sequences, Functions

CONSTANTS
  Files,       \* indexing units: a PST/OST file or a directory of .msg files
  Mails,       \* message_ids
  Content,     \* Content[f][v]: what parsing f yields while it holds version v
  MaxVersion   \* bound: the last version of a unit

\* One put of the loop over iter_batches: a batch of records, or the errors met.
Item == [kind : {"batch"}, mails : Seq(Mails)] \cup [kind : {"errors"}, mails : {<<>>}]

ASSUME ContentAssumption ==
  /\ MaxVersion \in Nat \ {0}
  /\ Content \in [Files -> [1..MaxVersion -> Seq(Item)]]

\* A row of mails: its key, and the source columns of its last upsert.
Row == [mail : Mails, file : Files, version : Nat]

\* The mails among the first n items of unit f at version v, and all of them.
MailsIn(f, v, n) == UNION {Range(Content[f][v][i].mails) : i \in 1..n}
MailsOf(f, v)    == MailsIn(f, v, Len(Content[f][v]))

\* The places of the records in the first n items of unit f at version v, and in all.
YieldedTo(f, v, n) == UNION {{i} \X DOMAIN Content[f][v][i].mails : i \in 1..n}
Yielded(f, v)      == YieldedTo(f, v, Len(Content[f][v]))

\* The rows hold mail k, and hold it as version v of f has it if f is its source.
Fresh(rows, f, v, k) ==
  /\ \E r \in rows : r.mail = k
  /\ \A r \in rows : r.mail = k /\ r.file = f => r.version = v

\* The rows hold version v of f with all its mails.
Holds(rows, f, v) == \A k \in MailsOf(f, v) : Fresh(rows, f, v, k)

\* Mutation: a plain INSERT without the UNIQUE key.
InsertAlways(rows, f, v, ks) ==
  rows \cup {[mail |-> k, file |-> f, version |-> v] : k \in ks}
\* INSERT .. ON CONFLICT(message_id) DO UPDATE, for the mails ks of version v of f.
Upserted(rows, f, v, ks) ==
  {r \in rows : r.mail \notin ks}
    \cup {[mail |-> k, file |-> f, version |-> v] : k \in ks}
=============================================================================
