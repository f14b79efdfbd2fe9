------------------------------ MODULE MailTable ------------------------------
(***************************************************************************)
(* What upsert_batch promises: the table of mails as a set of records, one *)
(* for a message_id, into which a batch goes whole or not at all.          *)
(***************************************************************************)
EXTENDS Sequences, Functions

CONSTANTS Mails,    \* message_ids
          Dates,    \* date_utc values
          Texts,    \* what a record says of its mail beyond key and date
          Batches   \* sequences of records: what upsert_batch is called with

Record == [mail : Mails, date : Dates, text : Texts]

VARIABLE table

\* The records of batch b that no later one of the same mail replaces.
LastOf(b) == {b[i] : i \in {j \in DOMAIN b :
                              \A k \in DOMAIN b : k > j => b[k].mail # b[j].mail}}

Merged(t, b) == {r \in t : \A n \in Range(b) : n.mail # r.mail} \cup LastOf(b)

Init == table = {}
Next == \E b \in Batches : table' = Merged(table, b)
Spec == Init /\ [][Next]_table
=============================================================================
