------------------------------- MODULE Catalog -------------------------------
(***************************************************************************)
(* What indexing promises, without runs, workers or queues: a table of     *)
(* mails that only grows, and for each unit the version it is settled at.  *)
(* A unit settled at the version it still holds is in the table with all   *)
(* its mails, so it need not be read again.                                *)
(***************************************************************************)
EXTENDS Mailboxes

VARIABLES disk,     \* disk[f]: the version unit f holds
          rows,     \* the mails table
          settled   \* settled[f]: the version f is settled at, or 0

catalog == <<disk, rows, settled>>

Init ==
  /\ disk = [f \in Files |-> 1]
  /\ rows = {}
  /\ settled = [f \in Files |-> 0]

\* Mails of a version f has had are stored; while f is settled, of that version only.
Store(f, v, ks) ==
  /\ v \in 1..disk[f] /\ ks \subseteq MailsOf(f, v)
  /\ settled[f] = disk[f] => v = disk[f]
  /\ rows' = Upserted(rows, f, v, ks)
  /\ UNCHANGED <<disk, settled>>

\* f is settled at a version it has had, with all its mails stored if it still has it.
Settle(f, v) ==
  /\ v \in 1..disk[f]
  /\ v = disk[f] => Holds(rows, f, v)
  /\ settled' = [settled EXCEPT ![f] = v]
  /\ UNCHANGED <<disk, rows>>

\* Units about to be read again, or that could not be read, are settled no more.
Unsettle(fs) ==
  /\ settled' = [f \in Files |-> IF f \in fs THEN 0 ELSE settled[f]]
  /\ UNCHANGED <<disk, rows>>

Modify(f) ==
  /\ disk[f] < MaxVersion
  /\ disk' = [disk EXCEPT ![f] = @ + 1]
  /\ UNCHANGED <<rows, settled>>

Next ==
  \/ \E f \in Files :
       \/ Modify(f)
       \/ \E v \in 1..disk[f] : Settle(f, v) \/ \E ks \in SUBSET MailsOf(f, v) : Store(f, v, ks)
  \/ \E fs \in SUBSET Files : Unsettle(fs)

Spec == Init /\ [][Next]_catalog

\* A settled unit that has not changed since is in the table with every mail it holds,
\* as it holds them.
SettledIsHeld == \A f \in Files : settled[f] = disk[f] => Holds(rows, f, disk[f])
=============================================================================
