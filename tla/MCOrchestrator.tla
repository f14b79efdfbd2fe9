--------------------------- MODULE MCOrchestrator ---------------------------
(***************************************************************************)
(* Instances of Orchestrator for TLC: two units that share a mail.  f1     *)
(* loses a mail, gains one and grows from one batch to two in its second   *)
(* version; f2 has a mail that cannot be normalised and is emptied.        *)
(***************************************************************************)
EXTENDS Orchestrator, TLC

CONSTANTS f1, f2, w1, w2, m1, m2, m3

Batch(s) == [kind |-> "batch", mails |-> s]
Errors   == [kind |-> "errors", mails |-> <<>>]

\* Two versions of each unit.
TwoVersions == (f1 :> <<  <<Batch(<<m1, m2>>)>>,  <<Batch(<<m1>>), Batch(<<m3>>)>>  >>)
               @@ (f2 :> <<  <<Batch(<<m2>>), Errors>>,  <<>>  >>)

\* One version of each unit, f1 in two batches.
OneVersion == (f1 :> <<  <<Batch(<<m1, m2>>), Batch(<<m3>>)>>  >>)
              @@ (f2 :> <<  <<Batch(<<m2>>), Errors>>  >>)

=============================================================================
