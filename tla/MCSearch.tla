------------------------------ MODULE MCSearch ------------------------------
(***************************************************************************)
(* Instances of Search and Export for TLC: a row that matches as a whole   *)
(* word, one that matches within a word and has the better score, and one  *)
(* that has the bigrams and no match.  Two of four mails make one file     *)
(* name.                                                                   *)
(***************************************************************************)
EXTENDS Export, TLC

ThreeContents ==
  {[candidate |-> TRUE, matches |-> TRUE,  whole |-> TRUE,  score |-> 2],
   [candidate |-> TRUE, matches |-> TRUE,  whole |-> FALSE, score |-> 1],
   [candidate |-> TRUE, matches |-> FALSE, whole |-> FALSE, score |-> 2]}

TwoAlike == (1 :> "a") @@ (2 :> "a") @@ (3 :> "b") @@ (4 :> "c")
=============================================================================
