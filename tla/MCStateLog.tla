------------------------------ MODULE MCStateLog ------------------------------
(***************************************************************************)
(* The instance of StateLog and Ledger for TLC: two runs, of one process   *)
(* or of two, of an archive that changes and of one that does not.         *)
(***************************************************************************)
EXTENDS Ledger, TLC

CONSTANTS u1, u2

\* The second version of u1 looks like the first; the third does not.
Stamps == (u1 :> <<[size |-> 1, mtime |-> 0], [size |-> 1, mtime |-> 1], [size |-> 1, mtime |-> 2]>>)
          @@ (u2 :> <<[size |-> 1, mtime |-> 0]>>)

Symmetry == Permutations(Savers) \cup Permutations(Processes) \cup Permutations(Dbs)
=============================================================================
