---------------------------- MODULE MCIndexWindow ----------------------------
(***************************************************************************)
(* Instances of IndexWindow for TLC: p and q are reported as chosen, r     *)
(* is spelled as s by discover_targets, t is dropped.                      *)
(***************************************************************************)
EXTENDS IndexWindow

CONSTANTS p, q, r, s, t, d1, d2

AsDiscovered == [x \in Paths |-> CASE x = r -> s [] x = t -> NoPath [] OTHER -> x]

\* One dialog with two files, or with one that comes back under another name; one with a
\* file that is dropped, whose run soon ends.
SomeChoices == [d \in Dialogs |-> IF d = d1 THEN {{p, q}, {r}} ELSE {{t}}]
=============================================================================
