------------------------------ MODULE MCStorage ------------------------------
(***************************************************************************)
(* Instances of Storage for TLC: three mails, two of which collide in the  *)
(* same second; a batch that names a mail twice, and one with a mail read  *)
(* again with another text, or with another date.                          *)
(***************************************************************************)
EXTENDS Storage, TLC

CONSTANTS m1, m2, m3

Rec(m, d, t) == [mail |-> m, date |-> d, text |-> t]

\* m1 and m2 collide; the next id of their second is the first choice of m3.
Colliding == (m1 :> 0) @@ (m2 :> 0) @@ (m3 :> 1)

\* One second with a collision; a record of m3 twice in a batch and a collision with the
\* probed id of m2; m2 again with a later date, and m1 with a later one and the first again.
SomeBatches == {<<Rec(m1, 1, "a"), Rec(m2, 1, "a")>>, <<Rec(m3, 1, "b"), Rec(m3, 1, "a")>>,
                <<Rec(m2, 2, "b"), Rec(m1, 2, "b"), Rec(m1, 1, "b")>>, <<>>}
=============================================================================
