------------------------------ MODULE MCViewer ------------------------------
(* Two databases with a mail in common.  The mailbox of the first gains a mail *)
(* at the front, or loses it; a page of one row is less than it holds.         *)
EXTENDS Viewer, TLC

CONSTANTS d1, d2, inbox, sent, all, some

TwoMails   == 1 :> inbox @@ 2 :> sent
Matches    == all :> {1, 2} @@ some :> {2}
Mailboxes  == d1 :> {<<1, 2>>, <<2>>} @@ d2 :> {<<2>>}
OneMailbox == d1 :> {<<1, 2>>, <<2, 1>>}
=============================================================================
