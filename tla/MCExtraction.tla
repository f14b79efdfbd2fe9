---------------------------- MODULE MCExtraction ----------------------------
(* Units of every shape.  The two files that may be containers hold five and   *)
(* three messages, so that a batch of two is filled once, filled twice and     *)
(* ends in the middle, with every fate at its edges; the machine may have any  *)
(* choice of the optional software.                                            *)
EXTENDS Extraction

CONSTANTS pst, ost, msg, msgs, folder

AllUnits == {pst, ost, msg, msgs, folder}
ShapeOf  == [u \in AllUnits |-> CASE u \in {pst, ost} -> "container"
                                 [] u = msg          -> "msg file"
                                 [] u = msgs         -> "msg folder"
                                 [] u = folder       -> "bare folder"]
Held     == [u \in AllUnits |->
               CASE u = pst    -> <<"mail", "odd", "mail", "unreadable", "mail">>
                 [] u = ost    -> <<"mail", "mail", "odd">>
                 [] u = msg    -> <<"mail">>
                 [] u = msgs   -> <<"unreadable", "mail">>
                 [] u = folder -> <<>>]
AnyTools == SUBSET AllTools
=============================================================================
