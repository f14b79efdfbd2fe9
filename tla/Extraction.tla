----------------------------- MODULE Extraction -----------------------------
(***************************************************************************)
(* One worker process reading the units it is given, one after another:    *)
(* the choice of a parser (resolver.py), the life of the parser and of the *)
(* directory readpst extracts into (parsers/), the batches of iter_batches *)
(* (indexer.py) and what _worker_main puts on the results queue.           *)
(*                                                                         *)
(* Orchestrator takes what a unit yields as given; this module is where it *)
(* comes from.  A unit is the sequence of what it holds, in the order the  *)
(* parser visits it.  Of a message only its fate matters: it becomes a     *)
(* mail, _normalize raises on it ("odd"), or the parser cannot read it     *)
(* ("unreadable": for pypff, also a folder it cannot open).  A put that    *)
(* has to wait is in Orchestrator.                                         *)
(***************************************************************************)
EXTENDS Integers, SequencesExt

CONSTANTS
  Units,      \* the units of the file queue
  Shape,      \* Shape[u]: what a unit is on the disk
  Items,      \* Items[u]: the fates of what it holds
  ToolSets,   \* the sets of optional software an instance considers
  BatchSize,  \* config.batch_size
  Faults      \* the faults of an instance, a subset of AllFaults

Fates     == {"mail", "odd", "unreadable"}
Shapes    == {"container", "msg file", "msg folder", "bare folder"}
AllTools  == {"pypff", "readpst on the path", "readpst beside the program", "extract_msg"}
AllFaults == {"open", "walk", "remove", "kill"}

ASSUME ExtractionAssumption ==
  /\ Shape \in [Units -> Shapes] /\ Items \in [Units -> Seq(Fates)]
  /\ ToolSets \subseteq SUBSET AllTools
  /\ BatchSize \in Nat \ {0} /\ Faults \subseteq AllFaults

VARIABLES
  tools,    \* the optional software of this machine
  todo,     \* the units still in the file queue
  pc, unit, \* where the worker is, and in which unit
  parser,   \* the parser of the unit
  dir,      \* whether the temporary directory of the parser is there
  files,    \* the extracted files in it, by position
  stuck,    \* those whose removal failed
  read,     \* read[u]: how far the parser got
  batch,    \* the mails iter_batches holds or has yielded, not put yet, by position
  errors,   \* the messages it could not normalise, likewise
  over,     \* whether the walk has come to its end
  written,  \* total_written: the mails put
  sent,     \* sent[u]: what was put on the results queue about u
  left      \* the units whose temporary directory outlived them

given   == <<tools, todo, unit, parser>>
extract == <<dir, files, stuck, left>>
held    == <<batch, errors, over, written>>
vars    == <<given, pc, extract, read, held, sent>>

Message == [kind : {"resolved", "batch", "errors", "done", "failed"},
            items : Seq(Nat), count : Nat]
Msg(k, s, n)  == [kind |-> k, items |-> s, count |-> n]
Length(u)     == Len(Items[u])
Fate(u, i)    == Items[u][i]

-----------------------------------------------------------------------------
(* The choice of a parser *)

LooksLikeContainer(u) == Shape[u] = "container"
LooksLikeMsg(u)       == Shape[u] \in {"msg file", "msg folder"}
FindReadpst           == tools \cap {"readpst on the path", "readpst beside the program"} # {}

\* The parsers in order of preference, and whether each can be named for u.
Preference == <<"pypff", "readpst", "extract_msg", "none">>
Usable(u, p) ==
  CASE p = "pypff"       -> LooksLikeContainer(u) /\ "pypff" \in tools
    [] p = "readpst"     -> LooksLikeContainer(u) /\ FindReadpst
    [] p = "extract_msg" -> LooksLikeMsg(u) /\ "extract_msg" \in tools
    [] p = "none"        -> TRUE
ResolveParser(u) == Head(SelectSeq(Preference, LAMBDA p : Usable(u, p)))

-----------------------------------------------------------------------------
(* The results queue *)

Put(m) == sent' = [sent EXCEPT ![unit] = Append(@, m)]

\* An exception anywhere in the unit: what iter_batches holds is dropped with it.
Fail == /\ Put(Msg("failed", <<>>, 0))
        /\ pc' = "idle" /\ batch' = <<>> /\ errors' = <<>> /\ UNCHANGED <<over, written>>

-----------------------------------------------------------------------------
(* Opening *)

\* The next path; no parser is reported as a failure.
Take ==
  /\ pc = "idle"
  /\ \E u \in todo :
       /\ todo' = todo \ {u} /\ unit' = u /\ parser' = ResolveParser(u)
       /\ IF parser' = "none"
          THEN pc' = pc /\ sent' = [sent EXCEPT ![u] = <<Msg("failed", <<>>, 0)>>]
          ELSE pc' = "opening" /\ sent' = [sent EXCEPT ![u] = <<Msg("resolved", <<>>, 0)>>]
  /\ over' = FALSE /\ written' = 0
  /\ UNCHANGED <<tools, extract, read, batch, errors>>

\* __enter__ is open: when it raises, with does not call __exit__.
OpenRaises == Fail /\ UNCHANGED <<given, read>>

OpenPypff ==
  /\ pc = "opening" /\ parser = "pypff"
  /\ UNCHANGED extract
  /\ \/ pc' = "walking" /\ UNCHANGED <<given, read, held, sent>>
     \/ "open" \in Faults /\ OpenRaises

\* shutil.which looks only at the path; then the room on the disk; then the directory
\* and readpst itself, which may fail or time out: the directory is then nobody's.
OpenReadpst ==
  /\ pc = "opening" /\ parser = "readpst"
  /\ \/ /\ "readpst on the path" \notin tools \/ "open" \in Faults
        /\ OpenRaises /\ UNCHANGED extract
     \/ /\ "readpst on the path" \in tools
        /\ dir' = TRUE /\ files' = {} /\ stuck' = {}
        /\ pc' = "extracting"
        /\ UNCHANGED <<given, read, held, sent, left>>

RunReadpst ==
  /\ pc = "extracting"
  /\ \/ /\ files' = 1..Length(unit) /\ pc' = "walking"
        /\ UNCHANGED <<given, dir, stuck, left, read, held, sent>>
     \/ /\ "open" \in Faults
        /\ left' = left \cup {unit} /\ dir' = FALSE /\ files' = {}
        /\ OpenRaises /\ UNCHANGED stuck

\* The unit was seen to exist when the parser was chosen.
OpenExtractMsg ==
  /\ pc = "opening" /\ parser = "extract_msg"
  /\ UNCHANGED extract
  /\ \/ pc' = "walking" /\ UNCHANGED <<given, read, held, sent>>
     \/ "open" \in Faults /\ OpenRaises

-----------------------------------------------------------------------------
(* Walking through the messages *)

\* os.remove of an extracted file; an error is only logged.
SafeRemove(i) ==
  \/ files' = files \ {i} /\ stuck' = stuck
  \/ "remove" \in Faults /\ files' = files /\ stuck' = stuck \cup {i}

Here    == read[unit] + 1
Advance == read' = [read EXCEPT ![unit] = Here]

\* _walk_folder: what cannot be read is passed over; an error of the folder itself, or
\* of its name, is not caught there.
WalkFolder ==
  /\ pc = "walking" /\ parser = "pypff"
  /\ UNCHANGED <<given, extract>>
  /\ \/ /\ read[unit] < Length(unit)
        /\ Advance
        /\ pc' = IF Fate(unit, Here) = "unreadable" THEN pc ELSE "in hand"
        /\ UNCHANGED <<held, sent>>
     \/ "walk" \in Faults /\ Fail /\ UNCHANGED read

\* What cannot be read is removed at once, what is yielded when the walk goes on.
IterEml ==
  /\ pc = "walking" /\ parser = "readpst" /\ read[unit] < Length(unit)
  /\ Advance
  /\ IF Fate(unit, Here) = "unreadable"
     THEN pc' = pc /\ SafeRemove(Here)
     ELSE pc' = "in hand" /\ UNCHANGED <<files, stuck>>
  /\ UNCHANGED <<given, dir, left, held, sent>>

IterMsg ==
  /\ pc = "walking" /\ parser = "extract_msg" /\ read[unit] < Length(unit)
  /\ Advance
  /\ pc' = IF Fate(unit, Here) = "unreadable" THEN pc ELSE "in hand"
  /\ UNCHANGED <<given, extract, held, sent>>

\* Mutation: what was yielded is left to the end of the unit.
ReleaseLater == UNCHANGED <<files, stuck>>
\* The finally clause of the readpst parser.
Release == IF parser = "readpst" THEN SafeRemove(read[unit]) ELSE UNCHANGED <<files, stuck>>

\* The next message is asked for.
Resume ==
  /\ pc = "asked"
  /\ pc' = "walking"
  /\ Release
  /\ UNCHANGED <<given, dir, left, read, held, sent>>

-----------------------------------------------------------------------------
(* Batches *)

\* Mutation: the list is not replaced.
NotEmptied(s) == s

Full(b)    == Len(b) >= BatchSize
Emptied(s) == <<>>

\* One turn of iter_batches: normalise what is in hand, yield a full batch.
IterBatches ==
  /\ pc = "in hand"
  /\ batch' = IF Fate(unit, read[unit]) = "mail" THEN Append(batch, read[unit]) ELSE batch
  /\ errors' = IF Fate(unit, read[unit]) = "odd" THEN Append(errors, read[unit]) ELSE errors
  /\ pc' = IF Full(batch') THEN "putting" ELSE "asked"
  /\ UNCHANGED <<given, extract, read, over, written, sent>>

\* Mutation: errors after which no mail is left are forgotten.
RestOfTheMails == batch # <<>>
\* Whether something is left to yield at the end of the walk.
Rest == batch # <<>> \/ errors # <<>>

EndOfWalk ==
  /\ pc = "walking" /\ read[unit] = Length(unit)
  /\ over' = TRUE
  /\ pc' = IF Rest THEN "putting" ELSE "closing"
  /\ UNCHANGED <<given, extract, read, batch, errors, written, sent>>

\* The body of the worker's loop for what iter_batches yielded: the batch if it is not empty,
PutBatch ==
  /\ pc = "putting" /\ pc' = "noting"
  /\ IF batch = <<>> THEN UNCHANGED sent ELSE Put(Msg("batch", batch, 0))
  /\ written' = written + Len(batch) /\ batch' = Emptied(batch)
  /\ UNCHANGED <<given, extract, read, errors, over>>

\* then the errors; then iter_batches is asked for more.
PutErrors ==
  /\ pc = "noting" /\ pc' = IF over THEN "closing" ELSE "asked"
  /\ IF errors = <<>> THEN UNCHANGED sent ELSE Put(Msg("errors", errors, 0))
  /\ errors' = Emptied(errors)
  /\ UNCHANGED <<given, extract, read, batch, over, written>>

-----------------------------------------------------------------------------
(* The end of a unit *)

\* Mutation: the directory is forgotten, not removed.
CloseForgets ==
  /\ dir' = FALSE /\ files' = {}
  /\ left' = IF dir THEN left \cup {unit} ELSE left
\* rmtree with ignore_errors: a file that could not be removed may keep the directory.
CloseReadpst ==
  /\ dir' = FALSE /\ files' = {}
  /\ \/ left' = left
     \/ dir /\ stuck # {} /\ left' = left \cup {unit}

\* __exit__ is close; of the three parsers' only that of readpst has something to remove,
\* and none of them raises.
Exit ==
  /\ pc = "closing" /\ pc' = "reporting"
  /\ CloseReadpst
  /\ UNCHANGED <<given, stuck, read, held, sent>>

Finish ==
  /\ pc = "reporting" /\ pc' = "idle"
  /\ Put(Msg("done", <<>>, written))
  /\ stuck' = {}
  /\ UNCHANGED <<given, dir, files, left, read, held>>

\* The process is killed, between any two steps: nothing of it is cleaned up.
Kill ==
  /\ "kill" \in Faults /\ pc \notin {"idle", "dead"}
  /\ pc' = "dead"
  /\ left' = IF dir THEN left \cup {unit} ELSE left
  /\ UNCHANGED <<given, dir, files, stuck, read, held, sent>>

-----------------------------------------------------------------------------
Init ==
  /\ tools \in ToolSets
  /\ todo = Units /\ pc = "idle" /\ parser = "none" /\ unit \in Units
  /\ dir = FALSE /\ files = {} /\ stuck = {} /\ left = {}
  /\ read = [u \in Units |-> 0] /\ sent = [u \in Units |-> <<>>]
  /\ batch = <<>> /\ errors = <<>> /\ over = FALSE /\ written = 0

Next ==
  \/ Take \/ OpenPypff \/ OpenReadpst \/ RunReadpst \/ OpenExtractMsg
  \/ WalkFolder \/ IterEml \/ IterMsg \/ Resume
  \/ IterBatches \/ EndOfWalk \/ PutBatch \/ PutErrors \/ Exit \/ Finish \/ Kill

Spec == Init /\ [][Next]_vars

-----------------------------------------------------------------------------
(* Properties *)

\* What the messages of one kind about u carry, one after another.
Carried(u, k) ==
  FlattenSeq([i \in DOMAIN sent[u] |-> IF sent[u][i].kind = k THEN sent[u][i].items ELSE <<>>])
Said(u, k) == \E i \in DOMAIN sent[u] : sent[u][i].kind = k
\* Those of the first n messages of u with one fate, in order.
FatedIn(u, n, fate) == FlattenSeq([i \in 1..n |-> IF Fate(u, i) = fate THEN <<i>> ELSE <<>>])
Reading == {"walking", "in hand", "asked", "putting", "noting", "closing", "reporting"}

\* Between the parser and the queue no mail and no error is lost, doubled or moved, at
\* any moment of a unit: what was put, then what iter_batches holds or has yielded, is
\* what was read.
NothingInBetween ==
  pc \in Reading =>
    LET n == IF pc = "in hand" THEN read[unit] - 1 ELSE read[unit]
    IN /\ Carried(unit, "batch") \o batch = FatedIn(unit, n, "mail")
       /\ Carried(unit, "errors") \o errors = FatedIn(unit, n, "odd")

\* A unit reported as done was delivered whole: every mail, every error, and the count
\* that run_index records.  One reported as failed lost fewer mails than make a batch.  For
\* a batch is never empty and never larger than configured; a smaller one is the last of its
\* unit, which then does not fail, though its worker may be killed before it says "done".
DoneIsWhole ==
  \A u \in Units :
    /\ Said(u, "done") => /\ Carried(u, "batch") = FatedIn(u, Length(u), "mail")
                          /\ Carried(u, "errors") = FatedIn(u, Length(u), "odd")
                          /\ Last(sent[u]).count = Len(Carried(u, "batch"))
    /\ Said(u, "failed") =>
         Len(FatedIn(u, read[u], "mail")) - Len(Carried(u, "batch")) < BatchSize
    /\ \A i \in DOMAIN sent[u] : sent[u][i].kind = "batch" =>
         /\ Len(sent[u][i].items) \in 1..BatchSize
         /\ Len(sent[u][i].items) < BatchSize =>
              ~Said(u, "failed") /\ \A k \in i + 1..Len(sent[u]) : sent[u][k].kind # "batch"

\* Of what readpst extracted, nothing is there that was read already but the mail in hand
\* (readpst_parser.py:5-7) and what could not be removed.
ReadIsDeleted ==
  dir /\ pc # "dead" => \A i \in files \ stuck :
                           \/ i > read[unit]
                           \/ /\ i = read[unit] /\ ~over
                              /\ pc \in {"in hand", "putting", "noting", "asked"}

\* The directory of a unit that is reported done is gone, unless a file in it could not be
\* removed.  (That of one whose extraction failed stays: with does not close a parser whose
\* open raised; and that of a worker that was killed.)
OnlyFailuresStay ==
  [][\A u \in left' : Said(u, "done")' /\ ~Said(u, "done") => stuck # {}]_vars
=============================================================================
