-------------------------------- MODULE Export --------------------------------
(***************************************************************************)
(* The commands of the command line that look for mails: `search`, and     *)
(* `export` of cli.py, which makes a search of its own with a limit no     *)
(* answer should reach, reads the rows of its hits again and has           *)
(* export_csv or export_eml of storage.py write them.  A writer commits    *)
(* before, in between and after.                                           *)
(*                                                                         *)
(* Abstractions.  A file of the directory is the row that was written to   *)
(* it last.  What is in a row beside what Search has of it is left out.    *)
(***************************************************************************)
EXTENDS Search

CONSTANTS
  ExportLimit,    \* 1_000_000
  VariableLimit,  \* the placeholders SQLite takes in one statement
  NameOf          \* _safe_filename of the message_id of each rowid

ASSUME ExportAssumption ==
  {ExportLimit, VariableLimit} \subseteq Nat \ {0} /\ DOMAIN NameOf = Rowids

VARIABLES
  command,    \* "search", or an export of a "query" or of "all"
  phase,      \* where the export is: in the end what it wrote, "csv" or "eml"
  exported,   \* the rows it got
  files,      \* what it wrote: a row by the name of its file; one table for CSV
  count       \* what it says it wrote

exportVars == <<command, phase, exported, files, count>>

Formats == {"csv", "eml"}

\* Mutation: the export of a page.
ExportPage   == Search("date", FALSE, Limit)
ExportedPage == Search("date", FALSE, ExportLimit)

ExportSearch ==
  /\ command = "query" /\ phase = "start" /\ ExportedPage
  /\ phase' = "searching"
  /\ UNCHANGED <<command, exported, files, count>>

\* The rest of that search.
ExportSearches ==
  /\ command = "query" /\ (Verify \/ Return)
  /\ UNCHANGED exportVars

\* export_csv has a line for each row; export_eml a file for each name, of the last row.
Written(out, format) ==
  IF format = "csv" THEN [i \in DOMAIN out |-> out[i]]
  ELSE [n \in {NameOf[out[i]] : i \in DOMAIN out} |->
          out[CHOOSE i \in DOMAIN out : NameOf[out[i]] = n
                /\ \A k \in i + 1..Len(out) : NameOf[out[k]] # n]]

WriteOut(out, format) ==
  /\ exported' = out /\ files' = Written(out, format) /\ count' = Len(out)
  /\ phase' = format

\* The SELECT by rowid of cmd_export and what becomes of its rows.
ExportHits(format) ==
  /\ phase = "searching" /\ pc = "idle" /\ hits # <<>> /\ Len(hits) <= VariableLimit
  /\ WriteOut(NewestFirst(ToSet(hits) \cap Present), format)
  /\ UNCHANGED <<command, vars>>

ExportNothing ==
  /\ phase = "searching" /\ pc = "idle" /\ hits = <<>>
  /\ phase' = "nothing"
  /\ UNCHANGED <<command, exported, files, count, vars>>

\* OperationalError: too many SQL variables.
ExportRaises ==
  /\ phase = "searching" /\ pc = "idle" /\ Len(hits) > VariableLimit
  /\ phase' = "raised"
  /\ UNCHANGED <<command, exported, files, count, vars>>

ExportAll(format) ==
  /\ command = "all" /\ phase = "start"
  /\ WriteOut(NewestFirst(Present), format)
  /\ touched' = {}
  /\ UNCHANGED <<command, table, pc, request, rows, verified, hits, more, shown, cut, writes>>

ExportInit ==
  /\ Init
  /\ command \in {"search", "query", "all"} /\ phase = "start"
  /\ exported = <<>> /\ files = <<>> /\ count = 0

ExportNext ==
  \/ command = "search" /\ Next /\ UNCHANGED exportVars
  \/ ExportSearch \/ ExportSearches \/ ExportNothing \/ ExportRaises
  \/ \E f \in Formats : ExportHits(f) \/ ExportAll(f)
  \/ \E r \in Rowids, c \in Contents : Write(r, c) /\ UNCHANGED exportVars

ExportSpec == ExportInit /\ [][ExportNext]_<<vars, exportVars>>

-----------------------------------------------------------------------------
\* An export has every mail it was asked for that stayed as it was, and none that never
\* was one, though its rows are read again after the search; it says how many it wrote.
\* Excepted are exports as long as their limits, and of the mails whose ids make one file
\* name all but the last: these are overwritten, and counted.
ExportIsWhatWasFound ==
  phase \in Formats /\ (command = "query" => ~cut /\ Len(hits) < ExportLimit) =>
    LET asked   == IF command = "query" THEN Wanted ELSE Present
        written == Range(files)
        Alike(r, k) == phase = "eml" /\ NameOf[r] = NameOf[k]
    IN /\ \A r \in asked \ touched : r \in written \/ \E k \in written : Alike(r, k)
       /\ written \subseteq asked \cup touched
       /\ \/ count = Cardinality(DOMAIN files)
          \/ \E r, k \in ToSet(exported) : r # k /\ Alike(r, k)
=============================================================================
