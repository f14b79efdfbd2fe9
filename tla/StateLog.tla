------------------------------- MODULE StateLog -------------------------------
(***************************************************************************)
(* StateManager of state.py at the level of files: _load at the start of a *)
(* run, then save after each change, which writes a temporary file named   *)
(* after the process and renames it over indexing_log.json.                *)
(*                                                                         *)
(* Several savers: one for each run under way.  Two runs of one process,   *)
(* started from two dialogs of the window, share the process number and so *)
(* the name of the temporary file; a run of a second process does not.     *)
(*                                                                         *)
(* Abstractions.  A log is a function from units to what is said of them,  *)
(* and whole JSON or not.  A file is an inode and names point to inodes,   *)
(* as POSIX has it: a writer whose file was renamed goes on writing into   *)
(* it.  What a run says of a unit is the business of Ledger.  save syncs   *)
(* the file and not the directory (state.py:79-80): a name that was made   *)
(* or renamed is durable at some time after, or never.                     *)
(***************************************************************************)
EXTENDS Integers, FiniteSets

CONSTANTS
  Savers,     \* the StateManager objects that may be in use at once
  Processes

ASSUME StateLogAssumption == IsFiniteSet(Savers) /\ IsFiniteSet(Processes) /\ Processes # {}

\* As many files as can have a name or a writer.
NoFile == 0
Inodes == 1..1 + Cardinality(Processes) + Cardinality(Savers)

VARIABLES
  pid,     \* pid[s]: the process saver s lives in
  inode,   \* inode[n]: what file n holds, [whole, entries]
  log,     \* the inode named indexing_log.json, or NoFile
  tmp,     \* tmp[p]: the inode named indexing_log.json.tmp<p>, or NoFile
  pc,      \* pc[s]: where saver s is
  data,    \* data[s]: its _data
  fh,      \* fh[s]: the inode it has open, or NoFile
  together,  \* history: two runs were under way at once
  sharing,   \* history: two runs of one process were
  orphaned,  \* history: the processes killed in the middle of a save, which left their file
  earlier    \* what an indexing_log.json held that a power failure may bring back

vars == <<pid, inode, log, tmp, pc, data, fh, together, sharing, orphaned, earlier>>
past == <<together, sharing, orphaned, earlier>>

InUse(s) == pc[s] # "off"

Blank == [u \in {} |-> {}]
Empty == [whole |-> FALSE, entries |-> Blank]

\* A file without a name or a writer is gone.
Freed(files, kept)   == [n \in Inodes |-> IF n \in kept THEN files[n] ELSE Empty]
Named(l, t)   == {l} \cup {t[p] : p \in Processes}
Open(f)       == {f[s] : s \in Savers}
Fresh         == CHOOSE n \in Inodes : n \notin Named(log, tmp) \cup Open(fh)

\* What json.load makes of the log; nothing if it is missing or not JSON.
\* Mutation: every run starts from an empty log.
LoadNothing == Blank
Loaded == IF log # NoFile /\ inode[log].whole THEN inode[log].entries ELSE Blank

\* StateManager(path), at the start of a run.
Load(s) ==
  /\ pc[s] = "off"
  /\ data' = [data EXCEPT ![s] = Loaded]
  /\ pc' = [pc EXCEPT ![s] = "ready"]
  /\ together' = (together \/ \E t \in Savers : InUse(t))
  /\ sharing' = (sharing \/ \E t \in Savers : InUse(t) /\ pid[t] = pid[s])
  /\ UNCHANGED <<pid, inode, log, tmp, fh, orphaned, earlier>>

\* The open(.., "w") of save, of what was set before it: the file of that name is emptied,
\* or made.  Mutation: the log itself is opened for writing.
OpenLog(s, entries) ==
  /\ pc[s] = "ready"
  /\ data' = [data EXCEPT ![s] = entries]
  /\ LET n == IF log = NoFile THEN Fresh ELSE log
     IN /\ fh' = [fh EXCEPT ![s] = n]
        /\ tmp' = [tmp EXCEPT ![pid[s]] = n]
        /\ log' = n
        /\ inode' = [inode EXCEPT ![n] = Empty]
  /\ pc' = [pc EXCEPT ![s] = "opened"]
  /\ UNCHANGED <<pid, past>>
OpenTmp(s, entries) ==
  /\ pc[s] = "ready"
  /\ data' = [data EXCEPT ![s] = entries]
  /\ LET n == IF tmp[pid[s]] = NoFile THEN Fresh ELSE tmp[pid[s]]
     IN /\ fh' = [fh EXCEPT ![s] = n]
        /\ tmp' = [tmp EXCEPT ![pid[s]] = n]
        /\ inode' = [inode EXCEPT ![n] = Empty]
  /\ pc' = [pc EXCEPT ![s] = "opened"]
  /\ UNCHANGED <<pid, log, past>>

\* json.dump, flush, fsync and close.  Over what somebody else has written to the same file
\* since, a shorter text leaves the tail of the longer one.
Write(s) ==
  /\ pc[s] = "opened"
  /\ fh' = [fh EXCEPT ![s] = NoFile]
  /\ \E holds \in {[whole |-> TRUE, entries |-> data[s]]} \cup
                  (IF inode[fh[s]].whole THEN {Empty} ELSE {}) :
       inode' = Freed([inode EXCEPT ![fh[s]] = holds], Named(log, tmp) \cup Open(fh'))
  /\ pc' = [pc EXCEPT ![s] = "written"]
  /\ UNCHANGED <<pid, log, tmp, data, past>>

\* os.replace.  Mutation: the file is copied over the log.
CopyOver(s) ==
  /\ pc[s] = "written" /\ tmp[pid[s]] # NoFile
  /\ log' = tmp[pid[s]]
  /\ pc' = [pc EXCEPT ![s] = "ready"]
  /\ UNCHANGED <<pid, inode, tmp, data, fh, past>>
Replace(s) ==
  /\ pc[s] = "written" /\ tmp[pid[s]] # NoFile
  /\ log' = tmp[pid[s]]
  /\ tmp' = [tmp EXCEPT ![pid[s]] = NoFile]
  /\ inode' = Freed(inode, Named(log', tmp') \cup Open(fh))
  /\ pc' = [pc EXCEPT ![s] = "ready"]
  /\ orphaned' = orphaned \ {pid[s]}
  /\ earlier' = earlier \cup {Loaded}
  /\ UNCHANGED <<pid, data, fh, together, sharing>>

\* FileNotFoundError: the other run of the process has renamed the file away.
ReplaceFails(s) ==
  /\ pc[s] = "written" /\ tmp[pid[s]] = NoFile
  /\ pc' = [pc EXCEPT ![s] = "off"]
  /\ data' = [data EXCEPT ![s] = Blank]
  /\ UNCHANGED <<pid, inode, log, tmp, fh, past>>

\* The run is over.
Leave(s) ==
  /\ pc[s] = "ready"
  /\ pc' = [pc EXCEPT ![s] = "off"]
  /\ data' = [data EXCEPT ![s] = Blank]
  /\ UNCHANGED <<pid, inode, log, tmp, fh, past>>

\* The processes are killed, and every run in them.
Kill(ps) ==
  /\ \A p \in ps : \E s \in Savers : pid[s] = p /\ InUse(s)
  /\ LET dead == {s \in Savers : pid[s] \in ps}
     IN /\ pc' = [s \in Savers |-> IF s \in dead THEN "off" ELSE pc[s]]
        /\ data' = [s \in Savers |-> IF s \in dead THEN Blank ELSE data[s]]
        /\ fh' = [s \in Savers |-> IF s \in dead THEN NoFile ELSE fh[s]]
  /\ inode' = Freed(inode, Named(log, tmp) \cup Open(fh'))
  /\ orphaned' = orphaned \cup {p \in ps : tmp[p] # NoFile}
  /\ UNCHANGED <<pid, log, tmp, together, sharing, earlier>>

\* Every process ends, and of the renames the disk has all or those up to some earlier one:
\* the log is one that was replaced, as it was then (Blank for none, or for one nobody can
\* read).  A temporary file may be undone or come back as well: nobody could tell, since
\* open(.., "w") empties the file or makes it.
Outage ==
  /\ pc' = [s \in Savers |-> "off"]
  /\ data' = [s \in Savers |-> Blank]
  /\ fh' = [s \in Savers |-> NoFile]
  /\ \E e \in earlier \cup {Loaded} :
       /\ log' = IF e = Blank THEN NoFile ELSE log
       /\ inode' = [n \in Inodes |-> IF n = log' THEN [whole |-> TRUE, entries |-> e] ELSE Empty]
  /\ orphaned' = {p \in Processes : tmp[p] # NoFile}
  /\ earlier' = {}
  /\ UNCHANGED <<pid, tmp, together, sharing>>

\* With a log of these entries, if any.
Init(entries) ==
  /\ pid \in [Savers -> Processes]
  /\ log = IF entries = Blank THEN NoFile ELSE 1
  /\ inode = [n \in Inodes |-> IF n = log THEN [whole |-> TRUE, entries |-> entries] ELSE Empty]
  /\ tmp = [p \in Processes |-> NoFile]
  /\ pc = [s \in Savers |-> "off"]
  /\ data = [s \in Savers |-> Blank]
  /\ fh = [s \in Savers |-> NoFile]
  /\ together = FALSE /\ sharing = FALSE /\ orphaned = {} /\ earlier = {}

-----------------------------------------------------------------------------
(* Properties *)

\* The log is never half-written, whenever its writer is killed and however many
\* processes write it (state.py:70-72): a run that met a half-written log would begin
\* from nothing and then save that.  But for two runs of one process, which open the
\* same temporary file: one renames what the other is writing.
LogIsWhole == log # NoFile /\ ~sharing => inode[log].whole

\* No temporary file stays behind but that of a process killed in the middle of a save (a
\* power failure may leave more, of renames it undid),
\* though two runs may have opened the same one and only one of them can rename it.
NoLitter ==
  \A p \in Processes \ orphaned :
    (\A s \in Savers : pid[s] = p => pc[s] \in {"off", "ready"}) => tmp[p] = NoFile

=============================================================================
