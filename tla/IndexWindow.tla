----------------------------- MODULE IndexWindow -----------------------------
(***************************************************************************)
(* The indexing dialogs of gui.py: each starts run_index in a thread of    *)
(* its own, which puts events on the queue of its dialog; the Tk thread    *)
(* polls that queue and counts the files that are finished.  All runs of   *)
(* the window share one stop flag, cleared whenever a run is started.      *)
(*                                                                         *)
(* Abstractions.  Of run_index (module Orchestrator) only what a dialog    *)
(* sees is kept: planning with its events, a look at the stop flag once a  *)
(* round, one message handled in a round, and the ways it ends.  Events    *)
(* that only change a text are "batch"; "done", "failed" and "skipped",    *)
(* which are counted alike, are "over".                                    *)
(***************************************************************************)
EXTENDS Integers, Sequences, FiniteSets

CONSTANTS
  Dialogs,
  Paths,       \* spellings of files: what the file dialog gives, what events carry
  NoPath,      \* not a member of Paths
  Reported,    \* Reported[p]: the spelling discover_targets gives p, or NoPath if it drops it
  Choices,     \* Choices[d]: the sets of paths the user may choose in dialog d
  Faults,      \* the ways a run may end early: a subset of AllFaults
  MaxBatches   \* bound: the batches of a run

AllFaults == {"raise"}

ASSUME IndexWindowAssumption ==
  /\ NoPath \notin Paths /\ Reported \in [Paths -> Paths \cup {NoPath}]
  /\ Choices \in [Dialogs -> SUBSET SUBSET Paths]
  /\ \A d \in Dialogs : \A S \in Choices[d] : S # {} /\ IsFiniteSet(S)
  /\ Faults \subseteq AllFaults /\ MaxBatches \in Nat

VARIABLES
  stop,      \* _index_stop
  win,       \* win[d]: the window of dialog d
  chosen,    \* chosen[d]: paths, the keys of _file_rows
  count,     \* count[d]: _done_count
  events,    \* events[d]: _events
  run,       \* run[d]: where its run is
  todo,      \* todo[d]: the units still to plan
  remaining, \* remaining[d]
  batches,   \* batches[d]: the batches it has handled
  settled,   \* history: the units settled[d] of the run that are done, failed or skipped
  stopped,   \* history: the user has asked for a stop of the run of d
  late,      \* history: the messages the run of d has handled since
  revoked    \* history: a run was started since, which cleared the flag

vars == <<stop, win, chosen, count, events, run, todo, remaining, batches, settled,
          stopped, late, revoked>>

Active(d)  == run[d] \in {"planning", "top", "get"}
Put(d, kind, u) == events' = [events EXCEPT ![d] = Append(@, [kind |-> kind, path |-> u])]

-----------------------------------------------------------------------------
(* The Tk thread *)

\* discover_targets.
Targets(S) == {Reported[p] : p \in S} \ {NoPath}

\* _open_index_dialog, start, start_index_thread.
Open(d, S) ==
  /\ win[d] = "none"
  /\ stop' = FALSE
  /\ win' = [win EXCEPT ![d] = "open"]
  /\ chosen' = [chosen EXCEPT ![d] = S]
  /\ run' = [run EXCEPT ![d] = "planning"]
  /\ todo' = [todo EXCEPT ![d] = Targets(S)]
  /\ revoked' = stopped
  /\ UNCHANGED <<count, events, remaining, batches, settled, stopped, late>>

\* The events in q that _handle_event counts.  Mutation: every event of a file counts.
CountedAnyway(d, q) == {i \in DOMAIN q : q[i].path \in chosen[d]}
Counted(d, q) == {i \in DOMAIN q : q[i].path \in chosen[d] /\ q[i].kind = "over"}

\* _poll: all events there are, then another poll or the end.
Poll(d) ==
  /\ win[d] = "open"
  /\ count' = [count EXCEPT ![d] = @ + Cardinality(Counted(d, events[d]))]
  /\ events' = [events EXCEPT ![d] = <<>>]
  /\ win' = [win EXCEPT ![d] = IF count'[d] < Cardinality(chosen[d]) THEN "open" ELSE "done"]
  /\ UNCHANGED <<stop, chosen, run, todo, remaining, batches, settled, stopped, late, revoked>>

\* _on_stop: one flag for all.
Stop(d) ==
  /\ win[d] = "open"
  /\ stop' = TRUE
  /\ stopped' = [stopped EXCEPT ![d] = @ \/ Active(d)]
  /\ UNCHANGED <<win, chosen, count, events, run, todo, remaining, batches, settled, late, revoked>>

\* The user closes the dialog; its run goes on.
Close(d) ==
  /\ win[d] \in {"open", "done"}
  /\ win' = [win EXCEPT ![d] = "closed"]
  /\ UNCHANGED <<stop, chosen, count, events, run, todo, remaining, batches, settled,
                 stopped, late, revoked>>

-----------------------------------------------------------------------------
(* The thread of a run *)

\* A unit is skipped, fails for want of a parser, or is to be read.
PlanUnit(d, u) ==
  /\ run[d] = "planning" /\ u \in todo[d]
  /\ todo' = [todo EXCEPT ![d] = @ \ {u}]
  /\ \/ /\ Put(d, "over", u)
        /\ settled' = [settled EXCEPT ![d] = @ \cup {u}]
        /\ UNCHANGED remaining
     \/ /\ remaining' = [remaining EXCEPT ![d] = @ \cup {u}]
        /\ UNCHANGED <<events, settled>>
  /\ UNCHANGED <<stop, win, chosen, count, run, batches, stopped, late, revoked>>

Planned(d) ==
  /\ run[d] = "planning" /\ todo[d] = {}
  /\ run' = [run EXCEPT ![d] = "top"]
  /\ UNCHANGED <<stop, win, chosen, count, events, todo, remaining, batches, settled,
                 stopped, late, revoked>>

\* The head of the loop.  Mutation: the flag is not looked at.
TopUnstoppable(d) ==
  /\ run[d] = "top"
  /\ run' = [run EXCEPT ![d] = IF remaining[d] = {} THEN "finished" ELSE "get"]
  /\ UNCHANGED <<stop, win, chosen, count, events, todo, remaining, batches, settled,
                 stopped, late, revoked>>
Top(d) ==
  /\ run[d] = "top"
  /\ run' = [run EXCEPT ![d] = IF remaining[d] = {} THEN "finished"
                               ELSE IF stop THEN "stopped" ELSE "get"]
  /\ UNCHANGED <<stop, win, chosen, count, events, todo, remaining, batches, settled,
                 stopped, late, revoked>>

\* No message within half a second.
Timeout(d) ==
  /\ run[d] = "get"
  /\ run' = [run EXCEPT ![d] = "top"]
  /\ UNCHANGED <<stop, win, chosen, count, events, todo, remaining, batches, settled,
                 stopped, late, revoked>>

\* A message, and then the next round.
Handled(d) ==
  /\ run[d] = "get"
  /\ run' = [run EXCEPT ![d] = "top"]
  /\ late' = [late EXCEPT ![d] = IF stopped[d] THEN @ + 1 ELSE @]
  /\ UNCHANGED <<stop, win, chosen, count, todo, stopped, revoked>>

HandleBatch(d, u) ==
  /\ u \in remaining[d] /\ batches[d] < MaxBatches
  /\ Handled(d) /\ Put(d, "batch", u)
  /\ batches' = [batches EXCEPT ![d] = @ + 1]
  /\ UNCHANGED <<remaining, settled>>

\* "done" or "failed".  Mutation: a failed file is not reported.
SettleQuietly(d, u) ==
  /\ u \in remaining[d]
  /\ Handled(d) /\ (Put(d, "over", u) \/ UNCHANGED events)
  /\ remaining' = [remaining EXCEPT ![d] = @ \ {u}]
  /\ settled' = [settled EXCEPT ![d] = @ \cup {u}]
  /\ UNCHANGED batches
Settle(d, u) ==
  /\ u \in remaining[d]
  /\ Handled(d) /\ Put(d, "over", u)
  /\ remaining' = [remaining EXCEPT ![d] = @ \ {u}]
  /\ settled' = [settled EXCEPT ![d] = @ \cup {u}]
  /\ UNCHANGED batches

\* An exception, of which only the thread hears, or workers that are gone.
Fail(d) ==
  /\ "raise" \in Faults /\ Active(d)
  /\ run' = [run EXCEPT ![d] = "failed"]
  /\ UNCHANGED <<stop, win, chosen, count, events, todo, remaining, batches, settled,
                 stopped, late, revoked>>

RunStep(d) == \/ Planned(d) \/ Top(d) \/ Timeout(d)
              \/ \E u \in Paths : PlanUnit(d, u) \/ HandleBatch(d, u) \/ Settle(d, u)

-----------------------------------------------------------------------------
Init ==
  /\ stop = FALSE
  /\ win = [d \in Dialogs |-> "none"] /\ run = [d \in Dialogs |-> "off"]
  /\ chosen = [d \in Dialogs |-> {}] /\ todo = [d \in Dialogs |-> {}]
  /\ remaining = [d \in Dialogs |-> {}] /\ settled = [d \in Dialogs |-> {}]
  /\ count = [d \in Dialogs |-> 0] /\ batches = [d \in Dialogs |-> 0]
  /\ late = [d \in Dialogs |-> 0]
  /\ events = [d \in Dialogs |-> <<>>]
  /\ stopped = [d \in Dialogs |-> FALSE] /\ revoked = [d \in Dialogs |-> FALSE]

Next ==
  \E d \in Dialogs : \/ \E S \in Choices[d] : Open(d, S)
                     \/ Poll(d) \/ Stop(d) \/ Close(d)
                     \/ RunStep(d) \/ Fail(d)

Spec == Init /\ [][Next]_vars

\* The threads run, after() fires.
FairSpec == Spec /\ \A d \in Dialogs : WF_vars(RunStep(d)) /\ WF_vars(Poll(d))

-----------------------------------------------------------------------------
(* Properties *)

\* The count is of finished files of this dialog, each once, whatever events came in
\* between and however they were batched into polls; so that a window that says it is
\* complete has seen every chosen file finish.
CountIsExact ==
  \A d \in Dialogs :
    /\ win[d] = "open" =>
         count[d] + Cardinality(Counted(d, events[d])) = Cardinality(settled[d] \cap chosen[d])
    /\ win[d] = "done" => chosen[d] \subseteq settled[d]

\* After a stop the message in hand is the last one (gui.py:585), unless somebody starts
\* another run: that clears the flag.
StopTakesEffect == \A d \in Dialogs : late[d] <= 1 \/ revoked[d]

\* A run that was asked to stop ends, unless another run is started meanwhile.
StopEndsTheRun == \A d \in Dialogs : stopped[d] ~> ~Active(d) \/ revoked[d]

\* The window of a run that came to its end completes, if discover_targets left every
\* chosen path as it was spelled.
Recognised(d) == \A p \in chosen[d] : Reported[p] = p
WindowCompletes ==
  \A d \in Dialogs : win[d] = "open" /\ run[d] = "finished" /\ Recognised(d) ~> win[d] # "open"
=============================================================================
