------------------------------- MODULE Viewer -------------------------------
(***************************************************************************)
(* The main window of gui.py: what it lists, previews and saves, between   *)
(* the timers of the search box, the opening of other databases and the    *)
(* indexing that changes the database and the mailboxes under it.          *)
(*                                                                         *)
(* Abstractions.  The search options are part of the query, and a query is *)
(* the set of mails it matches (modules Query and Search).  Mails are      *)
(* numbered from the newest on, one has an attachment or none, and a row   *)
(* of a database is the place its locator names in the mailbox that the    *)
(* database was made from.  A callback of the window is one action; other  *)
(* processes and the indexing thread act between callbacks, and so does    *)
(* the window while a file dialog is open.  Words, columns and marks are   *)
(* left out.                                                               *)
(***************************************************************************)
EXTENDS Integers, SequencesExt

CONSTANTS
  Dbs,         \* the databases
  None,        \* no database, no mail
  Queries,
  Match,       \* Match[q]: the mails a query finds
  Folders,
  FolderOf,    \* FolderOf[m]
  Attached,    \* the mails with an attachment
  Contents,    \* Contents[d]: the states of the mailbox of d, sequences of mails
  Page, Wide,  \* the rows shown, and those asked for when folders are ticked
  Faults,      \* the calls that may fail: a subset of AllFaults
  MaxInputs,   \* bound: the timers pending at a time
  MaxChanges   \* bound: the changes of all mailboxes

Mails     == DOMAIN FolderOf
AllFaults == {"open", "folders", "search", "show"}

ASSUME ViewerAssumption ==
  /\ Mails \subseteq Nat \ {0} /\ IsFiniteSet(Mails) /\ None \notin Dbs \cup Mails
  /\ Match \in [Queries -> SUBSET Mails] /\ FolderOf \in [Mails -> Folders]
  /\ Attached \subseteq Mails
  /\ Contents \in [Dbs -> SUBSET Seq(Mails)]
  /\ \A d \in Dbs : Contents[d] # {} /\ \A c \in Contents[d] : IsInjective(c)
  /\ Page \in Nat \ {0} /\ Wide \in Nat /\ Wide >= Page
  /\ Faults \subseteq AllFaults /\ MaxInputs \in Nat /\ MaxChanges \in Nat

VARIABLES
  box,      \* box[d]: the mailbox of d, where a locator is an index
  table,    \* table[d]: the rows of d, from a mail to its locator
  changes,  \* counts the changes of the mailboxes
  db,       \* db_path
  menu,     \* the engine, the folders shown in the menu and those of them ticked
  query,    \* query_var
  timers,   \* the calls of _run_search that are pending
  job,      \* whether _debounce_job names the last of them
  tree,     \* the mails of the result list
  more,     \* "(more)" in the status line
  searched, \* history: what the tree was searched with
  failed,   \* history: the last _run_search could not search
  hits,     \* _current_hits
  cache,    \* _current_full_by_id, from a mail to its database and locator
  selected, preview,
  unread,   \* history: the last row to be shown was not found or not read
  asking,   \* the record a file dialog is open for; history: whether its place was known
  saved     \* the file that was written, likewise

world  == <<box, table, changes>>
input  == <<query, timers, job>>
result == <<tree, more, searched, failed, hits>>
shown  == <<cache, selected, preview, unread>>
save   == <<asking, saved>>
vars   == <<world, db, menu, input, result, shown, save>>

FoldersOf(d) == {FolderOf[m] : m \in DOMAIN table[d]}

-----------------------------------------------------------------------------
(* Opening a database *)

\* The ways _open_engine and its _refresh_folder_list end with t ticked before.  A failed
\* list_folders leaves the menu empty, and with it goes every tick.
Openings(d, t) ==
  {[engine |-> d, shown |-> FoldersOf(d), ticked |-> t \cap FoldersOf(d)]}
    \cup {[engine |-> None, shown |-> {}, ticked |-> {}] : f \in Faults \cap {"open"}}
    \cup {[engine |-> d, shown |-> {}, ticked |-> {}] : f \in Faults \cap {"folders"}}

\* _run_search opens the engine when there is none.
Reopened(d, m) == IF m.engine = None THEN Openings(d, m.ticked) ELSE {m}

-----------------------------------------------------------------------------
(* The preview *)

\* What the window holds apart from the list, and what _open_db_dialog makes of it.
Held == [hits |-> hits, cache |-> cache, preview |-> preview, unread |-> unread]
\* Mutation: the records read so far are kept.
EmptiedButCache == [hits |-> <<>>, cache |-> cache, preview |-> None, unread |-> FALSE]
Emptied         == [hits |-> <<>>, cache |-> <<>>, preview |-> None, unread |-> FALSE]

\* _show_preview of m, with h held: from the cache, else from the database and into the
\* cache.  Without a record, or an engine, the preview stays as it is.
ShowPreview(e, m, h) ==
  \/ /\ e # None /\ m \in DOMAIN h.cache
     /\ preview' = m /\ unread' = FALSE /\ cache' = h.cache
  \/ /\ e # None /\ m \in DOMAIN table[e] \ DOMAIN h.cache
     /\ preview' = m /\ unread' = FALSE
     /\ cache' = [x \in DOMAIN h.cache \cup {m} |->
                    IF x = m THEN [db |-> e, at |-> table[e][m]] ELSE h.cache[x]]
  \/ /\ IF e = None THEN TRUE ELSE m \notin DOMAIN h.cache
     /\ IF e = None THEN TRUE ELSE m \notin DOMAIN table[e] \/ "show" \in Faults
     /\ preview' = h.preview /\ unread' = TRUE /\ cache' = h.cache

\* Of the new rows the first is selected and shown.
ShowFirst(e, rows, h) ==
  IF rows = <<>>
  THEN selected' = None /\ preview' = None /\ unread' = FALSE /\ cache' = h.cache
  ELSE selected' = Head(rows) /\ ShowPreview(e, Head(rows), h)

-----------------------------------------------------------------------------
(* Searching *)

Cut(s, n) == SubSeq(s, 1, IF Len(s) < n THEN Len(s) ELSE n)

\* The members of S from the newest on, each once.
NewestFirst(S) == CHOOSE s \in [1..Cardinality(S) -> S] :
                    \A i, k \in DOMAIN s : i < k => s[i] < s[k]
\* search: the rows of e that match q.
Found(e, q)        == NewestFirst(DOMAIN table[e] \cap Match[q])
Limit(t)           == IF t = {} THEN Page ELSE Wide
\* The rows in the ticked folders; their order stays, which was the same.
InFolders(rows, t) ==
  IF t = {} THEN rows ELSE NewestFirst({m \in Range(rows) : FolderOf[m] \in t})
\* Mutation: the page is cut before the folders are filtered.
CutFirst(rows, t)  == InFolders(Cut(rows, Page), t)
Filtered(rows, t)  == Cut(InFolders(rows, t), Page)

\* What a search with the menu n finds and shows.
ShowResult(n, h) ==
  LET found == Found(n.engine, query)
      rows  == Filtered(Cut(found, Limit(n.ticked)), n.ticked)
  IN /\ tree' = rows /\ hits' = rows
     /\ more' = (Len(found) > Limit(n.ticked))
     /\ searched' = [db |-> n.engine, query |-> query, ticked |-> n.ticked,
                     all |-> InFolders(found, n.ticked)]
     /\ failed' = FALSE
     /\ ShowFirst(n.engine, rows, h)

\* _run_search with the menu m.  Without an engine, or when search raises, the list stays.
RunSearch(m, h) ==
  /\ job' = FALSE
  /\ \E n \in Reopened(db', m) :
       /\ menu' = n
       /\ \/ n.engine # None /\ ShowResult(n, h)
          \/ /\ n.engine = None \/ "search" \in Faults
             /\ failed' = TRUE /\ UNCHANGED <<tree, more, searched, selected>>
             /\ hits' = h.hits /\ cache' = h.cache
             /\ preview' = h.preview /\ unread' = h.unread

-----------------------------------------------------------------------------
(* The callbacks of the window *)

\* Mutation: a new input finds the old timer good enough, though that may be gone.
ArmOnce == UNCHANGED timers /\ job' = TRUE
\* _on_query_changed: of the pending calls only the one it knows of is replaced.
Arm == /\ job' = TRUE
       /\ timers' = IF job THEN timers ELSE timers + 1

Type ==
  /\ timers < MaxInputs
  /\ query' \in Queries
  /\ Arm
  /\ UNCHANGED <<world, db, menu, result, shown, save>>

ToggleFolder ==
  /\ timers < MaxInputs
  /\ \E f \in menu.shown :
       menu' = [menu EXCEPT !.ticked = IF f \in @ THEN @ \ {f} ELSE @ \cup {f}]
  /\ Arm
  /\ UNCHANGED <<world, db, query, result, shown, save>>

ClearFolders ==
  /\ timers < MaxInputs
  /\ menu.ticked # {} /\ menu' = [menu EXCEPT !.ticked = {}]
  /\ Arm
  /\ UNCHANGED <<world, db, query, result, shown, save>>

\* A pending call of _run_search.
Fire ==
  /\ timers > 0 /\ timers' = timers - 1
  /\ UNCHANGED <<world, db, query, save>>
  /\ RunSearch(menu, Held)

SelectRow ==
  /\ \E m \in Range(tree) : selected' = m /\ ShowPreview(menu.engine, m, Held)
  /\ UNCHANGED <<world, db, menu, input, result, save>>

OpenDb ==
  /\ db' \in Dbs
  /\ \E m \in Openings(db', menu.ticked) : RunSearch(m, Emptied)
  /\ UNCHANGED <<world, query, timers, save>>

\* on_index_finished.
IndexFinished ==
  /\ UNCHANGED <<world, db, query, timers, save>>
  /\ \E m \in Openings(db, menu.ticked) : RunSearch(m, Held)

\* The row of m in d names the place where m is.
Known(d, m) == table[d][m] \in DOMAIN box[d] /\ box[d][table[d][m]] = m

\* The button of an attachment: the record is read, then a file dialog opens.
\* Bound: one attachment is saved.
AskWhere ==
  /\ preview \in Attached /\ asking = None /\ saved = None
  /\ preview \in DOMAIN cache
  /\ asking' = [mail |-> preview, db |-> cache[preview].db, at |-> cache[preview].at,
                known |-> Known(cache[preview].db, preview)]
  /\ UNCHANGED <<world, db, menu, input, result, shown, saved>>

\* fetch_attachment opens the mailbox of the record, unless the user cancels; it may find
\* no mail there, or none with an attachment.
SaveAttachment ==
  /\ asking # None /\ asking' = None
  /\ LET b == box[asking.db]
     IN \/ /\ asking.at \in DOMAIN b /\ b[asking.at] \in Attached
           /\ saved' = [mail |-> asking.mail, got |-> b[asking.at],
                        known |-> asking.known]
        \/ UNCHANGED saved
  /\ UNCHANGED <<world, db, menu, input, result, shown>>

-----------------------------------------------------------------------------
(* The world around it *)

\* A mailbox is written by the mail program; what was known of it may not hold any more.
ChangeBox ==
  /\ changes < MaxChanges /\ changes' = changes + 1
  /\ \E d \in Dbs : \E c \in Contents[d] \ {box[d]} : box' = [box EXCEPT ![d] = c]
  /\ asking' = IF asking = None THEN None ELSE [asking EXCEPT !.known = FALSE]
  /\ UNCHANGED <<table, db, menu, input, result, shown, saved>>

\* A mail is indexed: its row is replaced, and no row is ever removed.
IndexMail ==
  /\ \E d \in Dbs : \E i \in DOMAIN box[d] :
       /\ ~(box[d][i] \in DOMAIN table[d] /\ table[d][box[d][i]] = i)
       /\ table' = [table EXCEPT ![d] = (box[d][i] :> i) @@ @]
  /\ UNCHANGED <<box, changes, db, menu, input, result, shown, save>>

-----------------------------------------------------------------------------
Init ==
  /\ box \in [Dbs -> UNION {Contents[d] : d \in Dbs}]
  /\ \A d \in Dbs : box[d] \in Contents[d]
  /\ table = [d \in Dbs |-> [m \in Range(box[d]) |-> CHOOSE i \in DOMAIN box[d] : box[d][i] = m]]
  /\ changes = 0
  /\ db \in Dbs /\ menu \in Openings(db, {})
  /\ query \in Queries /\ timers = 0 /\ job = FALSE
  /\ tree = <<>> /\ hits = <<>> /\ more = FALSE /\ failed = FALSE
  /\ searched = [db |-> None, query |-> query, ticked |-> {}, all |-> <<>>]
  /\ cache = <<>> /\ selected = None /\ preview = None /\ unread = FALSE
  /\ asking = None /\ saved = None

Next ==
  \/ Type \/ ToggleFolder \/ ClearFolders \/ Fire \/ SelectRow
  \/ OpenDb \/ IndexFinished \/ AskWhere \/ SaveAttachment
  \/ ChangeBox \/ IndexMail

Spec == Init /\ [][Next]_vars

-----------------------------------------------------------------------------
(* Properties *)

\* When no search is pending, the list is of the open database, the query and the ticks
\* that are on the screen, however inputs, timers and the other searches interleave;
\* unless the last search could not be made.
ListIsOfTheInput ==
  timers = 0 /\ ~failed /\ searched.db # None =>
    searched.db = db /\ searched.query = query /\ searched.ticked = menu.ticked

\* A list that is not full and does not say that there is more lacks nothing.  (A full one
\* may: when folders are ticked the rows beyond the page are not spoken of.)
NothingIsHiddenUnsaid == ~more /\ Len(tree) < Page => tree = searched.all

\* Nothing that was read from one database is used with another: the records kept for
\* previews and attachments, and the mails an export would write, are of the open one.  And
\* a mail is not previewed while another, or none, is selected; unless the selected one
\* could not be read.
HeldIsOfTheScreen ==
  /\ \A m \in DOMAIN cache : cache[m].db = db
  /\ hits # <<>> => searched.db = db /\ hits = tree
  /\ preview # None => preview = selected \/ unread

\* USAGE.md:331-334 and 356: an attachment can be taken out as long as the mailbox is where
\* and what it was when it was indexed.  So, if the database knows the place of the mail when
\* its attachment is asked for, and no mailbox changes until it is fetched, what is saved
\* is its attachment.
AttachmentIsOfTheMail == saved # None /\ saved.known => saved.got = saved.mail
=============================================================================
