SPECIFICATION Spec
CONSTANTS
  None = None
  d1 = d1
  d2 = d2
  inbox = inbox
  sent = sent
  all = all
  some = some
  Dbs = {d1, d2}
  Queries = {all, some}
  Match <- Matches
  Folders = {inbox, sent}
  FolderOf <- TwoMails
  Attached = {1}
  Contents <- Mailboxes
  Page = 1
  Wide = 2
  Faults = {"open", "folders", "search", "show"}
  MaxInputs = 2
  MaxChanges = 1
INVARIANTS ListIsOfTheInput  
