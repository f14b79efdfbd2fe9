SPECIFICATION Spec
CONSTANTS
  None = None
  d1 = d1
  d2 = d2
  inbox = inbox
  sent = sent
  all = all
  some = some
  Dbs = {d1}
  Queries = {all, some}
  Match <- Matches
  Folders = {inbox, sent}
  FolderOf <- TwoMails
  Attached = {1, 2}
  Contents <- OneMailbox
  Page = 1
  Wide = 2
  Faults = {}
  MaxInputs = 1
  MaxChanges = 1
INVARIANTS AttachmentIsOfTheMail
