CONSTANTS
  c1 = c1
  c2 = c2
  e1 = e1
  e2 = e2
  v1 = v1
  v2 = v2
  Clients <- MCClients
  Emails <- MCEmails
  Versions <- MCVersions
  NoSet = NoSet
  NoBackup = NoBackup
  MaxExamples = 1
  MaxEvents = 2
  MaxRequests = 4
  DefaultPath = TRUE
SYMMETRY Symmetry
CHECK_DEADLOCK FALSE
SPECIFICATION Spec
INVARIANTS OneActive RunsArePinned
PROPERTY EditsReplaceWhatWasRead
