SPECIFICATION Spec
CONSTANTS
  Clients = {c1, c2, c3}
  Polls = {1}
  MaxCalls = 1
  Outs = {1, 2}
  MaxReconnects = 1
  MaxFaults = 2
  None = None
  NoClient = NoClient
CHECK_DEADLOCK FALSE
INVARIANTS OneSocket
PROPERTIES ConnectedInTheEnd FoldersProceed
