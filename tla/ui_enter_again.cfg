\* A request refused while a request for names is out.
SPECIFICATION Spec
CONSTANTS
  ann = ann
  team = team
  club = club
  all = all
  Key = {ann, all}
  KeyBytes <- Bytes
  NoKey = NoKey
  MaxId = 0
  MaxConversations = 1
  MaxMessages = 2
  MaxTextBytes = 5
  SizeRange = 64
  Private = {ann}
  Group = {}
  GroupKey <- NoGroups
  Broadcast = all
  Own = Own
  Setting <- HistoryOnly
  MaxScreenDepth = 8
  MaxNameEntries = 2
  PageLimit = 1
INVARIANT
  EnterAgainWorks
\* The client may end.
CHECK_DEADLOCK FALSE
