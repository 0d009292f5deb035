\* One conversation with the broadcast, the user and the wire owing nothing.
SPECIFICATION FairSpec
CONSTANTS
  ann = ann
  team = team
  club = club
  all = all
  Key = {all, team}
  KeyBytes <- Bytes
  NoKey = NoKey
  MaxId = 1
  MaxConversations = 2
  MaxMessages = 2
  MaxTextBytes = 5
  SizeRange = 64
  Private = {}
  Group = {1}
  GroupKey <- OneKey
  Broadcast = all
  Own = Own
  Setting <- OneChat
  MaxScreenDepth = 8
  MaxNameEntries = 2
  PageLimit = 1
PROPERTIES
  RequestsSettle
  NamesYield
  ShownIsViewed
  StopEnds
\* The client may end.
CHECK_DEADLOCK FALSE
