\* Chats, looking things up, groups, and trouble, each a setting of its own.
SPECIFICATION Spec
CONSTANTS
  ann = ann
  team = team
  club = club
  all = all
  Key = {ann, team, club, all}
  KeyBytes <- Bytes
  NoKey = NoKey
  MaxId = 2
  MaxConversations = 2
  MaxMessages = 2
  MaxTextBytes = 4
  SizeRange = 64
  Private = {ann}
  Group = {1, 2}
  GroupKey <- TwoKeys
  Broadcast = all
  Own = Own
  Setting <- AllSettings
  MaxScreenDepth = 8
  MaxNameEntries = 1
  PageLimit = 1
INVARIANTS
  TypeOK
  HandlesAreUnique
  BufferLimits
  ChecksNeverMisfire
  OneOperation
  ViewedWasPresented
  UncertaintyIsReported
\* The client may end.
CHECK_DEADLOCK FALSE
