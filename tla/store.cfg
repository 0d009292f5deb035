\* Starts on files of every version that fail or die half-way, and on a current
\* file the requests of two users, which fail at any statement.
SPECIFICATION FairSpec
CONSTANTS
  ann = ann
  bob = bob
  club = club
  NoGroup = NoGroup
  User <- Users
  Group <- Groups
  LegacyRow <- AllRows
  File <- AnyFile
  Busy <- CurrentFile
  MaxMessages = 1
  MaxFaults = 2
  MaxCrashes = 1
INVARIANTS
  TypeOK
  StartsClean
  PromisesAreDurable
  LegacyOnce
PROPERTIES
  ImplementsAtomicStore
  OwnFilesAreServed
\* A connection that is not usable answers no request until the process ends.
CHECK_DEADLOCK FALSE
