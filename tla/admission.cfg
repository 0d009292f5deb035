\* Two users and two connections, which may be of one user; clients may stall,
\* and the accept loop may fail at any time.
SPECIFICATION StallSpec
CONSTANTS
  User = {alice, bob}
  Session = {s1, s2}
  NoUser = NoUser
  NoSession = NoSession
INVARIANTS
  RegistryIsExact
  AnswersInOrder
  ClosedByOwner
  QuietAfterShutdown
PROPERTIES
  ImplementsDirectory
  ShutdownCompletes
  NameIsReleased
\* runServer returns after a failed accept: the server may stop.
CHECK_DEADLOCK FALSE
