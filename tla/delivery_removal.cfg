\* README.md says that delivered messages are removed; the code keeps them.
SPECIFICATION Spec
CONSTANTS
  User = {alice, bob}
  Session = {s1, s2}
  NoUser = NoUser
  NoSession = NoSession
  MaxMessages = 1
  MaxLoad = 3
  MaxEnds = 2
  PageLimit = 2
  MaxAutomaticRequests = 2
SYMMETRY Symmetry
INVARIANTS
  RemovedAfterDelivery
\* Every session may end, and the message bound is then reached.
CHECK_DEADLOCK FALSE
