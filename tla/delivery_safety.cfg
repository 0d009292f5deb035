\* Two messages before and after their recipient logs in, in pages of two rows
\* that may be cut short; or one, while the recipient comes back on a third
\* connection.
SPECIFICATION Spec
CONSTANTS
  User = {alice, bob}
  Session = {s1, s2, s3}
  NoUser = NoUser
  NoSession = NoSession
  MaxMessages = 2
  MaxLoad = 4
  MaxEnds = 1
  PageLimit = 2
  MaxAutomaticRequests = 2
SYMMETRY Symmetry
INVARIANTS
  PagesAreValid
  NoLostDelivery
  AcksAreDue
\* Every session may end, and the message bound is then reached.
CHECK_DEADLOCK FALSE
