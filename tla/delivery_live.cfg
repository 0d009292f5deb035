\* One message, and clients that stay, leave, stall in no write and log in.
SPECIFICATION FairSpec
CONSTANTS
  User = {alice, bob}
  Session = {s1, s2}
  NoUser = NoUser
  NoSession = NoSession
  MaxMessages = 1
  MaxLoad = 3
  MaxEnds = 2
  PageLimit = 1
  MaxAutomaticRequests = 2
PROPERTIES
  ImplementsInbox
  EventuallyDelivered
CHECK_DEADLOCK FALSE
