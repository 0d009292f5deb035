\* Four rows that fit a page of two, must be cut, fill a response to the last
\* byte, or do not fit at all; every listing.
SPECIFICATION Spec
CONSTANTS
  Listing = {"CONTACT_LIST", "USER_SEARCH", "GROUP_LIST", "GROUP_SEARCH", "HISTORY",
             "NAMES"}
  NoBound = NoBound
  Size = {1, 2, 4}
  Room = 4
  PageLimit = 2
  MaxRows = 4
INVARIANTS
  WalkIsComplete
  PagesAreTaken
PROPERTY RefusedForARecord
\* A listing may be walked to its end.
CHECK_DEADLOCK FALSE
