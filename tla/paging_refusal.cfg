\* A history whose last page fills a response to the last byte.
SPECIFICATION Spec
CONSTANTS
  Listing = {"HISTORY"}
  NoBound = NoBound
  Size = {1, 2, 4}
  Room = 4
  PageLimit = 2
  MaxRows = 4
PROPERTY RefusedForAMessage
\* A listing may be walked to its end.
CHECK_DEADLOCK FALSE
