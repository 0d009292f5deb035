\* News, a request, a stop and the end of the input, whatever is typed and
\* wherever it is cut off.
SPECIFICATION FairSpec
CONSTANTS
  Keys = {"newline", "escape", "paste"}
  Lines = 1
  MaxLineBytes = 1
  MaxSequence = 2
  PipeCapacity = 2
  MaxTyped = 2
  MaxPosts = 1
  MaxResizes = 0
  MaxEvents = 3
PROPERTIES
  StopEndsClient
  HangUpEndsClient
  WorkIsTaken
\* The client may end.
CHECK_DEADLOCK FALSE
