\* Every kind of key in every split, typed before and in the UI, with news, an
\* interrupt and a resize in between.
SPECIFICATION Spec
CONSTANTS
  Keys = {"key", "exit", "newline", "lead", "escape", "csi", "paste", "done"}
  Lines = 1
  MaxLineBytes = 1
  MaxSequence = 3
  PipeCapacity = 2
  MaxTyped = 3
  MaxPosts = 3
  MaxResizes = 1
  MaxEvents = 3
INVARIANTS
  TypeOK
  DeadlineHasEscape
  NoLostWakeup
  InterruptIsDue
\* The client may end.
CHECK_DEADLOCK FALSE
