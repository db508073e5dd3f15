SPECIFICATION Spec
CONSTANTS
  Base <- MCBase
  Top <- MCTop
  MaxLength = 6
  Calls <- ViewCalls
  MaxSize = 100
  Garbage = garbage
  Guard = guard
INVARIANT SkipsOnlyAvailable
CHECK_DEADLOCK FALSE
