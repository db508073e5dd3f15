SPECIFICATION Spec
CONSTANTS
  Base <- MCBase
  Top <- MCTop
  MaxLength = 6
  Calls <- MCCalls
  MaxSize = 100
  Garbage = garbage
  Guard = guard
INVARIANTS DecompressInv DecodesStream TagIsReadable DecodesInv NoOverrun
  TableFollowsFormat ReaderFollowsParser EncodingIsReadBack
PROPERTY Returns
CHECK_DEADLOCK FALSE
