SPECIFICATION MCSpec
CONSTANTS
  Base = 128
  Top = 16
  Texts <- MCTexts
  Pieces <- MCPieces
  BlockSize = 80
  MinTable = 4
  SmallTable = 8
  MaxTable = 16
  Hashes <- MCHashes
  Hash <- MCHash
  Garbage = 256
  Matches <- MCMatches
  Offsets <- MCOffsets
  Literals <- MCLiterals
INVARIANTS CompressInv RoundTrip TableIsPast LoadsInside MatchIsLongest OutputFits
  CopiesShrink LiteralIsReadBack
PROPERTIES PiecesAreReadBack Finishes
CHECK_DEADLOCK FALSE
