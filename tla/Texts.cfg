CONSTANTS
  Rows <- MCRows
  Lower <- MCLower
  Length <- MCLength
  Distance <- MCDistance
  Unknown = Unknown
  None = None
  Words <- MCWords
  MaxWords = 3
  Preamble <- MCPreamble
  MaxBefore = 5
  MaxObject = 6
  Scalars <- MCScalars
  MaxScalars = 2
SPECIFICATION Spec
INVARIANTS
  AnyTextWillDo
  StoreFound
  LiteralRead
CHECK_DEADLOCK FALSE
