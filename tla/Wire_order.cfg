SPECIFICATION Spec
CONSTANTS
  None = None
  MinInt <- MCMinInt
  MaxInt = 127
  MaxPrecision = 2
  LongRange <- MCLong
  Int32Range <- MCInt32
  Int16Range <- MCInt16
  Doubles <- MCDoubles
  MemberKeys = {"$ant", "v", "w"}
  ArrayDepth = 1
  Families = {"column"}
  Column <- MCNumbers
  Literals <- MCLiterals
  Instants = {0}
  Revision = "o2"
  CallerMetadata <- MCMetadata
  Conditions <- MCConditions
  Documents <- MCTexts
  PathLists <- MCPathLists
  MaxNesting = 3
  ValueBytes = 1
  MaxBytes = 9
  ChunkMaxBytes = 8
INVARIANT TotalOrder
CHECK_DEADLOCK FALSE
