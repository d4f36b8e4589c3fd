SPECIFICATION Spec
CONSTANTS
  None = None
  MinInt <- MCMinInt
  MaxInt = 127
  MaxPrecision = 2
  LongRange <- MCLong
  Int32Range <- MCInt32
  Int16Range <- MCInt16
  Doubles <- MCDoubles
  MemberKeys = {"$ant", "v", "w"}
  ArrayDepth = 2
  Families = {"column", "decimals", "times", "observation", "chunk", "opaque", "line"}
  Column <- MCColumn
  Literals <- MCLiterals
  Instants = {0, 1, 2}
  Revision = "o2"
  CallerMetadata <- MCMetadata
  Conditions <- MCConditions
  Documents <- MCTexts
  PathLists <- MCPathLists
  MaxNesting = 3
  ValueBytes = 1
  MaxBytes = 9
  ChunkMaxBytes = 8
INVARIANTS DecimalsExact ExactOrderTotal LiteralFindsStored WindowIsContiguous MetadataRestored ExactAtThePaths AcceptsAsShared ScanBoundsTree GuardAdmitsLegitimate
 
CHECK_DEADLOCK FALSE
