SPECIFICATION FairSpec
CONSTANTS
  None = None
  EvidenceIds <- MCEvidenceIds
  AssetIds <- MCAssetIds
  Bytes <- MCBytes
  Texts <- MCTexts
  Headers <- MCHeaders
  Lines <- MCLines
  ManifestBudget = 10
  PersistentCaller = FALSE
  MaxLines = 7
INVARIANTS NothingUnaccounted
PROPERTIES ImplementsContract ReadingEnds
