SPECIFICATION Spec
CONSTANTS
  None = None
  EvidenceIds <- MCEvidenceIds
  AssetIds <- MCAssetIds
  Bytes <- MCBytes
  Texts <- MCTexts
  Headers <- MCFewHeaders
  Lines <- MCFewLines
  ManifestBudget = 10
  PersistentCaller = TRUE
  MaxLines = 4
PROPERTIES TrailerIsLast
