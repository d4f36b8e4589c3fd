\* The command line over the conformance corpus: what it reports of every golden,
\* and what it exits with.
SPECIFICATION CommandSpec

CONSTANTS
  None = None
  EvidenceIds <- MCEvidenceIds
  AssetIds <- MCAssetIds
  Bytes <- MCBytes
  Texts <- MCTexts
  Headers <- MCHeaders
  Lines <- MCLines
  ManifestBudget = 4
  PersistentCaller = FALSE
  MaxLines = 30
  Contents <- MCContents
  CommandLines <- MCCommandLines

INVARIANTS
  GoldensAsExpected
  ExitIsMostSevere
