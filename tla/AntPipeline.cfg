SPECIFICATION PipelineSpec
CONSTANTS
  None = None
  EvidenceIds <- MCEvidenceIds
  AssetIds <- MCAssetIds
  Bytes <- MCBytes
  Texts <- MCTexts
  Headers <- MCHeaders
  Lines <- MCLines
  WriterHeaders <- MCHeaders
  Submissions <- MCMoreSubmissions
  Noise <- MCNoise
  ManifestBudget = 10
  PersistentCaller = FALSE
  MaxLines = 9
  MaxWrites = 3
  MaxDamage = 1
INVARIANTS TypeOKWriter RoundTrip NoFalseAlarm
