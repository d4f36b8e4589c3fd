SPECIFICATION Spec
CONSTANTS
  None = None
  Given <- MCGiven
  Joins <- MCJoins
  Numbers <- MCNumbers
  Drawn <- MCDrawn
  RevisionIds = {"p1", "p2"}
  ReceiptIds = {"receipt1"}
  Findings = {"finding"}
  Probes = {None, "copy"}
  Cases <- MCCases
  Goldens <- MCGoldens
  MaxRecorded = 3
INVARIANTS TypeOK ClosedOnImport ActionableIsBacked EdgesAsMeasured GoldensAccepted
