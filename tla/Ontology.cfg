SPECIFICATION Spec
CONSTANTS
  None = None
  MaxItems = 2
  MaxDependencies = 1
  MaxPublished = 3
  MaxRetained = 2
  Vaults = {"root", "team:operations"}
  Plans <- MCPlans
  Callers <- MCCallers
  MaxPolicies = 2
  MaxSubjects = 2
INVARIANTS TypeOK OnReviewedHead ReversesItsPredecessor NothingUndisclosed ApprovedAsAttested OneContentPerRecord OneTypePerName
CHECK_DEADLOCK FALSE
