CONSTANTS
  Password <- MCPasswords
  Rounds <- MCRounds
  MaxRows = 2
SPECIFICATION Spec
CONSTRAINT Explored
INVARIANTS
  Verifies
  CostKept
  RowsDiffer
