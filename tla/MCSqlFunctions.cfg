CONSTANTS
  Plain <- MCPlain
  Data = {"d"}
  Lengths = {0, 1, 1024, 1025}
  MaxRows = 3
SPECIFICATION SqlSpec
INVARIANTS
  FreshEveryRow
  NamesAgree
