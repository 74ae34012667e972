CONSTANTS
  IntOf <- MCIntOf
  Inputs <- MCInputs
SPECIFICATION Spec
INVARIANTS
  TypeOK
  ParsersAgree
  CountImpliesIterated
  MdcNeverDisabled
  LastSettingWins
