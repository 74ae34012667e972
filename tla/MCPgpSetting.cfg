CONSTANTS
  Data = {"lf", "crlf"}
  Bodies = {"lf", "crlf", "crcrlf"}
  HasNul = {}
  Utf8 = {"lf", "crlf", "crcrlf"}
  crlf_encode <- MCEncode
  crlf_decode <- MCDecode
  NoValue = NoValue
  Password = {"p", "q"}
  Options = {}
  RandomU32 = {0}
  OtherSkesks = {}
  OtherLiterals = {}
  MaxMessages = 1
  IntOf <- MCIntOf
  Inputs <- MCInputs
SPECIFICATION SettingSpec
INVARIANTS
  SettingReadsBack
