CONSTANTS
  Data = {"lf"}
  Bodies = {"lf", "crlf"}
  HasNul = {}
  Utf8 = {"lf", "crlf"}
  crlf_encode <- MCEncode
  crlf_decode <- MCDecode
  NoValue = NoValue
  Certs <- MCPublic
  Password = {"p"}
  Options <- MCOptions
  OtherEsks <- MCOtherEsks
  OtherLiterals <- MCOtherLiterals
  MaxMessages = 1
  MaxTime = 1
  MaxAnswers = 2
SPECIFICATION Spec
INVARIANTS
  KeyIdImmutable
