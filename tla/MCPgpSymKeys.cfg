CONSTANTS
  Data <- MCKeyData
  Bodies <- MCBodies
  HasNul <- MCHasNul
  Utf8 <- MCUtf8
  crlf_encode <- MCKeyEncode
  crlf_decode <- MCDecode
  NoValue = NoValue
  Password = {"p", "q"}
  Options <- MCKeyOptions
  RandomU32 = {0}
  OtherSkesks <- MCOneSkesk
  OtherLiterals <- MCOneLiteral
  MaxMessages = 2
SPECIFICATION Spec
INVARIANTS
  KeysFresh
