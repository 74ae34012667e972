CONSTANTS
  Data <- MCData
  Bodies <- MCBodies
  HasNul <- MCHasNul
  Utf8 <- MCUtf8
  crlf_encode <- MCEncode
  crlf_decode <- MCDecode
  NoValue = NoValue
  Password = {"p", "q"}
  Options <- MCOptions
  RandomU32 <- MCRandom
  OtherSkesks <- MCOtherSkesks
  OtherLiterals <- MCOtherLiterals
  MaxMessages = 1
SPECIFICATION Spec
INVARIANTS
  TypeOK
  Authentic
  HolderReads
  BlamesPasswordRightly
  TextIsValid
PROPERTIES
  SymImplementsSealedStore
