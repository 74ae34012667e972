CONSTANTS
  Data = {"lf"}
  Bodies = {"lf", "crlf"}
  HasNul = {}
  Utf8 = {"lf", "crlf"}
  crlf_encode <- MCEncode
  crlf_decode <- MCDecode
  NoValue = NoValue
  Certs <- MCCerts
  Password = {"p", "q"}
  Options <- MCOptions
  OtherEsks <- MCOtherEsks
  OtherLiterals <- MCOtherLiterals
  MaxMessages = 1
  MaxTime = 1
  MaxAnswers = 1
SPECIFICATION Spec
INVARIANTS
  TypeOK
  Authentic
  HolderReads
  BlamesKeyRightly
  AllOrNothing
  KeyIdNamesRecipient
PROPERTIES
  PubImplementsSealedStore
