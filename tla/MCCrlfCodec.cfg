CONSTANTS
  Byte <- MCByte
  CR = "CR"
  LF = "LF"
  Texts <- MCTexts
SPECIFICATION Spec
INVARIANTS
  TypeOK
  RoundTrip
  NoBareLF
  DecodeExact
