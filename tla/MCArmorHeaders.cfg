CONSTANTS
  Data <- MCData
  Char = {"a", "b", "colon", "NL", "e-acute", "body", "more"}
  Arrays <- MCArrays
  NULL = NULL
SPECIFICATION Spec
INVARIANTS
  HeadersReadBack
  ArmorIsAscii
