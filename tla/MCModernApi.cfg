CONSTANTS
  Texts <- MCTexts
  Keys <- MCKeys
  Ads = {"none", "ad"}
  Cuts <- MCCuts
  Lengths <- MCLengths
  MaxMade = 2
SPECIFICATION Spec
INVARIANTS
  TypeOK
  OpensOnlyGenuine
  GenuineOpens
  SignatureBinds
  HkdfLength
