CONSTANT
  Apps <- MCApps
SPECIFICATION Spec
INVARIANTS
  RoundTrip
  KeyMatters
