CONSTANTS
  Short = 3
  Ice = 5
  Empty = 8
  Grace = 2
  Off = Off
SPECIFICATION Spec
INVARIANTS TypeOK LossIsReported
PROPERTY FlapsAreAbsorbed
