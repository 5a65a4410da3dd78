SPECIFICATION Spec
CONSTANTS
  PhoneNumbers <- MCPhones
  Steady <- MCSteady
  Late <- MCLate
  MaxTail = 16
INVARIANT ChunkBoundaryStable
CHECK_DEADLOCK FALSE
