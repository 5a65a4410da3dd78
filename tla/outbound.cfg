SPECIFICATION Spec
CONSTANTS
  PhoneNumbers <- MCPhones
  Steady <- MCSteady
  Late <- MCLate
  MaxTail = 16
INVARIANTS OnlyTheAnswerIsSent RecordIsOneChunk DelayIsBounded
CHECK_DEADLOCK FALSE
