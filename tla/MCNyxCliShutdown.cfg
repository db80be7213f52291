CONSTANTS
  Invocations <- MCInvocations
  BenchDuration = 2

SPECIFICATION Spec
CHECK_DEADLOCK FALSE

PROPERTY ShutdownHonouredAll
