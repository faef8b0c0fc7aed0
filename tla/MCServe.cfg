CONSTANTS
  MaxHandlers = 2
SPECIFICATION Spec
INVARIANTS TypeOK ReadyMeansBound CleanExit
PROPERTIES Terminates NoLeakedGoroutine ReadinessWithdrawn
