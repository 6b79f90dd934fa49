\* One configuration change, no press.
SPECIFICATION Spec
CONSTANTS
  Press = {}
  MaxChange = 1
CHECK_DEADLOCK FALSE
INVARIANT StopClosesRoutine
