CONSTANTS
  Reader = {1, 2}
  INPUT_BUF = 2
  UINT = 4
  Key = {"ctl", "enter", "d", "h", "p", "u"}
  N <- MCN
SPECIFICATION Spec
INVARIANTS
  SleepersHaveReason
PROPERTIES
  TtySpec
