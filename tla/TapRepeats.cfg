CONSTANTS
  Keys = {0, 1, 2, 3}
  TapKeys = {0, 2}
  ModKeys = {3}
  codeOf <- MCcodeOf
  modOf <- MCmodOf
  TAPPING_TERM = 2
  TIME_RANGE = 9
  COUNTER_RANGE = 8
  MAX_TAP_COUNT = 2
  WAITING_BUFFER_SIZE = 8
  MAX_TASKS = 2
  None = None
SPECIFICATION Spec
INVARIANT NoUnexpectedRepeat
