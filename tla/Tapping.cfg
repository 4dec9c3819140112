CONSTANTS
  Keys = {0, 1, 2}
  TapKeys = {0, 2}
  ModKeys = {}
  codeOf <- MCcodeOf
  modOf <- MCmodOf
  TAPPING_TERM = 1
  TIME_RANGE = 4
  COUNTER_RANGE = 4
  MAX_TAP_COUNT = 2
  WAITING_BUFFER_SIZE = 5
  MAX_TASKS = 2
  None = None
SPECIFICATION FairSpec
INVARIANTS TypeOK NoStuckKey NoLostKey FirstTapIsLetGo
PROPERTY TapSettles
