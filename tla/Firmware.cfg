CONSTANTS
  KC_NO = KC_NO
  NoKeys <- MCNoKeys
  Reports <- MCReports
  MAX_BUFFER_ENTRIES = 2
  TxQueueSize = 1
  MaxEvents = 1
  MATRIX_ROWS = 1
  MATRIX_COLS = 1
  Codes <- MCCodes
  Modifiers = {}
  keymap <- MCkeymap
  KEYBOARD_REPORT_KEYS = 1
  DEBOUNCE = 1
SPECIFICATION FwFairSpec
INVARIANTS FwTypeOK HostShowsHeld
PROPERTY ReachesHost
