CONSTANTS
  a = a
  b = b
  c = c
  shift = shift
  KC_NO = KC_NO
  MATRIX_ROWS = 2
  MATRIX_COLS = 2
  Codes <- MCCodes
  Modifiers = {shift}
  keymap <- MCkeymap
  KEYBOARD_REPORT_KEYS = 2
  DEBOUNCE = 2
SPECIFICATION FairSpec
INVARIANTS TypeOK NoStuckKey NoLostKey
PROPERTIES TakenOverSteady Settles
