------------------------------ MODULE Keyboard ------------------------------
(***************************************************************************)
(* From the switches to the keyboard report: the debounced scan of the     *)
(* matrix (kb_nrf_matrix.c), the task that turns its changes into key      *)
(* events (keyboard.c), and the actions of those events on the report      *)
(* (action.c, action_util.c) that is handed to the driver after each one.  *)
(*                                                                         *)
(* keyboard_task runs to its end in the main loop, but the switches move   *)
(* while it scans, so every read of a row is a step of its own; so is every *)
(* key event, since each sends a report.  The keymap in use has one layer  *)
(* of plain keys and modifiers (keymap_plain.c): no tap key delays an      *)
(* event, no weak or one-shot modifier is ever set.                        *)
(***************************************************************************)
EXTENDS Integers, FiniteSets

CONSTANTS
  MATRIX_ROWS, MATRIX_COLS,
  Codes,                \* the key codes of the keymap, modifiers included
  Modifiers,            \* those for which IS_MOD holds
  KC_NO,                \* no key code: an unused position, an empty slot
  keymap,               \* the code of each position
  KEYBOARD_REPORT_KEYS, \* key slots of the report; 6 in the code
  DEBOUNCE              \* 1 in the code

Positions == (0 .. MATRIX_ROWS - 1) \X (0 .. MATRIX_COLS - 1)

ASSUME KeyboardAssumption ==
  /\ MATRIX_ROWS \in Nat \ {0}
  /\ MATRIX_COLS \in Nat \ {0}
  /\ KEYBOARD_REPORT_KEYS \in Nat \ {0}
  /\ DEBOUNCE \in Nat
  /\ Modifiers \subseteq Codes
  /\ KC_NO \notin Codes

\* No code has two positions (keymap_plain.c).
ASSUME KeymapAssumption ==
  /\ keymap \in [Positions -> Codes \cup {KC_NO}]
  /\ \A p, q \in Positions : keymap[p] = keymap[q] /\ keymap[p] # KC_NO => p = q

VARIABLES
  switches,           \* the positions whose switch is closed
  matrix_debouncing,  \* the positions read as closed, row by row
  debouncing,         \* scans until matrix_debouncing is taken over
  matrix,             \* the debounced state
  matrix_prev,        \* the state whose key events have been processed
  handling,           \* keyboard_task has scanned and processes key events
  row,                \* the next row to scan
  keys, real_mods,    \* keyboard_report->keys, and the modifiers held
  reported,           \* the report last handed to the driver
  \* history
  lastScan,           \* what the last whole scan read
  steady,             \* whole scans in a row that read lastScan, up to DEBOUNCE
  overflowed          \* a key found no slot since all keys were last up

matrixVars == <<matrix_debouncing, debouncing, matrix>>
scanHistory == <<lastScan, steady>>
reportVars == <<keys, real_mods, reported>>
vars == <<switches, matrix_debouncing, debouncing, matrix, matrix_prev, handling,
          row, keys, real_mods, reported, lastScan, steady, overflowed>>

ReportSlots == 0 .. KEYBOARD_REPORT_KEYS - 1
RowOf(S, r) == {p \in S : p[1] = r}
WithRow(S, r) == (S \ RowOf(S, r)) \cup RowOf(switches, r)  \* row r read anew
SlotsWith(code) == {i \in ReportSlots : keys[i] = code}
Empty == [mods |-> {}, keys |-> [i \in ReportSlots |-> KC_NO]]

(***************************************************************************)
(* matrix_scan.                                                            *)
(***************************************************************************)

\* Faulty: the count is not started for a row that differs.
ScanRowUncounted ==
  /\ ~handling
  /\ row < MATRIX_ROWS
  /\ row' = row + 1
  /\ matrix_debouncing' = WithRow(matrix_debouncing, row)
  /\ UNCHANGED <<switches, debouncing, matrix, matrix_prev, handling, reportVars,
                 scanHistory, overflowed>>

\* Faulty: the count is left running when a row bounces.
ScanRowBouncing ==
  /\ ~handling
  /\ row < MATRIX_ROWS
  /\ row' = row + 1
  /\ matrix_debouncing' = WithRow(matrix_debouncing, row)
  /\ debouncing' = IF RowOf(switches, row) # RowOf(matrix_debouncing, row) /\ debouncing = 0
                   THEN DEBOUNCE ELSE debouncing
  /\ UNCHANGED <<switches, matrix, matrix_prev, handling, reportVars, scanHistory,
                 overflowed>>

\* One row is selected and its columns are read.  A row that differs from the
\* last read starts the debouncing of the whole matrix again.
ScanRow ==
  /\ ~handling
  /\ row < MATRIX_ROWS
  /\ row' = row + 1
  /\ IF RowOf(switches, row) = RowOf(matrix_debouncing, row)
     THEN UNCHANGED <<matrix_debouncing, debouncing>>
     ELSE /\ matrix_debouncing' = WithRow(matrix_debouncing, row)
          /\ debouncing' = DEBOUNCE
  /\ UNCHANGED <<switches, matrix, matrix_prev, handling, reportVars, scanHistory,
                 overflowed>>

\* What the scans have read, for the properties.
RecordScan ==
  /\ lastScan' = matrix_debouncing
  /\ steady' = LET n == IF lastScan = matrix_debouncing THEN steady + 1 ELSE 1
               IN  IF n <= DEBOUNCE THEN n ELSE DEBOUNCE

\* Faulty: the count is decremented when it has run out already.
EndScanUnchecked ==
  /\ ~handling
  /\ row = MATRIX_ROWS
  /\ debouncing' = debouncing - 1
  /\ matrix' = IF debouncing = 1 THEN matrix_debouncing ELSE matrix
  /\ RecordScan
  /\ handling' = TRUE
  /\ row' = 0
  /\ UNCHANGED <<switches, matrix_debouncing, matrix_prev, reportVars, overflowed>>

\* The end of the scan: the state read is taken over when the count runs out.
EndScan ==
  /\ ~handling
  /\ row = MATRIX_ROWS
  /\ debouncing' = IF debouncing = 0 THEN 0 ELSE debouncing - 1
  /\ matrix' = IF debouncing = 1 THEN matrix_debouncing ELSE matrix
  /\ RecordScan
  /\ handling' = TRUE
  /\ row' = 0
  /\ UNCHANGED <<switches, matrix_debouncing, matrix_prev, reportVars, overflowed>>

(***************************************************************************)
(* The report.                                                             *)
(***************************************************************************)

\* Faulty: the slot after the keys counted, whatever is in it.
AddKeyAtCount(code) ==
  LET n == Cardinality({i \in ReportSlots : keys[i] # KC_NO}) IN
  keys' = IF SlotsWith(code) # {} \/ n = KEYBOARD_REPORT_KEYS
          THEN keys ELSE [keys EXCEPT ![n] = code]

\* add_key_byte: a code takes the first empty slot, unless it has one or there
\* is none.
add_key(code) ==
  IF SlotsWith(code) # {} \/ SlotsWith(KC_NO) = {}
  THEN keys' = keys
  ELSE \E i \in SlotsWith(KC_NO) :
         /\ \A j \in SlotsWith(KC_NO) : i <= j
         /\ keys' = [keys EXCEPT ![i] = code]

\* Faulty: the search for the code ends at the first empty slot.
DelKeyToGap(code) ==
  keys' = [i \in ReportSlots |-> IF keys[i] = code /\ \A j \in SlotsWith(KC_NO) : i < j
                                 THEN KC_NO ELSE keys[i]]

\* del_key_byte
del_key(code) == keys' = [i \in ReportSlots |-> IF keys[i] = code THEN KC_NO ELSE keys[i]]

\* send_keyboard_report, after every change.
send_keyboard_report == reported' = [mods |-> real_mods', keys |-> keys']

register_code(code) ==
  IF code \in Modifiers
  THEN real_mods' = real_mods \cup {code} /\ keys' = keys
  ELSE add_key(code) /\ real_mods' = real_mods

unregister_code(code) ==
  IF code \in Modifiers
  THEN real_mods' = real_mods \ {code} /\ keys' = keys
  ELSE del_key(code) /\ real_mods' = real_mods

\* process_action for the key of one event; a position without a code has no
\* action.
process_action(code, pressed) ==
  IF code = KC_NO
  THEN UNCHANGED reportVars
  ELSE /\ IF pressed THEN register_code(code) ELSE unregister_code(code)
       /\ send_keyboard_report

(***************************************************************************)
(* keyboard_task after the scan: one event per change, row by row.         *)
(***************************************************************************)
Changed == (matrix \ matrix_prev) \cup (matrix_prev \ matrix)

IsFirst(p, S) ==
  /\ p \in S
  /\ \A q \in S : p[1] < q[1] \/ (p[1] = q[1] /\ p[2] <= q[2])

NeedsSlot(p) == keymap[p] # KC_NO /\ keymap[p] \notin Modifiers

KeyEvent(p) ==
  /\ handling
  /\ IsFirst(p, Changed)
  /\ process_action(keymap[p], p \in matrix)
  /\ matrix_prev' = IF p \in matrix THEN matrix_prev \cup {p} ELSE matrix_prev \ {p}
  /\ overflowed' = /\ matrix_prev' # {}
                   /\ \/ overflowed
                      \/ p \in matrix /\ NeedsSlot(p) /\ SlotsWith(KC_NO) = {}
  /\ UNCHANGED <<switches, matrixVars, handling, row, scanHistory>>

\* The tick event, which does nothing here, ends the task; the scan timer starts
\* the next one.
EndTask ==
  /\ handling
  /\ Changed = {}
  /\ handling' = FALSE
  /\ UNCHANGED <<switches, matrixVars, matrix_prev, row, reportVars, scanHistory,
                 overflowed>>

\* A switch opens or closes, bounces included.
Toggle(p) ==
  /\ switches' = (switches \ {p}) \cup ({p} \ switches)
  /\ UNCHANGED <<matrixVars, matrix_prev, handling, row, reportVars, scanHistory,
                 overflowed>>

\* Keys may be held when the keyboard starts.
Init ==
  /\ switches \in SUBSET Positions
  /\ matrix_debouncing = {}
  /\ debouncing = DEBOUNCE
  /\ matrix = {}
  /\ matrix_prev = {}
  /\ handling = FALSE
  /\ row = 0
  /\ keys = Empty.keys
  /\ real_mods = {}
  /\ reported = Empty
  /\ lastScan = {}
  /\ steady = 0
  /\ overflowed = FALSE

Task ==
  \/ ScanRow
  \/ EndScan
  \/ \E p \in Positions : KeyEvent(p)
  \/ EndTask

Next == Task \/ \E p \in Positions : Toggle(p)

\* The scan timer repeats and the task never waits for anything.
Fairness == WF_vars(Task)

Spec == Init /\ [][Next]_vars
FairSpec == Spec /\ Fairness

(***************************************************************************)
(* Properties.                                                             *)
(***************************************************************************)
TypeOK ==
  /\ switches \subseteq Positions
  /\ matrix_debouncing \subseteq Positions
  /\ debouncing \in 0 .. DEBOUNCE
  /\ matrix \subseteq Positions
  /\ matrix_prev \subseteq Positions
  /\ handling \in BOOLEAN
  /\ row \in 0 .. MATRIX_ROWS
  /\ keys \in [ReportSlots -> Codes \cup {KC_NO}]
  /\ real_mods \subseteq Modifiers
  /\ reported \in [mods : SUBSET Modifiers, keys : [ReportSlots -> Codes \cup {KC_NO}]]
  /\ lastScan \subseteq Positions
  /\ steady \in 0 .. DEBOUNCE
  /\ overflowed \in BOOLEAN

Held == {keymap[p] : p \in matrix_prev} \ {KC_NO}
Shown == reported.mods \cup ({reported.keys[i] : i \in ReportSlots} \ {KC_NO})

\* No key sticks: whatever was pressed, dropped for want of a slot and released,
\* in whatever order, the report the host last got shows only keys that are held,
\* each in one slot, and every modifier that is held (register_code,
\* unregister_code, add_key_byte, del_key_byte).
NoStuckKey ==
  /\ Shown \subseteq Held
  /\ reported.mods = Held \cap Modifiers
  /\ \A i, j \in ReportSlots :
       reported.keys[i] = reported.keys[j] /\ reported.keys[i] # KC_NO => i = j

\* No key is lost: until a key finds the report full the report shows exactly the
\* keys that are held, and releasing every key makes it exact again.
NoLostKey == ~overflowed => Shown = Held

\* Bounces are filtered: the matrix only takes over what the last DEBOUNCE whole
\* scans have all read, although the switches move between the reads of the rows
\* and one count is shared by all keys (matrix_scan).
TakenOverSteady == [][matrix' # matrix => matrix' = lastScan' /\ steady' = DEBOUNCE]_vars

\* If the switches come to rest, the keyboard comes to rest on their state.
Settles == []<><<TRUE>>_switches \/ <>[](matrix_prev = switches)
=============================================================================
