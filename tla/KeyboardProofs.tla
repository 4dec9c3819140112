--------------------------- MODULE KeyboardProofs ---------------------------
(***************************************************************************)
(* Proofs about Keyboard, for every size of the matrix, every keymap whose *)
(* codes have one position each, every number of report slots and every    *)
(* DEBOUNCE.                                                               *)
(***************************************************************************)
EXTENDS Keyboard, TLAPS

USE DEF ReportSlots

(***************************************************************************)
(* The inductive invariant.                                                *)
(***************************************************************************)

\* The rows that this scan has not reached are as the last scan left them, and
\* until a row differs the count tells how many scans have agreed.
ScanCounted ==
  /\ \A p \in Positions : p[1] >= row => (p \in matrix_debouncing <=> p \in lastScan)
  /\ \/ matrix_debouncing = lastScan /\ debouncing + steady = DEBOUNCE
     \/ matrix_debouncing # lastScan /\ debouncing = DEBOUNCE

\* The driver has the present report, the modifiers are those held, and each slot
\* has a key that is held and in no other slot.
SlotsHeld ==
  /\ reported = [mods |-> real_mods, keys |-> keys]
  /\ real_mods = Held \cap Modifiers
  /\ \A i \in ReportSlots : keys[i] # KC_NO => keys[i] \in Held \ Modifiers
  /\ \A i, j \in ReportSlots : keys[i] = keys[j] /\ keys[i] # KC_NO => i = j

\* Every key that is held has a slot, until one found none.
HeldHasSlot ==
  ~overflowed => \A k \in Held \ Modifiers : \E i \in ReportSlots : keys[i] = k

IInv == TypeOK /\ ScanCounted /\ SlotsHeld /\ HeldHasSlot

(***************************************************************************)
(* The report.                                                             *)
(***************************************************************************)

\* add_key_byte fills at most one empty slot and touches no other; the code has a
\* slot afterwards unless there was none.
LEMMA AddKey ==
  ASSUME keys \in [ReportSlots -> Codes \cup {KC_NO}],
         NEW k \in Codes, add_key(k)
  PROVE  /\ keys' \in [ReportSlots -> Codes \cup {KC_NO}]
         /\ \A i \in ReportSlots : keys'[i] = keys[i] \/ (keys[i] = KC_NO /\ keys'[i] = k)
         /\ (\A i, j \in ReportSlots : keys[i] = keys[j] /\ keys[i] # KC_NO => i = j)
            => \A i, j \in ReportSlots : keys'[i] = keys'[j] /\ keys'[i] # KC_NO => i = j
         /\ SlotsWith(KC_NO) # {} => \E i \in ReportSlots : keys'[i] = k
<1>1. CASE SlotsWith(k) # {} \/ SlotsWith(KC_NO) = {}
  BY <1>1 DEF add_key, SlotsWith
<1>2. CASE ~(SlotsWith(k) # {} \/ SlotsWith(KC_NO) = {})
  <2>1. PICK e \in SlotsWith(KC_NO) : keys' = [keys EXCEPT ![e] = k]
    BY <1>2 DEF add_key
  <2>2. e \in ReportSlots /\ keys[e] = KC_NO /\ \A i \in ReportSlots : keys[i] # k
    BY <1>2 DEF SlotsWith
  <2>3. QED
    BY <2>1, <2>2
<1>3. QED
  BY <1>1, <1>2

\* del_key_byte clears every slot with the code and touches no other.
LEMMA DelKey ==
  ASSUME keys \in [ReportSlots -> Codes \cup {KC_NO}], NEW k, del_key(k)
  PROVE  /\ keys' \in [ReportSlots -> Codes \cup {KC_NO}]
         /\ \A i \in ReportSlots : keys'[i] = IF keys[i] = k THEN KC_NO ELSE keys[i]
BY DEF del_key

(***************************************************************************)
(* The invariant holds at the start and no step breaks it.                 *)
(***************************************************************************)
LEMMA InitIInv == Init => IInv
<1> SUFFICES ASSUME Init PROVE IInv
  OBVIOUS
<1> USE KeyboardAssumption DEF Init, Empty
<1>1. TypeOK
  <2>1. /\ DEBOUNCE \in Nat
        /\ 0 \in 0 .. DEBOUNCE
        /\ DEBOUNCE \in 0 .. DEBOUNCE
        /\ 0 \in 0 .. MATRIX_ROWS
    OBVIOUS
  <2>2. keys \in [ReportSlots -> Codes \cup {KC_NO}]
    OBVIOUS
  <2>3. reported \in [mods : SUBSET Modifiers, keys : [ReportSlots -> Codes \cup {KC_NO}]]
    <3>1. reported = [mods |-> {}, keys |-> keys]
      OBVIOUS
    <3>2. QED
      BY <2>2, <3>1
  <2>4. QED
    BY <2>1, <2>2, <2>3 DEF TypeOK
<1>2. ScanCounted
  BY DEF ScanCounted
<1>3. Held = {}
  BY DEF Held
<1>4. SlotsHeld /\ HeldHasSlot
  BY <1>3 DEF SlotsHeld, HeldHasSlot
<1>5. QED
  BY <1>1, <1>2, <1>4 DEF IInv

LEMMA ScanRowKeeps == IInv /\ ScanRow => IInv'
<1> SUFFICES ASSUME IInv, ScanRow PROVE IInv'
  OBVIOUS
<1> USE KeyboardAssumption
<1>1. row \in Nat /\ row' = row + 1 /\ UNCHANGED <<lastScan, steady>>
  BY DEF IInv, TypeOK, ScanRow, scanHistory
<1>2. \A p \in Positions : p[1] \in Nat
  BY DEF Positions
<1>3. CASE RowOf(switches, row) = RowOf(matrix_debouncing, row)
  <2>1. UNCHANGED <<matrix_debouncing, debouncing>>
    BY <1>3 DEF ScanRow
  <2>2. ScanCounted'
    BY <1>1, <1>2, <2>1 DEF IInv, ScanCounted
  <2>3. TypeOK'
    BY <1>1, <2>1 DEF IInv, TypeOK, ScanRow, reportVars
  <2>4. QED
    BY <2>2, <2>3 DEF IInv, SlotsHeld, HeldHasSlot, Held, ScanRow, reportVars
<1>4. CASE RowOf(switches, row) # RowOf(matrix_debouncing, row)
  <2>1. matrix_debouncing' = WithRow(matrix_debouncing, row) /\ debouncing' = DEBOUNCE
    BY <1>4 DEF ScanRow
  <2>2. matrix_debouncing' \subseteq Positions
    BY <2>1 DEF WithRow, RowOf, IInv, TypeOK
  <2>3. \A p \in Positions : p[1] # row =>
          (p \in matrix_debouncing' <=> p \in matrix_debouncing)
    BY <2>1 DEF WithRow, RowOf
  <2>4. RowOf(matrix_debouncing', row) = RowOf(switches, row)
    BY <2>1 DEF WithRow, RowOf
  <2>5. RowOf(matrix_debouncing, row) = RowOf(lastScan, row)
    BY <1>1 DEF RowOf, IInv, ScanCounted, TypeOK
  <2>6. matrix_debouncing' # lastScan'
    BY <1>1, <1>4, <2>4, <2>5
  <2>7. ScanCounted'
    BY <1>1, <1>2, <2>1, <2>3, <2>6 DEF IInv, ScanCounted
  <2>8. TypeOK'
    BY <1>1, <2>1, <2>2 DEF IInv, TypeOK, ScanRow, reportVars
  <2>9. QED
    BY <2>7, <2>8 DEF IInv, SlotsHeld, HeldHasSlot, Held, ScanRow, reportVars
<1>5. QED
  BY <1>3, <1>4

\* The end of a scan, with what it takes over.
LEMMA EndScanKeeps ==
  ASSUME IInv, EndScan
  PROVE  /\ IInv'
         /\ matrix' # matrix => matrix' = lastScan' /\ steady' = DEBOUNCE
<1>1. /\ debouncing \in 0 .. DEBOUNCE
      /\ steady \in 0 .. DEBOUNCE
      /\ DEBOUNCE \in Nat
  BY KeyboardAssumption DEF IInv, TypeOK
<1>2. /\ debouncing' = IF debouncing = 0 THEN 0 ELSE debouncing - 1
      /\ lastScan' = matrix_debouncing /\ matrix_debouncing' = matrix_debouncing
  BY DEF EndScan, RecordScan
<1>3. /\ debouncing' \in 0 .. DEBOUNCE
      /\ steady' \in 0 .. DEBOUNCE
      /\ debouncing' + steady' = DEBOUNCE
      /\ debouncing = 1 => steady' = DEBOUNCE
  <2>1. CASE matrix_debouncing = lastScan
    <3>1. debouncing + steady = DEBOUNCE
      BY <2>1 DEF IInv, ScanCounted
    <3>2. steady' = IF steady + 1 <= DEBOUNCE THEN steady + 1 ELSE DEBOUNCE
      BY <2>1 DEF EndScan, RecordScan
    <3>3. QED
      BY <1>1, <1>2, <3>1, <3>2
  <2>2. CASE matrix_debouncing # lastScan
    <3>1. debouncing = DEBOUNCE
      BY <2>2 DEF IInv, ScanCounted
    <3>2. steady' = IF 1 <= DEBOUNCE THEN 1 ELSE DEBOUNCE
      BY <2>2 DEF EndScan, RecordScan
    <3>3. QED
      BY <1>1, <1>2, <3>1, <3>2
  <2>3. QED
    BY <2>1, <2>2
<1>4. ScanCounted'
  BY <1>2, <1>3 DEF ScanCounted
<1>5. TypeOK'
  BY <1>2, <1>3 DEF IInv, TypeOK, EndScan, reportVars
<1>6. IInv'
  BY <1>4, <1>5 DEF IInv, SlotsHeld, HeldHasSlot, Held, EndScan, reportVars
<1>7. matrix' # matrix => matrix' = lastScan' /\ steady' = DEBOUNCE
  <2> SUFFICES ASSUME matrix' # matrix PROVE matrix' = lastScan' /\ steady' = DEBOUNCE
    OBVIOUS
  <2>1. debouncing = 1 /\ matrix' = matrix_debouncing
    BY DEF EndScan
  <2>2. QED
    BY <1>2, <1>3, <2>1
<1>8. QED
  BY <1>6, <1>7

(***************************************************************************)
(* One key event.                                                          *)
(***************************************************************************)

\* What is held after the event of a position: its code is added, or taken away.
LEMMA HeldAfter ==
  ASSUME TypeOK, NEW p \in Changed,
         matrix_prev' = IF p \in matrix THEN matrix_prev \cup {p} ELSE matrix_prev \ {p}
  PROVE  /\ p \in Positions /\ keymap[p] \in Codes \cup {KC_NO}
         /\ p \in matrix => Held' = Held \cup ({keymap[p]} \ {KC_NO})
         /\ p \notin matrix => Held' = Held \ {keymap[p]}
<1> USE KeymapAssumption
<1>1. /\ p \in Positions /\ keymap[p] \in Codes \cup {KC_NO}
      /\ matrix_prev \subseteq Positions
  BY DEF TypeOK, Changed
<1>2. CASE p \in matrix
  BY <1>1, <1>2 DEF Held
<1>3. CASE p \notin matrix
  <2>1. p \in matrix_prev /\ matrix_prev' = matrix_prev \ {p}
    BY <1>3 DEF Changed
  <2>2. \A q \in matrix_prev : keymap[q] = keymap[p] /\ keymap[q] # KC_NO => q = p
    BY <1>1
  <2>3. QED
    BY <1>1, <1>3, <2>1, <2>2 DEF Held
<1>4. QED
  BY <1>1, <1>2, <1>3

LEMMA KeyEventKeeps ==
  ASSUME IInv, NEW p \in Positions, KeyEvent(p)
  PROVE  IInv'
<1> USE KeyboardAssumption
<1> DEFINE k == keymap[p]
<1>1. /\ p \in Changed
      /\ matrix_prev' = IF p \in matrix THEN matrix_prev \cup {p} ELSE matrix_prev \ {p}
      /\ process_action(k, p \in matrix)
      /\ overflowed' = /\ matrix_prev' # {}
                       /\ \/ overflowed
                          \/ p \in matrix /\ NeedsSlot(p) /\ SlotsWith(KC_NO) = {}
  BY DEF KeyEvent, IsFirst
<1>2. /\ k \in Codes \cup {KC_NO}
      /\ p \in matrix => Held' = Held \cup ({k} \ {KC_NO})
      /\ p \notin matrix => Held' = Held \ {k}
  BY <1>1, HeldAfter DEF IInv
<1>3. /\ keys \in [ReportSlots -> Codes \cup {KC_NO}]
      /\ matrix_prev \subseteq Positions
      /\ matrix \subseteq Positions
      /\ KC_NO \notin Held
  BY DEF IInv, TypeOK, Held
<1>4. matrix_prev' = {} => Held' = {}
  BY DEF Held
<1>5. ScanCounted'
  BY DEF IInv, ScanCounted, KeyEvent, matrixVars, scanHistory
<1>6. SlotsHeld' /\ HeldHasSlot' /\ keys' \in [ReportSlots -> Codes \cup {KC_NO}]
  <2>1. CASE k = KC_NO
    <3>1. UNCHANGED <<keys, real_mods, reported>> /\ Held' = Held
      BY <1>1, <1>2, <1>3, <2>1 DEF process_action, reportVars
    <3>2. overflowed' = (matrix_prev' # {} /\ overflowed)
      BY <1>1, <2>1 DEF NeedsSlot
    <3>3. QED
      BY <1>3, <1>4, <3>1, <3>2 DEF IInv, SlotsHeld, HeldHasSlot
  <2>2. CASE k \in Modifiers
    <3>1. k # KC_NO
      BY <2>2
    <3>2. /\ keys' = keys
          /\ real_mods' = IF p \in matrix THEN real_mods \cup {k} ELSE real_mods \ {k}
          /\ reported' = [mods |-> real_mods', keys |-> keys']
      BY <1>1, <2>2, <3>1
         DEF process_action, register_code, unregister_code, send_keyboard_report
    <3>3. Held' \ Modifiers = Held \ Modifiers
      BY <1>2, <2>2
    <3>4. real_mods' = Held' \cap Modifiers
      BY <1>2, <2>2, <3>1, <3>2 DEF IInv, SlotsHeld
    <3>5. overflowed' = (matrix_prev' # {} /\ overflowed)
      BY <1>1, <2>2 DEF NeedsSlot
    <3>6. QED
      BY <1>3, <1>4, <3>2, <3>3, <3>4, <3>5 DEF IInv, SlotsHeld, HeldHasSlot
  <2>3. CASE k \in Codes \ Modifiers /\ p \in matrix
    <3>1. k # KC_NO
      BY <2>3
    <3>2. /\ add_key(k)
          /\ real_mods' = real_mods
          /\ reported' = [mods |-> real_mods', keys |-> keys']
      BY <1>1, <2>3, <3>1 DEF process_action, register_code, send_keyboard_report
    <3>3. Held' = Held \cup {k}
      BY <1>2, <2>3, <3>1
    <3>4. /\ keys' \in [ReportSlots -> Codes \cup {KC_NO}]
          /\ \A i \in ReportSlots : keys'[i] = keys[i] \/ (keys[i] = KC_NO /\ keys'[i] = k)
          /\ \A i, j \in ReportSlots : keys'[i] = keys'[j] /\ keys'[i] # KC_NO => i = j
          /\ SlotsWith(KC_NO) # {} => \E i \in ReportSlots : keys'[i] = k
      <4>1. \A i, j \in ReportSlots : keys[i] = keys[j] /\ keys[i] # KC_NO => i = j
        BY DEF IInv, SlotsHeld
      <4>2. QED
        BY <1>3, <2>3, <3>2, <4>1, AddKey
    <3>5. real_mods' = Held' \cap Modifiers
      BY <2>3, <3>2, <3>3 DEF IInv, SlotsHeld
    <3>6. \A i \in ReportSlots : keys'[i] # KC_NO => keys'[i] \in Held' \ Modifiers
      BY <2>3, <3>3, <3>4 DEF IInv, SlotsHeld
    <3>7. SlotsHeld'
      BY <3>2, <3>4, <3>5, <3>6 DEF SlotsHeld
    <3>8. HeldHasSlot'
      <4>1. SUFFICES ASSUME ~overflowed', matrix_prev' # {}, NEW h \in Held' \ Modifiers
                     PROVE  \E i \in ReportSlots : keys'[i] = h
        BY <1>4 DEF HeldHasSlot
      <4>2. ~overflowed /\ SlotsWith(KC_NO) # {}
        BY <1>1, <2>3, <3>1, <4>1 DEF NeedsSlot
      <4>3. CASE h = k
        BY <3>4, <4>2, <4>3
      <4>4. CASE h # k
        <5>1. h \in Held \ Modifiers
          BY <3>3, <4>4
        <5>2. PICK i \in ReportSlots : keys[i] = h
          BY <4>2, <5>1 DEF IInv, HeldHasSlot
        <5>3. keys'[i] = h
          BY <1>3, <3>4, <5>1, <5>2
        <5>4. QED
          BY <5>3
      <4>5. QED
        BY <4>3, <4>4
    <3>9. QED
      BY <3>4, <3>7, <3>8
  <2>4. CASE k \in Codes \ Modifiers /\ p \notin matrix
    <3>1. k # KC_NO
      BY <2>4
    <3>2. /\ del_key(k)
          /\ real_mods' = real_mods
          /\ reported' = [mods |-> real_mods', keys |-> keys']
      BY <1>1, <2>4, <3>1 DEF process_action, unregister_code, send_keyboard_report
    <3>3. Held' = Held \ {k}
      BY <1>2, <2>4
    <3>4. /\ keys' \in [ReportSlots -> Codes \cup {KC_NO}]
          /\ \A i \in ReportSlots : keys'[i] = IF keys[i] = k THEN KC_NO ELSE keys[i]
      BY <1>3, <3>2, DelKey
    <3>5. real_mods' = Held' \cap Modifiers
      BY <2>4, <3>2, <3>3 DEF IInv, SlotsHeld
    <3>6. /\ \A i \in ReportSlots : keys'[i] # KC_NO => keys'[i] \in Held' \ Modifiers
          /\ \A i, j \in ReportSlots : keys'[i] = keys'[j] /\ keys'[i] # KC_NO => i = j
      BY <3>3, <3>4 DEF IInv, SlotsHeld
    <3>7. SlotsHeld'
      BY <3>2, <3>5, <3>6 DEF SlotsHeld
    <3>8. HeldHasSlot'
      <4>1. SUFFICES ASSUME ~overflowed', matrix_prev' # {}, NEW h \in Held' \ Modifiers
                     PROVE  \E i \in ReportSlots : keys'[i] = h
        BY <1>4 DEF HeldHasSlot
      <4>2. ~overflowed /\ h # k /\ h \in Held \ Modifiers
        BY <1>1, <3>3, <4>1
      <4>3. QED
        BY <3>4, <4>2 DEF IInv, HeldHasSlot
    <3>9. QED
      BY <3>4, <3>7, <3>8
  <2>5. QED
    BY <1>2, <2>1, <2>2, <2>3, <2>4
<1>7. TypeOK'
  <2>1. matrix_prev' \subseteq Positions
    BY <1>1, <1>3
  <2>2. overflowed' \in BOOLEAN
    BY <1>1
  <2>3. real_mods' \subseteq Modifiers
    BY <1>6 DEF SlotsHeld
  <2>4. reported' \in [mods : SUBSET Modifiers, keys : [ReportSlots -> Codes \cup {KC_NO}]]
    BY <1>6, <2>3 DEF SlotsHeld
  <2>5. QED
    BY <1>6, <2>1, <2>2, <2>3, <2>4 DEF IInv, TypeOK, KeyEvent, matrixVars, scanHistory
<1>8. QED
  BY <1>5, <1>6, <1>7 DEF IInv

LEMMA EndTaskKeeps == IInv /\ EndTask => IInv'
<1> SUFFICES ASSUME IInv, EndTask PROVE IInv'
  OBVIOUS
<1> USE DEF EndTask, matrixVars, reportVars, scanHistory
<1>1. TypeOK'
  BY DEF IInv, TypeOK
<1>2. ScanCounted'
  BY DEF IInv, ScanCounted
<1>3. QED
  BY <1>1, <1>2 DEF IInv, SlotsHeld, HeldHasSlot, Held

LEMMA ToggleKeeps == ASSUME IInv, NEW p \in Positions, Toggle(p) PROVE IInv'
<1> USE DEF Toggle, matrixVars, reportVars, scanHistory
<1>1. TypeOK'
  BY DEF IInv, TypeOK
<1>2. ScanCounted'
  BY DEF IInv, ScanCounted
<1>3. QED
  BY <1>1, <1>2 DEF IInv, SlotsHeld, HeldHasSlot, Held

LEMMA StutterKeeps == IInv /\ UNCHANGED vars => IInv'
<1> SUFFICES ASSUME IInv, UNCHANGED vars PROVE IInv'
  OBVIOUS
<1>1. TypeOK'
  BY DEF IInv, TypeOK, vars
<1>2. ScanCounted'
  BY DEF IInv, ScanCounted, vars
<1>3. QED
  BY <1>1, <1>2 DEF IInv, SlotsHeld, HeldHasSlot, Held, vars

LEMMA NextKeeps == IInv /\ [Next]_vars => IInv'
<1> SUFFICES ASSUME IInv, [Next]_vars PROVE IInv'
  OBVIOUS
<1>1. CASE ScanRow
  BY <1>1, ScanRowKeeps
<1>2. CASE EndScan
  BY <1>2, EndScanKeeps
<1>3. ASSUME NEW p \in Positions, KeyEvent(p) PROVE IInv'
  BY <1>3, KeyEventKeeps
<1>4. CASE EndTask
  BY <1>4, EndTaskKeeps
<1>5. ASSUME NEW p \in Positions, Toggle(p) PROVE IInv'
  BY <1>5, ToggleKeeps
<1>6. CASE UNCHANGED vars
  BY <1>6, StutterKeeps
<1>7. QED
  BY <1>1, <1>2, <1>3, <1>4, <1>5, <1>6 DEF Next, Task

\* The inductive invariant holds in every reachable state.
THEOREM Invariance == Spec => []IInv
<1>1. QED
  BY InitIInv, NextKeeps, PTL DEF Spec

(***************************************************************************)
(* The properties.                                                         *)
(***************************************************************************)

\* Every variable of the scan, the task and the report keeps its type.
THEOREM TypeCorrect == Spec => []TypeOK
<1>1. IInv => TypeOK
  BY DEF IInv
<1>2. QED
  BY <1>1, Invariance, PTL

\* No key sticks in the report: with any number of keys, rolled over the slots in
\* any order, a key that is up is not shown (unregister_code, del_key_byte).
THEOREM NoKeySticks == Spec => []NoStuckKey
<1>1. IInv => NoStuckKey
  <2> SUFFICES ASSUME IInv PROVE NoStuckKey
    OBVIOUS
  <2>1. /\ reported.mods = Held \cap Modifiers
        /\ reported.keys = keys
    BY DEF IInv, SlotsHeld
  <2>2. Shown \subseteq Held
    BY <2>1 DEF Shown, IInv, SlotsHeld
  <2>3. QED
    BY <2>1, <2>2 DEF NoStuckKey, IInv, SlotsHeld
<1>2. QED
  BY <1>1, Invariance, PTL

\* No key is lost until one finds no slot (register_code, add_key_byte).
THEOREM NoKeyIsLost == Spec => []NoLostKey
<1>1. IInv => NoLostKey
  <2> SUFFICES ASSUME IInv, ~overflowed PROVE Shown = Held
    BY DEF NoLostKey
  <2>1. /\ reported.mods = Held \cap Modifiers
        /\ reported.keys = keys
    BY DEF IInv, SlotsHeld
  <2>2. Shown \subseteq Held
    BY <2>1 DEF Shown, IInv, SlotsHeld
  <2>3. KC_NO \notin Held
    BY DEF Held
  <2>4. Held \subseteq Shown
    BY <2>1, <2>3 DEF Shown, IInv, HeldHasSlot
  <2>5. QED
    BY <2>2, <2>4
<1>2. QED
  BY <1>1, Invariance, PTL

\* Bounces are filtered: the matrix takes over only what the last DEBOUNCE scans
\* have all read (matrix_scan).
THEOREM BouncesAreFiltered == Spec => TakenOverSteady
<1> DEFINE Steady == matrix' # matrix => matrix' = lastScan' /\ steady' = DEBOUNCE
<1>1. IInv /\ [Next]_vars => [Steady]_vars
  <2> SUFFICES ASSUME IInv, Next PROVE Steady
    OBVIOUS
  <2>1. CASE EndScan
    BY <2>1, EndScanKeeps
  <2>2. CASE matrix' = matrix
    BY <2>2
  <2>3. QED
    BY <2>1, <2>2 DEF Next, Task, ScanRow, KeyEvent, EndTask, Toggle, matrixVars
<1>2. QED
  BY <1>1, Invariance, PTL DEF Spec, TakenOverSteady

\* config.h:36 says "Set 0 if debouncing isn't needed".  It turns the keyboard off: the
\* count never is above zero at the end of a scan, so nothing is ever taken over
\* (matrix_scan) and the driver gets no report with a key in it.
THEOREM NoDebounceNoKeys ==
  ASSUME DEBOUNCE = 0
  PROVE  Spec => [](reported = Empty)
<1> DEFINE Off == matrix = {} /\ matrix_prev = {} /\ reported = Empty
<1>1. Init => Off
  BY DEF Init
<1>2. IInv /\ Off /\ [Next]_vars => Off'
  <2> SUFFICES ASSUME IInv, Off, [Next]_vars PROVE Off'
    OBVIOUS
  <2>1. CASE EndScan
    <3>1. debouncing = 0
      BY DEF IInv, TypeOK
    <3>2. matrix' = matrix
      BY <2>1, <3>1 DEF EndScan
    <3>3. QED
      BY <2>1, <3>2 DEF EndScan, reportVars, Empty
  <2>2. ASSUME NEW p \in Positions, KeyEvent(p) PROVE FALSE
    <3>1. p \in Changed
      BY <2>2 DEF KeyEvent, IsFirst
    <3>2. QED
      BY <3>1 DEF Changed
  <2>3. CASE UNCHANGED <<matrix, matrix_prev, reported>>
    BY <2>3 DEF Empty
  <2>4. QED
    BY <2>1, <2>2, <2>3
       DEF Next, Task, ScanRow, EndTask, Toggle, matrixVars, reportVars, vars
<1>3. QED
  BY <1>1, <1>2, Invariance, PTL DEF Spec
=============================================================================
