--------------------------- MODULE FirmwareProofs ---------------------------
(***************************************************************************)
(* Proofs about Firmware: the invariants of its two parts, put together.   *)
(***************************************************************************)
EXTENDS Firmware, HidLinkProofs

KP == INSTANCE KeyboardProofs

(***************************************************************************)
(* The keyboard's part.  Its lemmas are about the instance KP, Firmware is *)
(* built from the instance K: the same definitions.                        *)
(***************************************************************************)
LEMMA SizesAssumed == KP!KeyboardAssumption
  BY PartsAssumption DEF K!KeyboardAssumption, KP!KeyboardAssumption

LEMMA KeymapAssumed == KP!KeymapAssumption
  BY PartsAssumption DEF K!KeymapAssumption, KP!KeymapAssumption, K!Positions, KP!Positions

LEMMA SameNames ==
  /\ K!Positions = KP!Positions
  /\ K!ReportSlots = KP!ReportSlots
  /\ K!Held = KP!Held
  /\ K!TypeOK <=> KP!TypeOK
  /\ UNCHANGED kbVars <=> UNCHANGED KP!vars
<1>1. K!Positions = KP!Positions /\ K!ReportSlots = KP!ReportSlots /\ K!Held = KP!Held
  BY DEF K!Positions, KP!Positions, K!ReportSlots, KP!ReportSlots, K!Held, KP!Held
<1>2. K!TypeOK <=> KP!TypeOK
  BY <1>1 DEF K!TypeOK, KP!TypeOK
<1>3. UNCHANGED kbVars <=> UNCHANGED KP!vars
  BY DEF kbVars, KP!vars
<1>4. QED
  BY <1>1, <1>2, <1>3

LEMMA SameInit == K!Init => KP!Init
  BY SameNames DEF K!Init, KP!Init, K!Empty, KP!Empty

LEMMA SameScan ==
  /\ K!ScanRow => KP!ScanRow
  /\ K!EndScan => KP!EndScan
<1>1. K!ScanRow => KP!ScanRow
  BY DEF K!ScanRow, KP!ScanRow, K!RowOf, KP!RowOf, K!WithRow, KP!WithRow,
         K!reportVars, KP!reportVars, K!scanHistory, KP!scanHistory
<1>2. K!EndScan => KP!EndScan
  BY DEF K!EndScan, KP!EndScan, K!RecordScan, KP!RecordScan, K!reportVars, KP!reportVars
<1>3. QED
  BY <1>1, <1>2

LEMMA SameAction ==
  ASSUME NEW code, NEW pressed
  PROVE  K!process_action(code, pressed) <=> KP!process_action(code, pressed)
<1>1. K!add_key(code) <=> KP!add_key(code)
  BY SameNames DEF K!add_key, KP!add_key, K!SlotsWith, KP!SlotsWith
<1>2. K!del_key(code) <=> KP!del_key(code)
  BY SameNames DEF K!del_key, KP!del_key
<1>3. QED
  BY <1>1, <1>2
     DEF K!process_action, KP!process_action, K!register_code, KP!register_code,
         K!unregister_code, KP!unregister_code, K!send_keyboard_report,
         KP!send_keyboard_report, K!reportVars, KP!reportVars

LEMMA SameTask ==
  /\ \A p : K!KeyEvent(p) => KP!KeyEvent(p)
  /\ K!EndTask => KP!EndTask
  /\ \A p : K!Toggle(p) => KP!Toggle(p)
<1>1. K!Changed = KP!Changed
  BY DEF K!Changed, KP!Changed
<1>2. \A p : K!IsFirst(p, K!Changed) <=> KP!IsFirst(p, KP!Changed)
  BY <1>1 DEF K!IsFirst, KP!IsFirst
<1>3. \A p : K!NeedsSlot(p) <=> KP!NeedsSlot(p)
  BY DEF K!NeedsSlot, KP!NeedsSlot
<1>4. K!SlotsWith(KC_NO) = KP!SlotsWith(KC_NO)
  BY SameNames DEF K!SlotsWith, KP!SlotsWith
<1>5. ASSUME NEW p, K!KeyEvent(p) PROVE KP!KeyEvent(p)
  BY <1>2, <1>3, <1>4, <1>5, SameAction
     DEF K!KeyEvent, KP!KeyEvent, K!matrixVars, KP!matrixVars, K!scanHistory, KP!scanHistory
<1>6. K!EndTask => KP!EndTask
  BY <1>1 DEF K!EndTask, KP!EndTask, K!matrixVars, KP!matrixVars, K!scanHistory,
              KP!scanHistory, K!reportVars, KP!reportVars
<1>7. ASSUME NEW p, K!Toggle(p) PROVE KP!Toggle(p)
  BY <1>7 DEF K!Toggle, KP!Toggle, K!matrixVars, KP!matrixVars, K!scanHistory,
              KP!scanHistory, K!reportVars, KP!reportVars
<1>8. QED
  BY <1>5, <1>6, <1>7

\* A restart leaves the keyboard as it was at the start, whatever keys are held.
LEMMA RestartKeyboard == KP!TypeOK /\ KeyboardRestarts => KP!IInv'
<1> SUFFICES ASSUME KP!TypeOK, KeyboardRestarts PROVE KP!IInv'
  OBVIOUS
<1>1. /\ matrix_debouncing' = {} /\ lastScan' = {} /\ steady' = 0 /\ row' = 0
      /\ debouncing' = DEBOUNCE /\ matrix' = {} /\ matrix_prev' = {} /\ handling' = FALSE
      /\ keys' = [i \in KP!ReportSlots |-> KC_NO] /\ real_mods' = {}
      /\ reported' = [mods |-> {}, keys |-> keys'] /\ overflowed' = FALSE
      /\ switches' = switches
  BY SameNames DEF KeyboardRestarts, K!Empty
<1>2. DEBOUNCE \in Nat /\ MATRIX_ROWS \in Nat \ {0}
  BY SizesAssumed DEF KP!KeyboardAssumption
<1>3. keys' \in [KP!ReportSlots -> Codes \cup {KC_NO}]
  BY <1>1
<1>4. reported' \in [mods : SUBSET Modifiers, keys : [KP!ReportSlots -> Codes \cup {KC_NO}]]
  BY <1>1, <1>3
<1>5. KP!TypeOK'
  <2>1. /\ debouncing' \in 0 .. DEBOUNCE /\ steady' \in 0 .. DEBOUNCE
        /\ row' \in 0 .. MATRIX_ROWS
    BY <1>1, <1>2
  <2>2. switches' \subseteq KP!Positions
    BY <1>1 DEF KP!TypeOK
  <2>3. /\ handling' \in BOOLEAN /\ overflowed' \in BOOLEAN /\ real_mods' \subseteq Modifiers
        /\ matrix_debouncing' \subseteq KP!Positions /\ matrix' \subseteq KP!Positions
        /\ matrix_prev' \subseteq KP!Positions /\ lastScan' \subseteq KP!Positions
    BY <1>1
  <2>4. QED
    BY <1>3, <1>4, <2>1, <2>2, <2>3 DEF KP!TypeOK
<1>6. KP!Held' = {}
  BY <1>1 DEF KP!Held
<1>7. KP!ScanCounted'
  BY <1>1, <1>2 DEF KP!ScanCounted
<1>8. KP!SlotsHeld' /\ KP!HeldHasSlot'
  BY <1>1, <1>6 DEF KP!SlotsHeld, KP!HeldHasSlot
<1>9. QED
  BY <1>5, <1>7, <1>8 DEF KP!IInv

\* The invariant of the keyboard holds in the firmware too.
LEMMA KeyboardStep == KP!IInv /\ [FwNext]_fwVars => KP!IInv'
<1> SUFFICES ASSUME KP!IInv, [FwNext]_fwVars PROVE KP!IInv'
  OBVIOUS
<1> USE SizesAssumed, KeymapAssumed
<1>1. CASE ScanTask
  <2>1. CASE K!ScanRow
    BY <2>1, SameScan, KP!ScanRowKeeps
  <2>2. CASE K!EndScan
    BY <2>2, SameScan, KP!EndScanKeeps
  <2>3. CASE K!EndTask
    BY <2>3, SameTask, KP!EndTaskKeeps
  <2>4. ASSUME NEW p \in K!Positions, K!KeyEvent(p) PROVE KP!IInv'
    BY <2>4, SameNames, SameTask, KP!KeyEventKeeps
  <2>5. QED
    BY <1>1, <2>1, <2>2, <2>3, <2>4 DEF ScanTask
<1>2. CASE UNCHANGED kbVars
  BY <1>2, SameNames, KP!StutterKeeps
<1>3. CASE FwRestart
  BY <1>3, RestartKeyboard DEF FwRestart, KP!IInv
<1>4. CASE Fingers
  <2>1. PICK p \in K!Positions : K!Toggle(p)
    BY <1>4 DEF Fingers
  <2>2. QED
    BY <2>1, SameNames, SameTask, KP!ToggleKeeps
<1>5. QED
  BY <1>1, <1>2, <1>3, <1>4 DEF FwNext, PollStep, Outside, fwVars

(***************************************************************************)
(* The link's part.                                                        *)
(***************************************************************************)

\* Every report of the keyboard is one that the link can carry.
LEMMA LinkStep == KP!IInv /\ [FwNext]_fwVars => [Next]_vars
<1> SUFFICES ASSUME KP!IInv, [FwNext]_fwVars PROVE [Next]_vars
  OBVIOUS
<1>1. reported' \in Reports
  <2>1. KP!TypeOK'
    BY KeyboardStep DEF KP!IInv
  <2>2. QED
    BY <2>1, ReportAssumption, SameNames DEF KP!TypeOK
<1>2. CASE ScanTask
  BY <1>1, <1>2 DEF ScanTask, PassOn, Next
<1>3. CASE Outside
  BY <1>3 DEF Outside, Next
<1>4. CASE PollStep(PollBegin) \/ PollStep(HandleEvent) \/ PollStep(PollEnd) \/ FwRestart
  BY <1>4 DEF PollStep, FwRestart, Next
<1>5. CASE Fingers \/ UNCHANGED fwVars
  BY <1>5 DEF Fingers, fwVars
<1>6. QED
  BY <1>2, <1>3, <1>4, <1>5 DEF FwNext

(***************************************************************************)
(* Both.                                                                   *)
(***************************************************************************)

\* The link sends what the keyboard reports, and polls between the tasks only.
Joined ==
  /\ live = reported
  /\ polling => ~handling /\ row = 0

FwInv == IInv /\ KP!IInv /\ Joined

LEMMA FwInitInv == FwInit => FwInv
<1> SUFFICES ASSUME FwInit PROVE FwInv
  OBVIOUS
<1>1. IInv
  BY InitInv DEF FwInit
<1>2. KP!IInv
  BY SameInit, SizesAssumed, KeymapAssumed, KP!InitIInv DEF FwInit
<1>3. Joined
  BY ReportAssumption DEF FwInit, Init, K!Init, Joined
<1>4. QED
  BY <1>1, <1>2, <1>3 DEF FwInv

LEMMA JoinedStep == Joined /\ [FwNext]_fwVars => Joined'
<1> SUFFICES ASSUME Joined, [FwNext]_fwVars PROVE Joined'
  OBVIOUS
<1>1. CASE ScanTask
  <2>1. ~polling' /\ ~polling
    BY <1>1 DEF ScanTask, PassOn, KeyEvent, vars
  <2>2. CASE UNCHANGED <<live, reported>>
    BY <2>1, <2>2 DEF Joined
  <2>3. ASSUME NEW p \in K!Positions, K!KeyEvent(p), PassOn(p) PROVE Joined'
    <3>1. CASE keymap[p] = KC_NO
      BY <2>1, <2>3, <3>1 DEF Joined, PassOn, vars, K!KeyEvent, K!process_action, K!reportVars
    <3>2. CASE keymap[p] # KC_NO
      BY <2>1, <2>3, <3>2 DEF Joined, PassOn, KeyEvent
    <3>3. QED
      BY <3>1, <3>2
  <2>4. QED
    BY <1>1, <2>2, <2>3
       DEF ScanTask, vars, K!ScanRow, K!EndScan, K!EndTask, K!reportVars
<1>2. CASE PollStep(PollBegin) \/ PollStep(HandleEvent) \/ PollStep(PollEnd)
  <2>1. UNCHANGED <<live, reported, handling, row>> /\ ~handling /\ row = 0
    BY <1>2 DEF PollStep, BetweenTasks, kbVars, PollBegin, HandleEvent, PollEnd, Take,
                HandleConnected, HandleDisconnected, HandleModeWrite, HandleTxComplete,
                HandleMtuRequest, HandlePhyRequest, HandleGattTimeout
  <2>2. QED
    BY <2>1 DEF Joined
<1>3. CASE FwRestart
  BY <1>3, ReportAssumption DEF FwRestart, Restart, KeyboardRestarts, Joined
<1>4. CASE UNCHANGED <<live, polling, reported, handling, row>>
  BY <1>4 DEF Joined
<1>5. CASE Outside
  BY <1>4, <1>5 DEF Outside, kbVars, Connect, LinkLost, Encrypt, WriteCccd, WriteProtocolMode,
                    RequestFromHost, GattTimeout, Transmit, firmware
<1>6. CASE Fingers
  BY <1>4, <1>6 DEF Fingers, vars, K!Toggle, K!reportVars
<1>7. CASE UNCHANGED fwVars
  BY <1>4, <1>7 DEF fwVars, vars, kbVars
<1>8. QED
  BY <1>1, <1>2, <1>3, <1>5, <1>6, <1>7 DEF FwNext

LEMMA FwInvariant == FwSpec => []FwInv
<1>1. FwInv /\ [FwNext]_fwVars => FwInv'
  BY NextInv, KeyboardStep, LinkStep, JoinedStep DEF FwInv
<1>2. QED
  BY <1>1, FwInitInv, PTL DEF FwSpec

(***************************************************************************)
(* The theorems.                                                           *)
(***************************************************************************)

\* Every variable of both parts keeps its type, and no poll finds a task half done.
THEOREM FwTypeCorrect == FwSpec => []FwTypeOK
<1>1. FwInv => FwTypeOK
  BY SameNames DEF FwInv, IInv, KP!IInv, Joined, FwTypeOK
<1>2. QED
  BY <1>1, FwInvariant, PTL

\* The firmware behaves as HidLink with whatever reports its keyboard makes, so that
\* all that is proved of the link, up to the channel it implements, holds of it.
THEOREM FirmwareIsLink == FwSpec => Spec
<1>1. FwInit => Init
  BY DEF FwInit
<1>2. FwInv /\ [FwNext]_fwVars => [Next]_vars
  BY LinkStep DEF FwInv
<1>3. QED
  BY <1>1, <1>2, FwInvariant, PTL DEF FwSpec, Spec

\* What the host acts on is what the fingers hold, for every keymap, every size of the
\* report, the list and the queues (from matrix_scan to buffer_dequeue).
THEOREM HostShowsWhatIsHeld == FwSpec => []HostShowsHeld
<1>1. FwInv /\ HostConverges => HostShowsHeld
  <2> SUFFICES ASSUME FwInv, HostConverges, Quiet
               PROVE  /\ ShownBy(hostReport) \subseteq K!Held
                      /\ ~overflowed => ShownBy(hostReport) = K!Held
    BY DEF HostShowsHeld
  <2>1. hostReport = reported
    BY DEF Quiet, HostConverges, FwInv, Joined
  <2>2. /\ hostReport.mods = KP!Held \cap Modifiers
        /\ hostReport.keys = keys
        /\ KP!SlotsHeld /\ KP!HeldHasSlot /\ KC_NO \notin KP!Held
    BY <2>1 DEF FwInv, KP!IInv, KP!SlotsHeld, KP!Held
  <2>3. ShownBy(hostReport) = (KP!Held \cap Modifiers)
                                \cup ({keys[i] : i \in KP!ReportSlots} \ {KC_NO})
    BY <2>2, SameNames DEF ShownBy
  <2>4. ShownBy(hostReport) \subseteq KP!Held
    BY <2>2, <2>3 DEF KP!SlotsHeld
  <2>5. ~overflowed => KP!Held \subseteq ShownBy(hostReport)
    BY <2>2, <2>3 DEF KP!HeldHasSlot
  <2>6. QED
    BY <2>4, <2>5, SameNames
<1>2. FwSpec => []HostConverges
  BY FirmwareIsLink, HostAgreesWhenQuiet
<1>3. QED
  BY <1>1, <1>2, FwInvariant, PTL
=============================================================================
