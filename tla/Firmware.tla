------------------------------ MODULE Firmware ------------------------------
(***************************************************************************)
(* From the switches to the host: Keyboard and HidLink in one firmware.    *)
(* Each key event ends with keys_send on the report it has made; the scan  *)
(* task and the poll for SoftDevice events take turns in the main loop;    *)
(* and a restart, which only the link side asks for, forgets the scans and *)
(* the report while the switches stay as they are.                         *)
(***************************************************************************)
EXTENDS HidLink

CONSTANTS
  MATRIX_ROWS, MATRIX_COLS, Codes, Modifiers, KC_NO, keymap,
  KEYBOARD_REPORT_KEYS, DEBOUNCE

VARIABLES
  switches, matrix_debouncing, debouncing, matrix, matrix_prev, handling, row,
  keys, real_mods, reported, lastScan, steady, overflowed

K == INSTANCE Keyboard

ASSUME PartsAssumption == K!KeyboardAssumption /\ K!KeymapAssumption

\* The report that Keyboard makes is the one that HidLink sends.
ASSUME ReportAssumption ==
  /\ Reports = [mods : SUBSET Modifiers, keys : [K!ReportSlots -> Codes \cup {KC_NO}]]
  /\ NoKeys = K!Empty

kbVars == <<switches, matrix_debouncing, debouncing, matrix, matrix_prev, handling, row,
            keys, real_mods, reported, lastScan, steady, overflowed>>
fwVars == <<vars, kbVars>>

(***************************************************************************)
(* The main loop.                                                          *)
(***************************************************************************)

\* Faulty: the report is passed on before the key has changed it.
PassOnTooEarly(p) == IF keymap[p] = KC_NO THEN UNCHANGED vars ELSE KeyEvent(reported)

\* host_keyboard_send, kb_send_report: nothing is sent for a position without a code.
PassOn(p) == IF keymap[p] = KC_NO THEN UNCHANGED vars ELSE KeyEvent(reported')

\* A step of keyboard_task, which the expiration of the scan timer calls.
ScanTask ==
  /\ ~fault
  /\ ~polling
  /\ \/ (K!ScanRow \/ K!EndScan \/ K!EndTask) /\ UNCHANGED vars
     \/ \E p \in K!Positions : K!KeyEvent(p) /\ PassOn(p)

\* Faulty: the SoftDevice's events are handled in its interrupt.
AtAnyTime == TRUE

BetweenTasks == ~handling /\ row = 0

PollStep(step) == BetweenTasks /\ step /\ UNCHANGED kbVars

\* Faulty: the matrix survives the restart.
MatrixSurvives ==
  /\ keys' = K!Empty.keys
  /\ real_mods' = {}
  /\ reported' = K!Empty
  /\ handling' = FALSE
  /\ row' = 0
  /\ overflowed' = FALSE
  /\ UNCHANGED <<switches, matrix_debouncing, debouncing, matrix, matrix_prev, lastScan, steady>>

\* The variables of the keyboard as a reset leaves them.
KeyboardRestarts ==
  /\ matrix_debouncing' = {}
  /\ debouncing' = DEBOUNCE
  /\ matrix' = {}
  /\ matrix_prev' = {}
  /\ handling' = FALSE
  /\ row' = 0
  /\ keys' = K!Empty.keys
  /\ real_mods' = {}
  /\ reported' = K!Empty
  /\ lastScan' = {}
  /\ steady' = 0
  /\ overflowed' = FALSE
  /\ UNCHANGED switches

FwRestart == Restart /\ KeyboardRestarts

(***************************************************************************)
(* What goes on beside it.                                                 *)
(***************************************************************************)
RadioStep == Radio /\ UNCHANGED kbVars

Outside ==
  /\ \/ Connect \/ LinkLost \/ Encrypt
     \/ \E c \in Chars : WriteCccd(c) \/ WriteProtocolMode(c)
     \/ \E e \in {"MTU_REQUEST", "PHY_REQUEST"} : RequestFromHost(e)
     \/ GattTimeout \/ Transmit
  /\ UNCHANGED kbVars

Fingers == \E p \in K!Positions : K!Toggle(p) /\ UNCHANGED vars

FwInit == Init /\ K!Init

FwNext ==
  \/ ScanTask
  \/ PollStep(PollBegin) \/ PollStep(HandleEvent) \/ PollStep(PollEnd)
  \/ FwRestart
  \/ Outside
  \/ Fingers

\* The scan timer repeats and the scheduler's queue is first in, first out, so the
\* task and the poll both get their turn; the radio as in HidLink.
FwFairness ==
  /\ WF_fwVars(ScanTask)
  /\ SF_fwVars(PollStep(PollBegin))
  /\ WF_fwVars(PollStep(HandleEvent))
  /\ WF_fwVars(PollStep(PollEnd))
  /\ WF_fwVars(FwRestart)
  /\ SF_fwVars(RadioStep)

FwSpec == FwInit /\ [][FwNext]_fwVars
FwFairSpec == FwSpec /\ FwFairness

(***************************************************************************)
(* Properties.                                                             *)
(***************************************************************************)

\* The types of both parts; the poll finds no task half done.
FwTypeOK ==
  /\ TypeOK
  /\ K!TypeOK
  /\ polling => ~handling /\ row = 0

ShownBy(r) == r.mods \cup ({r.keys[i] : i \in K!ReportSlots} \ {KC_NO})

\* Nothing is on its way and the host listens to the mode the keyboard sends in.
Quiet == promise # "none" /\ txq = <<>> /\ events = <<>> /\ hostMode = ActiveChar

\* What the host acts on is what the fingers hold: once the report was accepted or
\* buffered on this link and nothing is on its way, the host shows only keys that
\* are held, and all of them unless a key found no slot; over keys rolled while
\* reports wait, lost links and restarts with keys held (from matrix_scan to
\* buffer_dequeue).
HostShowsHeld ==
  Quiet => /\ ShownBy(hostReport) \subseteq K!Held
           /\ ~overflowed => ShownBy(hostReport) = K!Held

\* The link is in order and the host asks for nothing.
LinkInOrder ==
  /\ link = "up" /\ secure /\ ~timedOut
  /\ cccd[ActiveChar] /\ hostMode = ActiveChar
  /\ \A i \in 1 .. Len(events) : events[i] = "HVN_TX_COMPLETE"
  /\ promise # "none"

\* If the fingers come to rest and the link stays in order, the host comes to show
\* exactly the keys whose switches are closed.
ReachesHost ==
  \/ []<><<TRUE>>_switches
  \/ []<>(~LinkInOrder \/ overflowed)
  \/ <>[](ShownBy(hostReport) = {keymap[p] : p \in switches} \ {KC_NO})
=============================================================================
