------------------------------ MODULE Tapping -------------------------------
(***************************************************************************)
(* Tap keys (action_tapping.c, and the ACT_LMODS_TAP part of               *)
(* process_action in action.c).  A tap key sends its code when it is       *)
(* tapped and its modifier when it is held: from its press until it is     *)
(* settled which of the two it is, the key events that follow wait in      *)
(* waiting_buffer.  The tick event that ends every keyboard_task settles   *)
(* a tap whose term has run out when no key moves.                         *)
(*                                                                         *)
(* action_tapping_process offers the new record to process_tapping, and    *)
(* then the waiting ones in order until one has to wait on.  Each call of  *)
(* process_tapping is a step: every branch of it is an action, and what    *)
(* process_tapping returns is Consumed or Retained.  A report is a set of  *)
(* codes and one of modifiers (Keyboard models its slots).                 *)
(***************************************************************************)
EXTENDS Integers, Sequences

CONSTANTS
  Keys,                 \* the positions, numbered in the order of the scan
  TapKeys,              \* those with ACTION_MODS_TAP_KEY
  ModKeys,              \* those with a modifier
  codeOf,               \* the code of a plain key or a tap key
  modOf,                \* the modifier of a modifier key or a tap key
  TAPPING_TERM,         \* 200 ms in the code
  TIME_RANGE,           \* event times are 16 bits wide: 2^16 ms
  COUNTER_RANGE,        \* the counter below them wraps after 2^20 ms
  MAX_TAP_COUNT,        \* 15: tap.count has four bits
  WAITING_BUFFER_SIZE,  \* 8; the ring holds one record less
  MAX_TASKS,            \* a bound: how many scan periods the main loop can be held up
  None                  \* no record: (keyrecord_t){}

CodeKeys == Keys \ ModKeys
Codes == {codeOf[k] : k \in CodeKeys}
Mods == {modOf[k] : k \in TapKeys \cup ModKeys}

ASSUME TappingAssumption ==
  /\ Keys \subseteq Nat
  /\ TapKeys \subseteq Keys
  /\ ModKeys \subseteq Keys \ TapKeys
  /\ codeOf \in [CodeKeys -> Codes]
  /\ modOf \in [TapKeys \cup ModKeys -> Mods]
  /\ TAPPING_TERM \in Nat /\ 0 < TAPPING_TERM
  /\ TIME_RANGE \in Nat /\ TAPPING_TERM < TIME_RANGE
  /\ COUNTER_RANGE \in Nat /\ 0 < COUNTER_RANGE
  /\ MAX_TAP_COUNT \in Nat /\ 1 < MAX_TAP_COUNT
  /\ WAITING_BUFFER_SIZE \in Nat /\ 1 < WAITING_BUFFER_SIZE
  /\ MAX_TASKS \in Nat /\ 0 < MAX_TASKS

Times == 0 .. TIME_RANGE - 1
TICK == [key |-> -1, pressed |-> FALSE]

\* keyrecord_t
Records == [key : Keys, pressed : BOOLEAN, time : Times,
            count : 0 .. MAX_TAP_COUNT, interrupted : BOOLEAN]
Ticks == [key : {TICK.key}, pressed : {FALSE}, time : Times, count : {0}, interrupted : {FALSE}]

ASSUME NoneAssumption == None \notin Records \cup Ticks

\* No code and no modifier has two positions.
ASSUME KeymapAssumption ==
  /\ \A j, k \in CodeKeys : codeOf[j] = codeOf[k] => j = k
  /\ \A j, k \in TapKeys \cup ModKeys : modOf[j] = modOf[k] => j = k

VARIABLES
  now,             \* the counter of app_timer
  down,            \* the keys whose press has been the last event (matrix_prev)
  cursor,          \* the keys from this one on can still change in this scan
  tasks,           \* the scan timer's events in the scheduler's queue, the running one included
  event,           \* the new record offered to process_tapping, or None
  waiting,         \* the head of waiting_buffer is offered to process_tapping
  tapping_key,
  waiting_buffer,  \* from tail to head
  report,          \* what the last send_keyboard_report sent
  \* history
  forgotten,       \* the keys held when the waiting buffer last overflowed
  overtaken        \* the keys with an event that was settled before an earlier one, which waited

taskVars == <<now, down, cursor, tasks>>
vars == <<now, down, cursor, tasks, event, waiting, tapping_key, waiting_buffer, report,
          forgotten, overtaken>>

Reports == [codes : SUBSET Codes, mods : SUBSET Mods]
Empty == [codes |-> {}, mods |-> {}]
Idle == event = None /\ ~waiting
Record == IF waiting THEN Head(waiting_buffer) ELSE event

(***************************************************************************)
(* process_action                                                          *)
(***************************************************************************)
register_code(rep, k) ==
  IF k \in ModKeys THEN [rep EXCEPT !.mods = @ \cup {modOf[k]}]
                   ELSE [rep EXCEPT !.codes = @ \cup {codeOf[k]}]

unregister_code(rep, k) ==
  IF k \in ModKeys THEN [rep EXCEPT !.mods = @ \ {modOf[k]}]
                   ELSE [rep EXCEPT !.codes = @ \ {codeOf[k]}]

register_mods(rep, k) == [rep EXCEPT !.mods = @ \cup {modOf[k]}]
unregister_mods(rep, k) == [rep EXCEPT !.mods = @ \ {modOf[k]}]

\* A tap key acts as its modifier until it has been tapped, and when another key
\* has interrupted the tap.
ActsAsMod(r) == r.key \in TapKeys /\ (r.count = 0 \/ (r.pressed /\ r.interrupted))

\* The report after process_action(r).
process_action(rep, r) ==
  IF r.key = TICK.key THEN rep
  ELSE IF ActsAsMod(r)
  THEN IF r.pressed THEN register_mods(rep, r.key) ELSE unregister_mods(rep, r.key)
  ELSE IF r.pressed THEN register_code(rep, r.key) ELSE unregister_code(rep, r.key)

\* The record after process_action(&r): an interrupted tap is cancelled.
Acted(r) == IF r.key \in TapKeys /\ r.pressed /\ r.interrupted THEN [r EXCEPT !.count = 0] ELSE r

(***************************************************************************)
(* What process_tapping tells apart.                                       *)
(***************************************************************************)
Tapping(pressed) == tapping_key # None /\ tapping_key.pressed = pressed
Within(r, t) == (r.time - t.time) % TIME_RANGE < TAPPING_TERM
InTerm == Within(Record, tapping_key)
Undecided == Tapping(TRUE) /\ tapping_key.count = 0
Tapped == Tapping(TRUE) /\ tapping_key.count > 0
OwnKey == Record.key = tapping_key.key
TapPress == Record.pressed /\ Record.key \in TapKeys

Waits(k) == \E i \in DOMAIN waiting_buffer : waiting_buffer[i].key = k

waiting_buffer_typed(r) ==
  \E i \in DOMAIN waiting_buffer :
    waiting_buffer[i].key = r.key /\ waiting_buffer[i].pressed # r.pressed

\* The release of a modifier waits for the tap to be settled.
RetainedRelease(r) == r.key \in ModKeys \/ (r.key \in TapKeys /\ r.count = 0)

\* A release of t's key within its term among the waiting records, and the first.
IsTapRelease(t, i) ==
  /\ waiting_buffer[i].key = t.key
  /\ ~waiting_buffer[i].pressed
  /\ Within(waiting_buffer[i], t)

FirstTapRelease(t) ==
  {i \in DOMAIN waiting_buffer : t.count = 0 /\ IsTapRelease(t, i)
                                 /\ \A j \in 1 .. i - 1 : ~IsTapRelease(t, j)}

\* History: the keys of which a release is settled as a tap although an earlier event of
\* the key is still waiting.
SettledAhead(buffer) ==
  {k \in TapKeys : \E i, j \in DOMAIN buffer :
     i < j /\ buffer[i].key = k /\ buffer[j].key = k /\ buffer[j].count > 0}

(***************************************************************************)
(* The results of process_tapping.                                         *)
(***************************************************************************)

\* It returns true: the record is done, and the next waiting one is offered.
Consumed(t, buffer, rep) ==
  /\ tapping_key' = t
  /\ report' = rep
  /\ waiting_buffer' = IF waiting THEN Tail(buffer) ELSE buffer
  /\ waiting' = (waiting_buffer' # <<>>)
  /\ event' = None
  /\ overtaken' = overtaken \cup SettledAhead(waiting_buffer')
                            \cup (IF event # None /\ Waits(event.key) THEN {event.key} ELSE {})
  /\ UNCHANGED <<taskVars, forgotten>>

\* Faulty: head + 1 may meet tail.
FaultyBufferFull == Len(waiting_buffer) = WAITING_BUFFER_SIZE

BufferFull == Len(waiting_buffer) = WAITING_BUFFER_SIZE - 1

\* It returns false, with r as the record has become.  A waiting record ends the
\* loop; a new one, unless it is a tick, is put behind the waiting ones, and a
\* full buffer forgets everything.
Retained(t, r, rep) ==
  /\ IF ~waiting /\ r.key # TICK.key /\ BufferFull
     THEN /\ tapping_key' = None
          /\ report' = Empty
          /\ waiting_buffer' = <<>>
          /\ forgotten' = down
          /\ overtaken' = {}
     ELSE /\ tapping_key' = t
          /\ report' = rep
          /\ UNCHANGED forgotten
          /\ waiting_buffer' = CASE waiting                     -> [waiting_buffer EXCEPT ![1] = r]
                                 [] ~waiting /\ r.key = TICK.key -> waiting_buffer
                                 [] OTHER                        -> Append(waiting_buffer, r)
          /\ overtaken' = overtaken \cup SettledAhead(waiting_buffer')
  /\ waiting' = (~waiting /\ waiting_buffer' # <<>>)
  /\ event' = None
  /\ UNCHANGED taskVars

\* tapping_key becomes t, and the waiting records are scanned for its release: one
\* within the term makes it a tap (waiting_buffer_scan_tap).
StartTap(t, rep) ==
  IF FirstTapRelease(t) = {}
  THEN Consumed(t, waiting_buffer, rep)
  ELSE LET tap == [t EXCEPT !.count = 1] IN
       \E i \in FirstTapRelease(t) :
         Consumed(Acted(tap), [waiting_buffer EXCEPT ![i].count = 1], process_action(rep, tap))

(***************************************************************************)
(* The branches of process_tapping.                                        *)
(***************************************************************************)

\* Faulty: the release is done.
FaultyFirstTap ==
  /\ Undecided /\ InTerm
  /\ OwnKey /\ ~Record.pressed
  /\ LET tap == [tapping_key EXCEPT !.count = 1] IN
     Consumed(Acted(tap), waiting_buffer, process_action(report, tap))

\* The tap key is released within its term: a tap.  Its release waits.
FirstTap ==
  /\ Undecided /\ InTerm
  /\ OwnKey /\ ~Record.pressed
  /\ LET tap == [tapping_key EXCEPT !.count = 1] IN
     Retained(Acted(tap),
              [Record EXCEPT !.count = Acted(tap).count, !.interrupted = tap.interrupted],
              process_action(report, tap))

\* A key that was pressed before the tap key is released: at once, unless it is a
\* modifier.
EarlierRelease ==
  /\ Undecided /\ InTerm
  /\ ~OwnKey /\ ~Record.pressed /\ Record.key # TICK.key
  /\ ~waiting_buffer_typed(Record)
  /\ IF RetainedRelease(Record)
     THEN Retained(tapping_key, Record, report)
     ELSE Consumed(tapping_key, waiting_buffer, process_action(report, Record))

\* Any other event waits; a press interrupts the tap.
WaitForTap ==
  /\ Undecided /\ InTerm
  /\ Record.pressed \/ Record.key = TICK.key \/ (~OwnKey /\ waiting_buffer_typed(Record))
  /\ Retained([tapping_key EXCEPT !.interrupted = @ \/ Record.pressed], Record, report)

\* Faulty: the event that finds the term run out is done.
ForgetfulHoldTimeout ==
  /\ Undecided /\ ~InTerm
  /\ Consumed(None, waiting_buffer, process_action(report, tapping_key))

\* Faulty: a tick settles nothing.
FaultyHoldTimeout ==
  /\ Undecided /\ ~InTerm
  /\ IF Record.key = TICK.key
     THEN Retained(tapping_key, Record, report)
     ELSE Retained(None, Record, process_action(report, tapping_key))

\* The term has run out: the tap key is held, and acts as its modifier.
HoldTimeout ==
  /\ Undecided /\ ~InTerm
  /\ Retained(None, Record, process_action(report, tapping_key))

\* The key that was tapped is released.  Within the term it can be tapped again.
TapRelease ==
  /\ Tapped
  /\ OwnKey /\ ~Record.pressed
  /\ LET r == [Record EXCEPT !.count = tapping_key.count, !.interrupted = tapping_key.interrupted]
     IN  Consumed(IF InTerm THEN r ELSE None, waiting_buffer, process_action(report, r))

\* Faulty: whatever is tapped, its release is waiting.
FaultyLetGo == report

\* A key held after a second tap is let go; the release of a first tap is waiting.
LetGo ==
  IF tapping_key.count > 1 THEN process_action(report, [tapping_key EXCEPT !.pressed = FALSE])
                           ELSE report

\* A tap key is pressed, which ends the tap.
TapInterferes ==
  /\ Tapped
  /\ TapPress
  /\ StartTap(Record, LetGo)

\* Any other event is acted on at once.
ActWhileTapped ==
  /\ Tapped
  /\ ~TapPress
  /\ ~(OwnKey /\ ~Record.pressed)
  /\ Consumed(tapping_key, waiting_buffer, process_action(report, Record))

\* The key is tapped again, and its code repeats while it is held; unless another
\* key came between.
SequentialTap ==
  /\ Tapping(FALSE) /\ InTerm
  /\ Record.pressed /\ OwnKey
  /\ IF ~tapping_key.interrupted /\ tapping_key.count > 0
     THEN LET n == IF tapping_key.count < MAX_TAP_COUNT THEN tapping_key.count + 1
                                                        ELSE tapping_key.count
              r == [Record EXCEPT !.count = n]
          IN  Consumed(r, waiting_buffer, process_action(report, r))
     ELSE Consumed(Record, waiting_buffer, report)

\* Another tap key after the tap.
OtherTapAfterTap ==
  /\ Tapping(FALSE) /\ InTerm
  /\ TapPress /\ ~OwnKey
  /\ StartTap(Record, report)

\* Any other event after the tap is acted on; a press ends the sequence of taps.
ActAfterTap ==
  /\ Tapping(FALSE) /\ InTerm
  /\ ~TapPress
  /\ Consumed([tapping_key EXCEPT !.interrupted = @ \/ Record.pressed], waiting_buffer,
              process_action(report, Record))

\* The term since the tap has run out.
TapTimeout ==
  /\ Tapping(FALSE) /\ ~InTerm
  /\ Retained(None, Record, report)

\* No tap: a tap key starts one, anything else is acted on.
NotTapping ==
  /\ tapping_key = None
  /\ IF TapPress THEN StartTap(Record, report)
                 ELSE Consumed(None, waiting_buffer, process_action(report, Record))

process_tapping ==
  /\ ~Idle
  /\ \/ FirstTap \/ EarlierRelease \/ WaitForTap \/ HoldTimeout
     \/ TapRelease \/ TapInterferes \/ ActWhileTapped
     \/ SequentialTap \/ OtherTapAfterTap \/ ActAfterTap \/ TapTimeout
     \/ NotTapping

(***************************************************************************)
(* keyboard_task, and time.                                                *)
(***************************************************************************)

\* The remainder is taken by 0xFFFF.  (Bit 0, set so that no event has the time 0,
\* is below the unit of time.)
timer_read == now % (TIME_RANGE - 1)

NewRecord(k, pressed) ==
  [key |-> k, pressed |-> pressed, time |-> timer_read, count |-> 0, interrupted |-> FALSE]

\* The scan finds a key changed.  Each key changes at most once in a scan.
KeyEvent(k) ==
  /\ Idle
  /\ tasks > 0
  /\ cursor <= k
  /\ cursor' = k + 1
  /\ down' = (down \ {k}) \cup ({k} \ down)
  /\ event' = NewRecord(k, k \notin down)
  /\ forgotten' = forgotten \ {k}
  /\ overtaken' = IF k \in down \cup TapKeys \/ Waits(k) THEN overtaken ELSE overtaken \ {k}
  /\ UNCHANGED <<now, tasks, waiting, tapping_key, waiting_buffer, report>>

\* The tick at the end of the task.
Tick ==
  /\ Idle
  /\ tasks > 0
  /\ tasks' = tasks - 1
  /\ cursor' = 0
  /\ event' = NewRecord(TICK.key, FALSE)
  /\ UNCHANGED <<now, down, waiting, tapping_key, waiting_buffer, report, forgotten, overtaken>>

\* A period of the scan timer goes by: it puts the next task into the queue, which
\* waits there while the main loop is held up.
PassTime ==
  /\ Idle
  /\ tasks < MAX_TASKS
  /\ tasks' = tasks + 1
  /\ now' = (now + 1) % COUNTER_RANGE
  /\ UNCHANGED <<down, cursor, event, waiting, tapping_key, waiting_buffer, report, forgotten,
                 overtaken>>

Init ==
  /\ now = 0
  /\ down = {}
  /\ cursor = 0
  /\ tasks = 0
  /\ event = None
  /\ waiting = FALSE
  /\ tapping_key = None
  /\ waiting_buffer = <<>>
  /\ report = Empty
  /\ forgotten = {}
  /\ overtaken = {}

Next ==
  \/ process_tapping
  \/ \E k \in Keys : KeyEvent(k)
  \/ Tick
  \/ PassTime

\* The scan timer repeats, the main loop never waits for anything, and the clock
\* goes on whatever the main loop does.
Fairness == WF_vars(process_tapping) /\ WF_vars(Tick) /\ SF_vars(PassTime)

Spec == Init /\ [][Next]_vars
FairSpec == Spec /\ Fairness

(***************************************************************************)
(* Properties.                                                             *)
(***************************************************************************)

TypeOK ==
  /\ now \in 0 .. COUNTER_RANGE - 1
  /\ down \subseteq Keys
  /\ cursor \in Nat
  /\ tasks \in 0 .. MAX_TASKS
  /\ event \in Records \cup Ticks \cup {None}
  /\ waiting \in BOOLEAN
  /\ waiting => event = None /\ waiting_buffer # <<>>
  /\ tapping_key \in Records \cup {None}
  /\ waiting_buffer \in Seq(Records)
  /\ Len(waiting_buffer) < WAITING_BUFFER_SIZE
  /\ report \in Reports
  /\ forgotten \subseteq down
  /\ overtaken \subseteq Keys

ReleaseWaits(k) ==
  \E i \in DOMAIN waiting_buffer : waiting_buffer[i].key = k /\ ~waiting_buffer[i].pressed

\* k is held, or its release has not been acted on yet.
Owed(k) == k \in down \/ ReleaseWaits(k) \/ (event # None /\ event.key = k /\ ~event.pressed)

\* No key sticks: whatever waited, was settled as a tap or as held, or was cleared
\* in whatever order, the host is shown only codes and modifiers of keys that are
\* held or whose release is still to be acted on (process_tapping, process_action),
\* or of which an event was settled before an earlier one.  A plain key recovers from
\* that with its next press.
NoStuckKey ==
  /\ \A c \in report.codes : \E k \in CodeKeys : codeOf[k] = c /\ (Owed(k) \/ k \in overtaken)
  /\ \A m \in report.mods :
       \E k \in TapKeys \cup ModKeys : modOf[k] = m /\ (Owed(k) \/ k \in overtaken)

\* "Without this unexpected repeating will occur" (action_tapping.c:113): the host is
\* shown no code of a key that has been let go.
NoUnexpectedRepeat == \A c \in report.codes : \E k \in CodeKeys : codeOf[k] = c /\ Owed(k)

\* No key is lost: when nothing waits, every plain key and modifier that is held is
\* shown, unless the waiting buffer has overflowed while it was held, or one of its
\* events was acted on before an earlier one.
NoLostKey ==
  Idle /\ waiting_buffer = <<>> =>
    \A k \in down \ (TapKeys \cup forgotten \cup overtaken) :
      IF k \in ModKeys THEN modOf[k] \in report.mods ELSE codeOf[k] \in report.codes

\* A key that has just been tapped for the first time is always let go: its release
\* waits in the buffer.  process_tapping relies on it when another tap key takes
\* over (action_tapping.c:166, 210).
FirstTapIsLetGo == Tapping(TRUE) /\ tapping_key.count = 1 => ReleaseWaits(tapping_key.key)

\* Whatever waits is settled by the ticks when the keys come to rest.
TapSettles == []<><<TRUE>>_down \/ <>[](waiting_buffer = <<>> /\ ~Undecided)
=============================================================================
