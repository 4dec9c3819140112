----------------------------- MODULE Scheduler ------------------------------
(***************************************************************************)
(* The event queue of app_scheduler.c, between the interrupt handlers that *)
(* put events into it (the RTC interrupt of app_timer2.c and the           *)
(* SoftDevice event interrupt of nrf_sdh.c) and the main loop of main.c,   *)
(* which runs the events and sleeps when there are none.                   *)
(*                                                                         *)
(* An interrupt handler reserves an entry in a critical region and fills   *)
(* it outside of it, so a more urgent handler can come in between, and     *)
(* reserve and fill the next entry first.  The main loop never runs while  *)
(* a handler does.                                                         *)
(***************************************************************************)
EXTENDS Integers, Sequences

CONSTANTS
  Events,         \* what an interrupt puts: an event handler and its data
  NoEvent,        \* a null handler
  Levels,         \* the priorities of the interrupts that put; less is more urgent
  m_queue_size    \* SCHED_QUEUE_SIZE, 10 in the code

ASSUME SchedulerAssumption ==
  /\ NoEvent \notin Events
  /\ Levels \subseteq Nat
  /\ m_queue_size \in Nat
  /\ 0 < m_queue_size /\ m_queue_size <= 255     \* the indices are of type uint8_t

VARIABLES
  m_queue_start_index,
  m_queue_end_index,
  m_queue_event_headers,  \* the entries: handler and data of each
  putting,      \* per level, the event its interrupt handler is putting
  event_index,  \* per level, the entry that app_sched_event_put has reserved
  loop,         \* the main loop: "execute", "handler" or "wait"
  exec_index,   \* event_index of app_sched_execute, while a handler runs
  current,      \* the event that handler was called with
  signalled,    \* an interrupt was taken since the main loop last woke up
  fault         \* "none", or why an error handler is restarting the device

queueIndices == <<m_queue_start_index, m_queue_end_index>>
interrupts   == <<putting, event_index>>
execution    == <<exec_index, current>>
vars == <<m_queue_start_index, m_queue_end_index, m_queue_event_headers,
          putting, event_index, loop, exec_index, current, signalled, fault>>

NotReserved == 65535     \* 0xFFFF

Entries == 0 .. m_queue_size    \* app_sched_init: one entry more than events

TypeOK ==
  /\ m_queue_start_index \in Entries
  /\ m_queue_end_index \in Entries
  /\ m_queue_event_headers \in [Entries -> Events \cup {NoEvent}]
  /\ putting \in [Levels -> Events \cup {NoEvent}]
  /\ event_index \in [Levels -> Entries \cup {NotReserved}]
  /\ loop \in {"execute", "handler", "wait"}
  /\ exec_index \in Entries
  /\ current \in Events \cup {NoEvent}
  /\ signalled \in BOOLEAN
  /\ fault \in {"none", "no memory", "handler"}

\* app_sched_init, after every reset; the entries lie in zeroed memory.
Init ==
  /\ m_queue_start_index = 0
  /\ m_queue_end_index = 0
  /\ m_queue_event_headers = [i \in Entries |-> NoEvent]
  /\ putting = [l \in Levels |-> NoEvent]
  /\ event_index = [l \in Levels |-> NotReserved]
  /\ loop = "execute"
  /\ exec_index = 0
  /\ current = NoEvent
  /\ signalled = FALSE
  /\ fault = "none"

\* Faulty: the index wraps one entry too late.
NextIndexLate(index) == IF index <= m_queue_size THEN index + 1 ELSE 0

next_index(index) == IF index < m_queue_size THEN index + 1 ELSE 0

\* Faulty: an event may take the entry that tells full from empty.
QueueNeverFull == FALSE

\* Faulty: one more entry is kept free.
QueueFullEarly ==
  next_index(next_index(m_queue_end_index)) = m_queue_start_index

app_sched_queue_full == next_index(m_queue_end_index) = m_queue_start_index

app_sched_queue_empty == m_queue_end_index = m_queue_start_index

(***************************************************************************)
(* The interrupt handlers.                                                 *)
(***************************************************************************)

\* No interrupt handler of level l or more urgent is running.
Masked(l) == \E m \in Levels : m <= l /\ putting[m] # NoEvent

\* The interrupt handler of level l is the one that has the processor.
Runs(l) == putting[l] # NoEvent /\ \A m \in Levels : m < l => putting[m] = NoEvent

InThreadMode == \A l \in Levels : putting[l] = NoEvent

\* An interrupt of level l: a timer has expired (timer_expire), or the SoftDevice
\* has recorded an event (SD_EVT_IRQHandler), and app_sched_event_put is called.
Interrupt(l, e) ==
  /\ fault = "none"
  /\ ~Masked(l)
  /\ putting' = [putting EXCEPT ![l] = e]
  /\ signalled' = TRUE
  /\ UNCHANGED <<queueIndices, m_queue_event_headers, event_index, loop,
                 execution, fault>>

\* The critical region.  The callers give NRF_ERROR_NO_MEM to APP_ERROR_CHECK.
Reserve(l) ==
  /\ fault = "none"
  /\ Runs(l)
  /\ event_index[l] = NotReserved
  /\ IF app_sched_queue_full
     THEN /\ fault' = "no memory"
          /\ UNCHANGED <<m_queue_end_index, event_index>>
     ELSE /\ event_index' = [event_index EXCEPT ![l] = m_queue_end_index]
          /\ m_queue_end_index' = next_index(m_queue_end_index)
          /\ UNCHANGED fault
  /\ UNCHANGED <<m_queue_start_index, m_queue_event_headers, putting, loop,
                 execution, signalled>>

\* The handler and the data are written to the entry and the interrupt returns.
Fill(l) ==
  /\ fault = "none"
  /\ Runs(l)
  /\ event_index[l] # NotReserved
  /\ m_queue_event_headers' =
       [m_queue_event_headers EXCEPT ![event_index[l]] = putting[l]]
  /\ putting' = [putting EXCEPT ![l] = NoEvent]
  /\ event_index' = [event_index EXCEPT ![l] = NotReserved]
  /\ UNCHANGED <<queueIndices, loop, execution, signalled, fault>>

(***************************************************************************)
(* The main loop.                                                          *)
(***************************************************************************)

\* Faulty: the entry is given up before its event handler is called.
ExecuteBeginGivesUp ==
  /\ fault = "none"
  /\ InThreadMode
  /\ loop = "execute"
  /\ ~app_sched_queue_empty
  /\ exec_index' = m_queue_start_index
  /\ current' = m_queue_event_headers[m_queue_start_index]
  /\ m_queue_start_index' = next_index(m_queue_start_index)
  /\ loop' = "handler"
  /\ UNCHANGED <<m_queue_end_index, m_queue_event_headers, interrupts, signalled, fault>>

\* app_sched_execute, in an iteration up to the call of the event handler.
ExecuteBegin ==
  /\ fault = "none"
  /\ InThreadMode
  /\ loop = "execute"
  /\ ~app_sched_queue_empty
  /\ exec_index' = m_queue_start_index
  /\ current' = m_queue_event_headers[m_queue_start_index]
  /\ loop' = "handler"
  /\ UNCHANGED <<queueIndices, m_queue_event_headers, interrupts, signalled, fault>>

\* Faulty: app_sched_execute runs one event, with if in the place of while.
ExecuteEndOnce ==
  /\ fault = "none"
  /\ InThreadMode
  /\ loop = "handler"
  /\ m_queue_start_index' = next_index(m_queue_start_index)
  /\ current' = NoEvent
  /\ loop' = "wait"
  /\ UNCHANGED <<m_queue_end_index, m_queue_event_headers, interrupts,
                 exec_index, signalled, fault>>

\* The event handler returns and the entry is given up.
ExecuteEnd ==
  /\ fault = "none"
  /\ InThreadMode
  /\ loop = "handler"
  /\ m_queue_start_index' = next_index(m_queue_start_index)
  /\ current' = NoEvent
  /\ loop' = "execute"
  /\ UNCHANGED <<m_queue_end_index, m_queue_event_headers, interrupts,
                 exec_index, signalled, fault>>

\* The event handler fails an APP_ERROR_CHECK or goes to System OFF.
HandlerFails ==
  /\ fault = "none"
  /\ InThreadMode
  /\ loop = "handler"
  /\ fault' = "handler"
  /\ UNCHANGED <<queueIndices, m_queue_event_headers, interrupts, loop,
                 execution, signalled>>

\* Faulty: the queue is not looked at again after the log.
IdleUnchecked ==
  /\ fault = "none"
  /\ InThreadMode
  /\ loop = "execute"
  /\ loop' \in {"execute", "wait"}
  /\ UNCHANGED <<queueIndices, m_queue_event_headers, interrupts, execution,
                 signalled, fault>>

\* idle_state_handle after app_sched_execute: it is called again when there was
\* something to log (NRF_LOG_PROCESS), and otherwise the device is to sleep.
Idle ==
  /\ fault = "none"
  /\ InThreadMode
  /\ loop = "execute"
  /\ app_sched_queue_empty
  /\ loop' \in {"execute", "wait"}
  /\ UNCHANGED <<queueIndices, m_queue_event_headers, interrupts, execution,
                 signalled, fault>>

\* sd_app_evt_wait returns at once when an interrupt was taken since it last
\* returned, and otherwise when the next one has been handled.
Wake ==
  /\ fault = "none"
  /\ InThreadMode
  /\ loop = "wait"
  /\ signalled
  /\ signalled' = FALSE
  /\ loop' = "execute"
  /\ UNCHANGED <<queueIndices, m_queue_event_headers, interrupts, execution, fault>>

\* An interrupt that puts no event (the converter, a timer operation) wakes the
\* device all the same.
OtherInterrupt ==
  /\ fault = "none"
  /\ signalled' = TRUE
  /\ UNCHANGED <<queueIndices, m_queue_event_headers, interrupts, loop, execution, fault>>

\* app_error_fault_handler resets the device.
Restart ==
  /\ fault # "none"
  /\ m_queue_start_index' = 0
  /\ m_queue_end_index' = 0
  /\ m_queue_event_headers' = [i \in Entries |-> NoEvent]
  /\ putting' = [l \in Levels |-> NoEvent]
  /\ event_index' = [l \in Levels |-> NotReserved]
  /\ loop' = "execute"
  /\ exec_index' = 0
  /\ current' = NoEvent
  /\ signalled' = FALSE
  /\ fault' = "none"

InterruptHandlers == \E l \in Levels : Reserve(l) \/ Fill(l)

MainLoop == ExecuteBegin \/ ExecuteEnd \/ HandlerFails \/ Idle \/ Wake

Next ==
  \/ \E l \in Levels, e \in Events : Interrupt(l, e)
  \/ OtherInterrupt
  \/ InterruptHandlers
  \/ MainLoop
  \/ Restart

Spec == Init /\ [][Next]_vars

\* The processor does not stop in an interrupt handler or in the main loop.  Weak
\* fairness is enough although the main loop is preempted: an interrupt that puts
\* takes an entry, so no more than m_queue_size of them come before the main loop
\* makes a step or the queue is full.
FairSpec == Spec /\ WF_vars(InterruptHandlers) /\ WF_vars(MainLoop)

(***************************************************************************)
(* The queue that the entries represent.                                   *)
(***************************************************************************)

\* The k-th entry from the start of the queue.
Entry(k) ==
  IF m_queue_start_index + k - 1 <= m_queue_size
  THEN m_queue_start_index + k - 1
  ELSE m_queue_start_index + k - 1 - (m_queue_size + 1)

\* The entries between the indices (m_queue_size less app_sched_queue_space_get).
Length ==
  IF m_queue_end_index >= m_queue_start_index
  THEN m_queue_end_index - m_queue_start_index
  ELSE m_queue_size + 1 - m_queue_start_index + m_queue_end_index

Occupied(i) == \E k \in 1 .. Length : Entry(k) = i

Reserved(i) == \E l \in Levels : event_index[l] = i

\* What entry i holds, or will hold once it is filled.
EventIn(i) ==
  IF Reserved(i)
  THEN putting[CHOOSE l \in Levels : event_index[l] = i]
  ELSE m_queue_event_headers[i]

Queued == [k \in 1 .. Length |-> EventIn(Entry(k))]

EQ == INSTANCE EventQueue WITH queue <- Queued, Capacity <- m_queue_size

(***************************************************************************)
(* Properties.                                                             *)
(***************************************************************************)

\* While an event handler runs, the entry that its p_event_data points into keeps
\* the event, whatever the interrupt handlers put meanwhile.
RunningEntryIntact ==
  loop = "handler" => current # NoEvent /\ m_queue_event_headers[exec_index] = current

\* No wake-up is missed: when the device sleeps and no interrupt has been taken
\* that will wake it, no event waits in the queue.
SleepsOnlyWhenDone ==
  loop = "wait" /\ ~signalled => app_sched_queue_empty /\ InThreadMode

\* app_sched_event_put refuses an event only when m_queue_size events are held,
\* the one whose handler runs among them.
RefusesOnlyWhenFull == fault = "no memory" => Length = m_queue_size

\* Events run once each, in the order of their reservations, and none before it
\* was filled, with nested interrupts and across the wrap of the indices.
ImplementsEventQueue == EQ!QueueSpec

\* Every event that was accepted is run to its end, or an error restarts the
\* device.
EveryEventRuns == \A i \in Entries : Occupied(i) ~> (~Occupied(i) \/ fault # "none")
=============================================================================
