------------------------------ MODULE Battery ------------------------------
(***************************************************************************)
(* The battery measurement (powermgr.c) on the driver of the ADC           *)
(* (nrfx_saadc.c, not in its low power mode).                              *)
(*                                                                         *)
(* Three parties meet in the flag saadc_initialized and in the state of    *)
(* the driver: a repeating timer of one second, whose interrupt only       *)
(* queues the handler; the handler, in the main loop, which tests the flag *)
(* and takes a sample; and the interrupt of the ADC, which closes the ADC  *)
(* and clears the flag once a buffer is full, between any two steps of the *)
(* handler.  A sample takes some microseconds.                             *)
(*                                                                         *)
(* The busy state has two buffers.  The value measured is left out: no     *)
(* part of the firmware reads the percentage.                              *)
(***************************************************************************)
EXTENDS Integers

CONSTANTS
  SAMPLES_IN_BUFFER,  \* 4 in the code
  MAX_TICKS           \* timeouts that can wait in the scheduler; a bound here

ASSUME BatteryAssumption ==
  /\ SAMPLES_IN_BUFFER \in Nat /\ 0 < SAMPLES_IN_BUFFER
  /\ MAX_TICKS \in Nat /\ 1 < MAX_TICKS

VARIABLES
  saadc_initialized,
  adc_state,   \* "uninit" or "busy", the driver's state and adc_state in one
  taken,       \* the samples in the current buffer
  converting,  \* a sample is being taken
  irq,         \* the interrupt of a full buffer is pending
  ticks,       \* timeouts queued for the main loop
  task,        \* where the main loop is: "none", "sample" or "trigger" in the handler
  late         \* history: a timeout came while the previous one was not dealt with

batVars == <<saadc_initialized, adc_state, taken, converting, irq, ticks, task, late>>

BatteryInit ==
  /\ saadc_initialized = FALSE
  /\ adc_state = "uninit"
  /\ taken = 0
  /\ converting = FALSE
  /\ irq = FALSE
  /\ ticks = 0
  /\ task = "none"
  /\ late = FALSE

\* Without power RAM and the state of the peripherals are lost.
BatteryLost ==
  /\ saadc_initialized' = FALSE
  /\ adc_state' = "uninit"
  /\ taken' = 0
  /\ converting' = FALSE
  /\ irq' = FALSE
  /\ ticks' = 0
  /\ task' = "none"
  /\ late' = FALSE

\* A second has passed: far longer than a sample and its interrupt take.
Tick ==
  /\ ticks < MAX_TICKS
  /\ ~converting /\ ~irq
  /\ ticks' = ticks + 1
  /\ late' = (late \/ ticks > 0 \/ task # "none")
  /\ UNCHANGED <<saadc_initialized, adc_state, taken, converting, irq, task>>

\* nrfx_saadc_init is called on an open driver.
InitRefused == ~saadc_initialized /\ adc_state # "uninit"

\* Faulty: only the timeout that opens the ADC takes a sample.
TimerHandlerSamplesOnce ==
  /\ task = "none"
  /\ ticks > 0
  /\ ~InitRefused
  /\ ticks' = ticks - 1
  /\ task' = IF saadc_initialized THEN "none" ELSE "sample"
  /\ saadc_initialized' = TRUE
  /\ adc_state' = IF saadc_initialized THEN adc_state ELSE "busy"
  /\ taken' = IF saadc_initialized THEN taken ELSE 0
  /\ UNCHANGED <<converting, irq, late>>

\* battery_level_meas_timeout_handler up to nrfx_saadc_sample: it opens the ADC with
\* two buffers unless it is open.
TimerHandler ==
  /\ task = "none"
  /\ ticks > 0
  /\ ~InitRefused
  /\ ticks' = ticks - 1
  /\ task' = "sample"
  /\ saadc_initialized' = TRUE
  /\ adc_state' = IF saadc_initialized THEN adc_state ELSE "busy"
  /\ taken' = IF saadc_initialized THEN taken ELSE 0
  /\ UNCHANGED <<converting, irq, late>>

\* nrfx_saadc_sample tests the state ...
Sample ==
  /\ task = "sample"
  /\ adc_state = "busy"
  /\ task' = "trigger"
  /\ UNCHANGED <<saadc_initialized, adc_state, taken, converting, irq, ticks, late>>

\* ... and triggers the task, without effect on an ADC that is closed or whose
\* buffer is full.
Trigger ==
  /\ task = "trigger"
  /\ task' = "none"
  /\ converting' = (converting \/ (adc_state = "busy" /\ ~irq))
  /\ UNCHANGED <<saadc_initialized, adc_state, taken, irq, ticks, late>>

\* A call of the handler is refused: APP_ERROR_CHECK restarts the device.
Refused ==
  \/ task = "none" /\ ticks > 0 /\ InitRefused
  \/ task = "sample" /\ adc_state # "busy"

ConversionEnds ==
  /\ converting
  /\ converting' = FALSE
  /\ taken' = taken + 1
  /\ irq' = (taken + 1 = SAMPLES_IN_BUFFER)
  /\ UNCHANGED <<saadc_initialized, adc_state, ticks, task, late>>

\* Faulty: the flag is cleared and the ADC stays open.
InterruptKeepsOpen ==
  /\ irq
  /\ irq' = FALSE
  /\ taken' = 0
  /\ saadc_initialized' = FALSE
  /\ UNCHANGED <<adc_state, converting, ticks, task, late>>

\* nrfx_saadc_irq_handler and adc_evt_cb: the buffers change places and the full
\* one is given back, which the driver accepts, then the ADC is closed.
Interrupt ==
  /\ irq
  /\ irq' = FALSE
  /\ taken' = 0
  /\ adc_state' = "uninit"
  /\ saadc_initialized' = FALSE
  /\ UNCHANGED <<converting, ticks, task, late>>

BatteryTypeOK ==
  /\ saadc_initialized \in BOOLEAN
  /\ adc_state \in {"uninit", "busy"}
  /\ taken \in 0 .. SAMPLES_IN_BUFFER
  /\ converting \in BOOLEAN
  /\ irq \in BOOLEAN
  /\ ticks \in 0 .. MAX_TICKS
  /\ task \in {"none", "sample", "trigger"}
  /\ late \in BOOLEAN
=============================================================================
