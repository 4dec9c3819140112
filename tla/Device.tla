------------------------------- MODULE Device -------------------------------
(***************************************************************************)
(* Advertising and the battery measurement in one firmware.  They share    *)
(* the main loop, which runs one handler at a time in the order of the     *)
(* scheduler's queue, and the restart: a refused call of either takes the  *)
(* other with it, and going to sleep stops the measurement.                *)
(***************************************************************************)
EXTENDS Advertising, Battery

vars == <<advVars, batVars>>

Init == AdvInit /\ BatteryInit

\* Faulty: the measurement goes on.
BatteryGoesOn == UNCHANGED batVars

\* A restart, or going to sleep, ends the measurement as well.
BatteryFollows == IF power' = "on" THEN UNCHANGED batVars ELSE BatteryLost

MainLoopHandler ==
  /\ task = "none"
  /\ Handler
  /\ BatteryFollows

Main == Boot /\ BatteryFollows

HostStep == Surroundings /\ UNCHANGED batVars

ResetPin == Reset /\ BatteryLost

BatteryWorks(step) ==
  /\ power = "on"
  /\ step
  /\ UNCHANGED advVars

BatteryFault ==
  /\ power = "on"
  /\ Refused
  /\ Reset
  /\ BatteryLost

Next ==
  \/ MainLoopHandler \/ Main \/ HostStep \/ ResetPin
  \/ BatteryWorks(Tick) \/ BatteryWorks(TimerHandler)
  \/ BatteryWorks(Sample) \/ BatteryWorks(Trigger)
  \/ BatteryWorks(ConversionEnds) \/ BatteryWorks(Interrupt)
  \/ BatteryFault

\* Every advertising mode has a duration, the timer repeats, the ADC and its
\* interrupt are hardware, the queue of the main loop is first in, first out and the
\* handlers end.
Fairness ==
  /\ SF_vars(MainLoopHandler)
  /\ WF_vars(Main)
  /\ WF_vars(HostStep /\ AdvertisingTimesOut)
  /\ WF_vars(BatteryFault)
  /\ WF_vars(BatteryWorks(Tick))
  /\ WF_vars(BatteryWorks(TimerHandler))
  /\ WF_vars(BatteryWorks(Sample))
  /\ WF_vars(BatteryWorks(Trigger))
  /\ WF_vars(BatteryWorks(ConversionEnds))
  /\ WF_vars(BatteryWorks(Interrupt))

Safety == Init /\ [][Next]_vars

Spec == Safety /\ Fairness

(***************************************************************************)
(* Properties.                                                             *)
(***************************************************************************)

\* The variables have their types; a device without power measures nothing.
TypeOK ==
  /\ AdvTypeOK
  /\ BatteryTypeOK
  /\ power # "on" => BatteryInit

\* The driver refuses a call of the battery handler, which restarts the keyboard and
\* drops its host, only when the main loop fell a whole second behind: otherwise the
\* flag tested by the handler and the driver closed by the interrupt agree.
AdcRefusedOnlyWhenLate == Refused => late

\* A measurement that has been started ends, though no single timeout fills the buffer
\* and the ADC is closed by its own interrupt.
Measures == saadc_initialized ~> (~saadc_initialized \/ power # "on")
=============================================================================
