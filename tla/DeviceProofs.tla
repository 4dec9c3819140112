---------------------------- MODULE DeviceProofs ----------------------------
(***************************************************************************)
(* Proofs about Device: the battery measurement, and that everything       *)
(* proved of the advertising alone is true of the device.                  *)
(***************************************************************************)
EXTENDS Device, AdvertisingProofs

(***************************************************************************)
(* The battery measurement.                                                *)
(***************************************************************************)

\* In time, a timeout is dealt with before the next, and while it waits or its sample
\* has not been triggered no sample is being taken and no buffer is full.
InTime ==
  ~late =>
    /\ ticks <= 1
    /\ ticks = 1 => task = "none"
    /\ ticks = 1 \/ task # "none" => ~converting /\ ~irq
    /\ task # "none" => adc_state = "busy"

\* The flag agrees with the driver.
Agree == (saadc_initialized => adc_state = "busy") /\ (adc_state = "busy" => saadc_initialized)

\* A buffer that is full has raised the interrupt and takes no further sample.
Room == (~irq => taken < SAMPLES_IN_BUFFER) /\ (converting => ~irq)

BatteryInv == BatteryTypeOK /\ Agree /\ Room /\ InTime

LEMMA BatteryInitInv == BatteryInit => BatteryInv
<1> SUFFICES ASSUME BatteryInit PROVE BatteryInv
  OBVIOUS
<1>1. BatteryTypeOK
  <2>1. taken \in 0 .. SAMPLES_IN_BUFFER /\ ticks \in 0 .. MAX_TICKS
    BY BatteryAssumption DEF BatteryInit
  <2> QED
    BY <2>1 DEF BatteryInit, BatteryTypeOK
<1>2. ~irq /\ ~converting /\ taken = 0 /\ ticks = 0 /\ task = "none"
  BY DEF BatteryInit
<1>4. Room /\ InTime
  BY <1>2, BatteryAssumption DEF Room, InTime
<1>3. Agree
  BY DEF BatteryInit, Agree
<1> QED
  BY <1>1, <1>3, <1>4 DEF BatteryInv

LEMMA BatteryLostInv == BatteryLost => BatteryInv'
<1> SUFFICES ASSUME BatteryLost PROVE BatteryInv'
  OBVIOUS
<1>1. BatteryTypeOK'
  <2>1. taken' \in 0 .. SAMPLES_IN_BUFFER /\ ticks' \in 0 .. MAX_TICKS
    BY BatteryAssumption DEF BatteryLost
  <2> QED
    BY <2>1 DEF BatteryLost, BatteryTypeOK
<1>2. ~irq' /\ ~converting' /\ taken' = 0 /\ ticks' = 0 /\ task' = "none"
  BY DEF BatteryLost
<1>4. Room' /\ InTime'
  BY <1>2, BatteryAssumption DEF Room, InTime
<1>3. Agree'
  BY DEF BatteryLost, Agree
<1> QED
  BY <1>1, <1>3, <1>4 DEF BatteryInv

LEMMA RoomAndTime ==
  ASSUME BatteryInv,
         \/ Tick \/ TimerHandler \/ Sample \/ Trigger \/ ConversionEnds \/ Interrupt
         \/ UNCHANGED batVars
  PROVE  Room' /\ InTime'
<1>0. BatteryTypeOK /\ Agree /\ Room /\ InTime
  BY DEF BatteryInv
<1>3. CASE Tick
  <2>1. ~late' => ~late /\ ~(ticks > 0) /\ ~(task # "none")
    BY <1>3 DEF Tick
  <2>2. /\ ticks' = ticks + 1 /\ ~converting' /\ ~irq'
        /\ UNCHANGED <<taken, task>> /\ ~irq
    BY <1>3 DEF Tick
  <2>3. taken < SAMPLES_IN_BUFFER
    BY <1>0, <2>2 DEF Room
  <2>4. ticks \in Nat
    BY <1>0, BatteryAssumption DEF BatteryTypeOK
  <2>5. InTime'
    BY <2>1, <2>2, <2>4 DEF InTime
  <2> QED
    BY <2>2, <2>3, <2>5 DEF Room
<1>4. CASE TimerHandler
  <2>1. /\ ticks > 0 /\ ticks' = ticks - 1 /\ task' = "sample" /\ taken' \in {taken, 0}
        /\ UNCHANGED <<converting, irq, late>>
        /\ adc_state' = "busy"
    BY <1>0, <1>4 DEF TimerHandler, Agree
  <2>2. ticks \in Nat
    BY <1>0, BatteryAssumption DEF BatteryTypeOK
  <2>3. Room'
    BY <1>0, <2>1, BatteryAssumption DEF Room
  <2>4. InTime'
    BY <1>0, <2>1, <2>2 DEF InTime
  <2> QED
    BY <2>3, <2>4
<1>5. CASE Sample
  BY <1>0, <1>5 DEF Sample, Room, InTime
<1>6. CASE Trigger
  <2>1. converting' => converting \/ ~irq
    BY <1>6 DEF Trigger
  <2>2. task = "trigger" /\ task' = "none" /\ UNCHANGED <<adc_state, taken, irq, ticks, late>>
    BY <1>6 DEF Trigger
  <2>3. Room'
    BY <1>0, <2>1, <2>2 DEF Room
  <2>4. InTime'
    BY <1>0, <2>2 DEF InTime
  <2> QED
    BY <2>3, <2>4
<1>7. CASE ConversionEnds
  <2>1. /\ converting /\ ~converting' /\ taken' = taken + 1
        /\ ~irq' => ~(taken + 1 = SAMPLES_IN_BUFFER)
        /\ UNCHANGED <<adc_state, ticks, task, late>>
    BY <1>7 DEF ConversionEnds
  <2>2. taken < SAMPLES_IN_BUFFER /\ taken \in Nat
    BY <1>0, <2>1, BatteryAssumption DEF Room, BatteryTypeOK
  <2>3. Room'
    BY <2>1, <2>2, BatteryAssumption DEF Room
  <2>4. InTime'
    BY <1>0, <2>1 DEF InTime
  <2> QED
    BY <2>3, <2>4
<1>8. CASE Interrupt
  <2>1. irq /\ ~irq' /\ taken' = 0 /\ UNCHANGED <<converting, ticks, task, late>>
    BY <1>8 DEF Interrupt
  <2>2. Room'
    BY <1>0, <2>1, BatteryAssumption DEF Room
  <2>3. InTime'
    BY <1>0, <2>1 DEF InTime
  <2> QED
    BY <2>2, <2>3
<1>9. CASE UNCHANGED batVars
  BY <1>0, <1>9 DEF batVars, Room, InTime
<1> QED
  BY <1>3, <1>4, <1>5, <1>6, <1>7, <1>8, <1>9

LEMMA BatteryStepInv ==
  ASSUME BatteryInv,
         \/ Tick \/ TimerHandler \/ Sample \/ Trigger \/ ConversionEnds \/ Interrupt
         \/ UNCHANGED batVars
  PROVE  BatteryInv'
<1>0. BatteryTypeOK /\ Agree /\ Room /\ InTime
  BY DEF BatteryInv
<1>1. BatteryTypeOK'
  <2>1. taken' \in 0 .. SAMPLES_IN_BUFFER
    BY <1>0, BatteryAssumption DEF BatteryTypeOK, Room, Tick, TimerHandler, Sample, Trigger,
       ConversionEnds, Interrupt, batVars
  <2>2. ticks' \in 0 .. MAX_TICKS
    BY <1>0, BatteryAssumption DEF BatteryTypeOK, Tick, TimerHandler, Sample, Trigger,
       ConversionEnds, Interrupt, batVars
  <2>3. /\ adc_state' \in {"uninit", "busy"} /\ task' \in {"none", "sample", "trigger"}
        /\ saadc_initialized' \in BOOLEAN
    BY <1>0 DEF BatteryTypeOK, Tick, TimerHandler, Sample, Trigger, ConversionEnds, Interrupt,
       batVars
  <2>4. converting' \in BOOLEAN /\ irq' \in BOOLEAN /\ late' \in BOOLEAN
    BY <1>0 DEF BatteryTypeOK, Tick, TimerHandler, Sample, Trigger, ConversionEnds, Interrupt,
       batVars
  <2> QED
    BY <2>1, <2>2, <2>3, <2>4 DEF BatteryTypeOK
<1>2. Agree'
  BY <1>0 DEF Agree, Tick, TimerHandler, Sample, Trigger, ConversionEnds, Interrupt, batVars
<1>3. Room' /\ InTime'
  BY RoomAndTime
<1> QED
  BY <1>1, <1>2, <1>3 DEF BatteryInv

(***************************************************************************)
(* The device.                                                             *)
(***************************************************************************)

DeviceInv == BatteryInv /\ (power # "on" => BatteryInit)

\* Nothing is measured in a device that has just lost its power.
LEMMA LostIsInit == BatteryLost => BatteryInit'
BY DEF BatteryLost, BatteryInit

\* A step of the surroundings leaves the power alone.
LEMMA SurroundingsPower == Surroundings => power = "on" /\ power' = "on"
BY DEF Surroundings, HostConnects, AdvertisingTimesOut, LinkEnds, HostPairs, HostEncrypts,
       SecurityEvent, FlashWrite, powerVars

LEMMA FollowsInv ==
  ASSUME DeviceInv, BatteryFollows
  PROVE  DeviceInv'
<1>1. CASE power' = "on"
  BY <1>1, BatteryStepInv DEF DeviceInv, BatteryFollows
<1>2. CASE power' # "on"
  BY <1>2, BatteryLostInv, LostIsInit DEF DeviceInv, BatteryFollows
<1> QED
  BY <1>1, <1>2

LEMMA DeviceStep ==
  ASSUME DeviceInv, [Next]_vars
  PROVE  DeviceInv'
<1>1. CASE MainLoopHandler \/ Main
  BY <1>1, FollowsInv DEF MainLoopHandler, Main
<1>2. CASE HostStep
  BY <1>2, SurroundingsPower, BatteryStepInv DEF HostStep, DeviceInv
<1>3. CASE ResetPin \/ BatteryFault
  BY <1>3, BatteryLostInv, LostIsInit DEF ResetPin, BatteryFault, DeviceInv
<1>4. CASE \/ BatteryWorks(Tick) \/ BatteryWorks(TimerHandler) \/ BatteryWorks(Sample)
           \/ BatteryWorks(Trigger) \/ BatteryWorks(ConversionEnds) \/ BatteryWorks(Interrupt)
  <2>1. power = "on" /\ power' = "on"
    BY <1>4 DEF BatteryWorks, advVars
  <2>2. BatteryInv'
    BY <1>4, BatteryStepInv DEF BatteryWorks, DeviceInv
  <2> QED
    BY <2>1, <2>2 DEF DeviceInv
<1>5. CASE UNCHANGED vars
  <2>1. UNCHANGED batVars /\ UNCHANGED power
    BY <1>5 DEF vars, advVars
  <2>2. BatteryInv'
    BY <2>1, BatteryStepInv DEF DeviceInv
  <2>3. BatteryInit => BatteryInit'
    BY <2>1 DEF BatteryInit, batVars
  <2> QED
    BY <2>1, <2>2, <2>3 DEF DeviceInv
<1> QED
  BY <1>1, <1>2, <1>3, <1>4, <1>5 DEF Next

LEMMA DeviceInvariant == Spec => []DeviceInv
<1>1. Init => DeviceInv
  BY BatteryInitInv DEF Init, DeviceInv
<1>2. DeviceInv /\ [Next]_vars => DeviceInv'
  BY DeviceStep
<1> QED
  BY <1>1, <1>2, PTL DEF Spec, Safety

\* The device behaves, as far as advertising and bonds go, as Advertising alone says: the
\* measurement adds restarts, which Advertising allows at any time, and nothing else.
THEOREM DeviceAdvertises == Spec => AdvSpec
<1>1. Init => AdvInit
  BY DEF Init
<1>2. [Next]_vars => [AdvNext]_advVars
  BY DEF Next, vars, MainLoopHandler, Main, HostStep, ResetPin, BatteryWorks, BatteryFault,
         AdvNext
<1> QED
  BY <1>1, <1>2, PTL DEF Spec, Safety, AdvSpec

\* Every variable of the device has its type, and a device without power measures nothing.
THEOREM TypeCorrect == Spec => []TypeOK
<1>1. AdvTypeOK /\ DeviceInv => TypeOK
  BY DEF DeviceInv, BatteryInv, TypeOK
<1> QED
  BY <1>1, DeviceAdvertises, AdvTypeCorrect, DeviceInvariant, PTL

\* The driver of the ADC refuses nothing that the main loop asks for in time.
THEOREM AdcInTime == Spec => []AdcRefusedOnlyWhenLate
<1>1. DeviceInv => AdcRefusedOnlyWhenLate
  BY DEF DeviceInv, BatteryInv, Agree, InTime, AdcRefusedOnlyWhenLate, Refused, InitRefused,
         BatteryTypeOK
<1> QED
  BY <1>1, DeviceInvariant, PTL

\* What is proved of the advertising holds with the measurement beside it.
THEOREM DeviceSafe ==
  Spec => /\ [](NeverSilent /\ KnownHostsAdmitted /\ DirectedAtBonded /\ OneBond /\ NoFault)
          /\ SleepsOnlyAfterSlow
BY DeviceAdvertises, NeverFallsSilent, KnownHostsLetIn, DirectedToBond, OneBondOnly,
   NothingRefused, SleepIsLast, PTL
=============================================================================
