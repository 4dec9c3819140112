--------------------------- MODULE TappingProofs ----------------------------
(***************************************************************************)
(* Proofs about Tapping, for every set of tap keys, modifiers and plain    *)
(* keys, every term, every width of the clocks and every size of the       *)
(* waiting buffer.                                                         *)
(***************************************************************************)
EXTENDS Tapping, SequenceTheorems, TLAPS

(***************************************************************************)
(* The inductive invariant.                                                *)
(***************************************************************************)

\* A press carries no count until process_tapping has taken it.
Fresh(r) == r.pressed => r.count = 0

PressesAreFresh ==
  /\ event # None => Fresh(event)
  /\ \A i \in DOMAIN waiting_buffer : Fresh(waiting_buffer[i])

IInv == TypeOK /\ PressesAreFresh /\ FirstTapIsLetGo

(***************************************************************************)
(* Records.                                                                *)
(***************************************************************************)

LEMMA RecordInBuffer ==
  ASSUME TypeOK, ~Idle
  PROVE  /\ Record \in Records \cup Ticks
         /\ waiting => Record \in Records /\ waiting_buffer # <<>> /\ Record = waiting_buffer[1]
         /\ Record.key # TICK.key => Record \in Records
<1>1. CASE waiting
  BY <1>1 DEF TypeOK, Record
<1>2. CASE ~waiting
  <2>1. Record = event /\ event \in Records \cup Ticks
    BY <1>2 DEF TypeOK, Idle, Record
  <2>2. event \in Ticks => event.key = TICK.key
    BY DEF Ticks, TICK
  <2>3. QED
    BY <2>1, <2>2, <1>2
<1>3. QED
  BY <1>1, <1>2

LEMMA TickIsNoKey == TICK.key \notin Keys
  BY TappingAssumption DEF TICK

LEMMA ActionType ==
  ASSUME NEW rep \in Reports, NEW r \in Records \cup Ticks
  PROVE  process_action(rep, r) \in Reports
<1>1. CASE r.key = TICK.key
  BY <1>1 DEF process_action
<1>2. CASE r.key # TICK.key
  <2>1. r \in Records /\ r.key \in Keys
    BY <1>2 DEF Records, Ticks, TICK
  <2>2. ActsAsMod(r) => register_mods(rep, r.key) \in Reports /\ unregister_mods(rep, r.key) \in Reports
    BY <2>1, TappingAssumption DEF ActsAsMod, register_mods, unregister_mods, Reports
  <2>3. register_code(rep, r.key) \in Reports /\ unregister_code(rep, r.key) \in Reports
    BY <2>1, TappingAssumption DEF register_code, unregister_code, Reports, CodeKeys
  <2>4. r.pressed \in BOOLEAN
    BY <2>1 DEF Records
  <2>5. QED
    BY <1>2, <2>2, <2>3, <2>4 DEF process_action
<1>3. QED
  BY <1>1, <1>2

\* A record acted on is the same record, but for a count taken back.
LEMMA ActedType ==
  ASSUME NEW r \in Records
  PROVE  /\ Acted(r) \in Records
         /\ Acted(r).key = r.key /\ Acted(r).pressed = r.pressed
         /\ Acted(r).count \in {0, r.count}
  BY TappingAssumption DEF Acted, Records

LEMMA SettledKeys == \A buffer : SettledAhead(buffer) \subseteq Keys
  BY TappingAssumption DEF SettledAhead

LEMMA NoneIsNoRecord == \A r \in Records \cup Ticks : r # None
  BY NoneAssumption

(***************************************************************************)
(* The two results keep the invariant.                                     *)
(***************************************************************************)

\* What is consumed leaves the buffer as it was, or as b, but for its head.
LEMMA ConsumedKeeps ==
  ASSUME IInv, ~Idle,
         NEW t \in Records \cup {None}, NEW b \in Seq(Records), NEW rep \in Reports,
         Len(b) = Len(waiting_buffer), \A i \in DOMAIN b : Fresh(b[i]),
         t # None /\ t.pressed /\ t.count = 1
           => \E i \in DOMAIN b : (waiting => i # 1) /\ b[i].key = t.key /\ ~b[i].pressed,
         Consumed(t, b, rep)
  PROVE  IInv'
<1>1. tapping_key' = t /\ report' = rep /\ event' = None /\ UNCHANGED <<now, down, cursor, tasks, forgotten>>
  BY DEF Consumed, taskVars
<1>2. waiting_buffer' = (IF waiting THEN Tail(b) ELSE b) /\ waiting' = (waiting_buffer' # <<>>)
  BY DEF Consumed
<1>3. waiting => b # <<>>
  BY DEF IInv, TypeOK
<1>4. /\ waiting_buffer' \in Seq(Records)
      /\ Len(waiting_buffer') <= Len(b)
      /\ waiting => /\ Len(waiting_buffer') = Len(b) - 1
                    /\ \A i \in 1 .. Len(b) - 1 : waiting_buffer'[i] = b[i + 1]
  BY <1>2, <1>3, HeadTailProperties
<1>5. overtaken' \subseteq Keys
  <2>1. event # None /\ Waits(event.key) => event.key \in Keys
    <3> SUFFICES ASSUME NEW i \in DOMAIN waiting_buffer, waiting_buffer[i].key = event.key
                 PROVE  event.key \in Keys
      BY DEF Waits
    <3>1. waiting_buffer[i] \in Records
      BY DEF IInv, TypeOK
    <3>2. QED
      BY <3>1 DEF Records
  <2>2. QED
    BY <2>1, SettledKeys DEF Consumed, IInv, TypeOK
<1>6. TypeOK'
  <2>1. Len(waiting_buffer') < WAITING_BUFFER_SIZE
    BY <1>4, TappingAssumption DEF IInv, TypeOK
  <2>2. forgotten' \subseteq down'
    BY <1>1 DEF IInv, TypeOK
  <2>3. QED
    BY <1>1, <1>2, <1>4, <1>5, <2>1, <2>2 DEF IInv, TypeOK
<1>7. \A i \in DOMAIN waiting_buffer' : Fresh(waiting_buffer'[i])
  <2>1. CASE waiting
    <3> TAKE i \in DOMAIN waiting_buffer'
    <3>1. i \in 1 .. Len(b) - 1 /\ i + 1 \in DOMAIN b
      BY <2>1, <1>4
    <3>2. QED
      BY <3>1, <2>1, <1>4
  <2>2. CASE ~waiting
    BY <2>2, <1>2
  <2>3. QED
    BY <2>1, <2>2
<1>8. FirstTapIsLetGo'
  <2> SUFFICES ASSUME t # None, t.pressed, t.count = 1
               PROVE  ReleaseWaits(t.key)'
    BY <1>1 DEF FirstTapIsLetGo, Tapping
  <2>1. PICK i \in DOMAIN b : (waiting => i # 1) /\ b[i].key = t.key /\ ~b[i].pressed
    OBVIOUS
  <2>2. CASE waiting
    <3>1. i - 1 \in 1 .. Len(b) - 1 /\ i - 1 \in DOMAIN waiting_buffer' /\ waiting_buffer'[i - 1] = b[i]
      BY <2>1, <2>2, <1>4
    <3>2. QED
      BY <3>1, <2>1 DEF ReleaseWaits
  <2>3. CASE ~waiting
    BY <2>1, <2>3, <1>2 DEF ReleaseWaits
  <2>4. QED
    BY <2>2, <2>3
<1>9. QED
  BY <1>1, <1>6, <1>7, <1>8 DEF IInv, PressesAreFresh

\* What is retained is in the buffer afterwards, unless it was full.
LEMMA RetainedKeeps ==
  ASSUME IInv, ~Idle,
         NEW t \in Records \cup {None}, NEW r \in Records \cup Ticks, NEW rep \in Reports,
         waiting \/ r.key # TICK.key => r \in Records, Fresh(r),
         t # None /\ t.pressed /\ t.count = 1
           => r \in Records /\ r.key = t.key /\ ~r.pressed,
         Retained(t, r, rep)
  PROVE  IInv'
<1>1. event' = None /\ UNCHANGED <<now, down, cursor, tasks>>
      /\ waiting' = (~waiting /\ waiting_buffer' # <<>>)
  BY DEF Retained, taskVars
<1>2. CASE ~waiting /\ r.key # TICK.key /\ BufferFull
  <2>1. tapping_key' = None /\ report' = Empty /\ waiting_buffer' = <<>>
        /\ forgotten' = down /\ overtaken' = {}
    BY <1>2 DEF Retained
  <2>2. waiting_buffer' \in Seq(Records) /\ Len(waiting_buffer') = 0 /\ waiting' = FALSE
    <3>1. <<>> \in Seq(Records) /\ Len(<<>>) = 0
      OBVIOUS
    <3>2. QED
      BY <1>1, <2>1, <3>1
  <2>3. report' \in Reports
    BY <2>1 DEF Empty, Reports
  <2>4. Len(waiting_buffer') < WAITING_BUFFER_SIZE
    BY <2>2, TappingAssumption
  <2>5. TypeOK'
    BY <1>1, <2>1, <2>2, <2>3, <2>4 DEF IInv, TypeOK
  <2>6. QED
    BY <1>1, <2>1, <2>5 DEF IInv, PressesAreFresh, FirstTapIsLetGo, Tapping
<1>3. CASE ~(~waiting /\ r.key # TICK.key /\ BufferFull)
  <2>1. tapping_key' = t /\ report' = rep /\ UNCHANGED forgotten /\ overtaken' \subseteq Keys
    BY <1>3, SettledKeys DEF Retained, IInv, TypeOK
  <2>2. /\ waiting_buffer' \in Seq(Records)
        /\ Len(waiting_buffer') < WAITING_BUFFER_SIZE
        /\ \A i \in DOMAIN waiting_buffer' : Fresh(waiting_buffer'[i])
        /\ r \in Records => \E i \in DOMAIN waiting_buffer' : waiting_buffer'[i] = r
    <3>1. CASE waiting
      <4>1. waiting_buffer' = [waiting_buffer EXCEPT ![1] = r] /\ r \in Records
        BY <1>3, <3>1 DEF Retained
      <4>2. 1 \in DOMAIN waiting_buffer /\ DOMAIN waiting_buffer' = DOMAIN waiting_buffer
            /\ Len(waiting_buffer') = Len(waiting_buffer)
        BY <3>1, <4>1 DEF IInv, TypeOK
      <4>3. waiting_buffer' \in Seq(Records)
        BY <4>1, <4>2 DEF IInv, TypeOK
      <4>4. \A i \in DOMAIN waiting_buffer : waiting_buffer'[i] = IF i = 1 THEN r ELSE waiting_buffer[i]
        BY <4>1 DEF IInv, TypeOK
      <4>5. QED
        BY <4>2, <4>3, <4>4 DEF IInv, TypeOK, PressesAreFresh
    <3>2. CASE ~waiting /\ r.key = TICK.key
      <4>1. waiting_buffer' = waiting_buffer
        BY <1>3, <3>2 DEF Retained
      <4>2. r \notin Records
        BY <3>2, TickIsNoKey DEF Records
      <4>3. QED
        BY <4>1, <4>2 DEF IInv, TypeOK, PressesAreFresh
    <3>3. CASE ~waiting /\ r.key # TICK.key
      <4>1. waiting_buffer' = Append(waiting_buffer, r) /\ r \in Records /\ ~BufferFull
        BY <1>3, <3>3 DEF Retained
      <4>2. /\ waiting_buffer' \in Seq(Records)
            /\ Len(waiting_buffer') = Len(waiting_buffer) + 1
            /\ waiting_buffer'[Len(waiting_buffer) + 1] = r
            /\ \A i \in 1 .. Len(waiting_buffer) : waiting_buffer'[i] = waiting_buffer[i]
        BY <4>1, AppendProperties DEF IInv, TypeOK
      <4>3. Len(waiting_buffer') < WAITING_BUFFER_SIZE
        BY <4>1, <4>2, TappingAssumption DEF BufferFull, IInv, TypeOK
      <4>4. \A i \in DOMAIN waiting_buffer' : Fresh(waiting_buffer'[i])
        <5> TAKE i \in DOMAIN waiting_buffer'
        <5>1. i \in 1 .. Len(waiting_buffer) \/ i = Len(waiting_buffer) + 1
          BY <4>2 DEF IInv, TypeOK
        <5>2. QED
          BY <5>1, <4>2 DEF IInv, TypeOK, PressesAreFresh
      <4>5. Len(waiting_buffer) + 1 \in DOMAIN waiting_buffer'
        BY <4>2 DEF IInv, TypeOK
      <4>6. QED
        BY <4>2, <4>3, <4>4, <4>5
    <3>4. QED
      BY <3>1, <3>2, <3>3
  <2>3. TypeOK'
    BY <1>1, <2>1, <2>2 DEF IInv, TypeOK
  <2>4. FirstTapIsLetGo'
    <3> SUFFICES ASSUME t # None, t.pressed, t.count = 1
                 PROVE  ReleaseWaits(t.key)'
      BY <2>1 DEF FirstTapIsLetGo, Tapping
    <3>1. PICK i \in DOMAIN waiting_buffer' : waiting_buffer'[i] = r
      BY <2>2
    <3>2. QED
      BY <3>1 DEF ReleaseWaits
  <2>5. QED
    BY <1>1, <2>2, <2>3, <2>4 DEF IInv, PressesAreFresh
<1>4. QED
  BY <1>2, <1>3

LEMMA RecordIsFresh ==
  ASSUME IInv, ~Idle
  PROVE  Fresh(Record)
<1>1. CASE waiting
  <2>1. Record = waiting_buffer[1] /\ 1 \in DOMAIN waiting_buffer
    BY <1>1, RecordInBuffer DEF IInv, TypeOK
  <2>2. QED
    BY <2>1 DEF IInv, PressesAreFresh
<1>2. CASE ~waiting
  BY <1>2 DEF IInv, PressesAreFresh, Record, Idle
<1>3. QED
  BY <1>1, <1>2

\* The release found by the scan is not the head, which is the press.
LEMMA StartTapKeeps ==
  ASSUME IInv, ~Idle, TapPress, NEW rep \in Reports, StartTap(Record, rep)
  PROVE  IInv'
<1>1. Record \in Records /\ Record.pressed /\ Record.count = 0
  <2>1. Record.key # TICK.key
    BY TickIsNoKey, TappingAssumption DEF TapPress
  <2>2. QED
    BY <2>1, RecordInBuffer, RecordIsFresh DEF TapPress, Fresh, IInv
<1>2. CASE FirstTapRelease(Record) = {}
  <2>1. Consumed(Record, waiting_buffer, rep)
    BY <1>2 DEF StartTap
  <2>2. QED
    BY <1>1, <2>1, ConsumedKeeps DEF IInv, TypeOK, PressesAreFresh
<1>3. CASE FirstTapRelease(Record) # {}
  <2> DEFINE tap == [Record EXCEPT !.count = 1]
             b(i) == [waiting_buffer EXCEPT ![i].count = 1]
  <2>1. PICK i \in FirstTapRelease(Record) : Consumed(Acted(tap), b(i), process_action(rep, tap))
    BY <1>3 DEF StartTap
  <2>2. tap \in Records /\ tap.key = Record.key /\ tap.pressed
    BY <1>1, TappingAssumption DEF Records
  <2>3. Acted(tap) \in Records /\ Acted(tap).key = Record.key
    BY <2>2, ActedType
  <2>4. process_action(rep, tap) \in Reports
    BY <2>2, ActionType
  <2>5. i \in DOMAIN waiting_buffer /\ waiting_buffer[i].key = Record.key /\ ~waiting_buffer[i].pressed
    BY DEF FirstTapRelease, IsTapRelease
  <2>6. waiting => i # 1
    BY <1>1, <2>5, RecordInBuffer DEF IInv
  <2>7. \A j \in DOMAIN waiting_buffer : waiting_buffer[j] \in Records
    BY DEF IInv, TypeOK
  <2>8. /\ DOMAIN b(i) = DOMAIN waiting_buffer
        /\ \A j \in DOMAIN waiting_buffer :
             b(i)[j] = IF j = i THEN [waiting_buffer[i] EXCEPT !.count = 1] ELSE waiting_buffer[j]
    BY <2>5 DEF IInv, TypeOK
  <2>9. [waiting_buffer[i] EXCEPT !.count = 1] \in Records
    BY <2>5, <2>7, TappingAssumption DEF Records
  <2>10. b(i) \in Seq(Records) /\ Len(b(i)) = Len(waiting_buffer)
    BY <2>5, <2>9, ExceptSeq DEF IInv, TypeOK
  <2>11. \A j \in DOMAIN b(i) : Fresh(b(i)[j])
    <3> TAKE j \in DOMAIN b(i)
    <3>1. CASE j = i
      <4>1. b(i)[j].pressed = waiting_buffer[i].pressed
        BY <2>5, <2>7, <2>8, <3>1 DEF Records
      <4>2. QED
        BY <4>1, <2>5 DEF Fresh
    <3>2. CASE j # i
      BY <2>8, <3>2 DEF IInv, PressesAreFresh
    <3>3. QED
      BY <3>1, <3>2
  <2>12. i \in DOMAIN b(i) /\ b(i)[i].key = Acted(tap).key /\ ~b(i)[i].pressed
    BY <2>3, <2>5, <2>7, <2>8 DEF Records
  <2> HIDE DEF tap, b
  <2>13. QED
    BY <2>1, <2>3, <2>4, <2>6, <2>10, <2>11, <2>12, ConsumedKeeps
<1>4. QED
  BY <1>2, <1>3
(***************************************************************************)
(* Every branch of process_tapping keeps it.                               *)
(***************************************************************************)

LEMMA RecordFacts ==
  ASSUME IInv, ~Idle
  PROVE  /\ Record \in Records \cup Ticks /\ Fresh(Record) /\ Record.pressed \in BOOLEAN
         /\ waiting \/ Record.key # TICK.key => Record \in Records
         /\ report \in Reports
         /\ process_action(report, Record) \in Reports
         /\ tapping_key \in Records \cup {None}
         /\ waiting_buffer \in Seq(Records)
         /\ \A i \in DOMAIN waiting_buffer : Fresh(waiting_buffer[i])
<1>1. Record \in Records \cup Ticks /\ Fresh(Record)
      /\ (waiting \/ Record.key # TICK.key => Record \in Records)
  BY RecordInBuffer, RecordIsFresh DEF IInv
<1>2. Record.pressed \in BOOLEAN
  BY <1>1 DEF Records, Ticks
<1>3. QED
  BY <1>1, <1>2, ActionType DEF IInv, TypeOK, PressesAreFresh

LEMMA TappingKeyFacts ==
  ASSUME IInv, NEW p \in BOOLEAN, Tapping(p)
  PROVE  tapping_key \in Records /\ tapping_key.key # TICK.key
  BY TickIsNoKey DEF Tapping, IInv, TypeOK, Records

\* A result whose tapping key asks for no release.
LEMMA ConsumedAsIs ==
  ASSUME IInv, ~Idle, NEW t \in Records \cup {None}, NEW rep \in Reports,
         ~(t # None /\ t.pressed /\ t.count = 1),
         Consumed(t, waiting_buffer, rep)
  PROVE  IInv'
  BY RecordFacts, ConsumedKeeps

LEMMA RetainedAsIs ==
  ASSUME IInv, ~Idle, NEW t \in Records \cup {None}, NEW rep \in Reports,
         ~(t # None /\ t.pressed /\ t.count = 1),
         Retained(t, Record, rep)
  PROVE  IInv'
  BY RecordFacts, RetainedKeeps

LEMMA FirstTapStep ==
  ASSUME IInv, ~Idle, FirstTap
  PROVE  IInv'
<1> DEFINE tap == [tapping_key EXCEPT !.count = 1]
           r == [Record EXCEPT !.count = Acted(tap).count, !.interrupted = tap.interrupted]
<1>1. tapping_key \in Records /\ Record.key = tapping_key.key /\ ~Record.pressed /\ Record \in Records
  BY TappingKeyFacts, RecordFacts DEF FirstTap, Undecided, OwnKey
<1>2. tap \in Records /\ tap.key = tapping_key.key
  BY <1>1, TappingAssumption DEF Records
<1>3. Acted(tap) \in Records /\ Acted(tap).key = tapping_key.key
  BY <1>2, ActedType
<1>4. r \in Records /\ r.key = tapping_key.key /\ ~r.pressed
  BY <1>1, <1>2, <1>3 DEF Records
<1>5. process_action(report, tap) \in Reports
  BY <1>2, ActionType, RecordFacts
<1>6. Retained(Acted(tap), r, process_action(report, tap))
  BY DEF FirstTap
<1> HIDE DEF tap, r
<1>7. QED
  BY <1>3, <1>4, <1>5, <1>6, RetainedKeeps DEF Fresh

LEMMA UndecidedStep ==
  ASSUME IInv, ~Idle, EarlierRelease \/ WaitForTap \/ HoldTimeout
  PROVE  IInv'
<1>1. tapping_key \in Records /\ tapping_key.count = 0
  BY TappingKeyFacts DEF EarlierRelease, WaitForTap, HoldTimeout, Undecided
<1>2. CASE EarlierRelease
  BY <1>1, <1>2, RecordFacts, ConsumedAsIs, RetainedAsIs DEF EarlierRelease
<1>3. CASE WaitForTap
  <2> DEFINE t == [tapping_key EXCEPT !.interrupted = @ \/ Record.pressed]
  <2>1. (tapping_key.interrupted \/ Record.pressed) \in BOOLEAN
    OBVIOUS
  <2>2. t \in Records /\ t.count = 0
    BY <1>1, <2>1 DEF Records
  <2>3. Retained(t, Record, report)
    BY <1>3 DEF WaitForTap
  <2> HIDE DEF t
  <2>4. QED
    BY <2>2, <2>3, RecordFacts, RetainedAsIs
<1>4. CASE HoldTimeout
  <2>1. process_action(report, tapping_key) \in Reports
    BY <1>1, ActionType, RecordFacts
  <2>2. Retained(None, Record, process_action(report, tapping_key))
    BY <1>4 DEF HoldTimeout
  <2>3. QED
    BY <2>1, <2>2, RetainedAsIs
<1>5. QED
  BY <1>2, <1>3, <1>4

LEMMA TappedStep ==
  ASSUME IInv, ~Idle, TapRelease \/ TapInterferes \/ ActWhileTapped
  PROVE  IInv'
<1>1. tapping_key \in Records /\ tapping_key.pressed /\ tapping_key.key # TICK.key
  BY TappingKeyFacts DEF TapRelease, TapInterferes, ActWhileTapped, Tapped, Tapping
<1>2. CASE TapRelease
  <2> DEFINE r == [Record EXCEPT !.count = tapping_key.count, !.interrupted = tapping_key.interrupted]
  <2>1. Record \in Records /\ ~Record.pressed
    BY <1>1, <1>2, RecordFacts DEF TapRelease, OwnKey
  <2>2. r \in Records /\ ~r.pressed
    BY <1>1, <2>1 DEF Records
  <2>3. process_action(report, r) \in Reports
    BY <2>2, ActionType, RecordFacts
  <2>4. Consumed(IF InTerm THEN r ELSE None, waiting_buffer, process_action(report, r))
    BY <1>2 DEF TapRelease
  <2> HIDE DEF r
  <2>5. QED
    BY <2>2, <2>3, <2>4, ConsumedAsIs
<1>3. CASE TapInterferes
  <2>1. [tapping_key EXCEPT !.pressed = FALSE] \in Records
    BY <1>1 DEF Records
  <2>2. LetGo \in Reports
    BY <2>1, ActionType, RecordFacts DEF LetGo
  <2>3. QED
    BY <1>3, <2>2, StartTapKeeps DEF TapInterferes
<1>4. CASE ActWhileTapped
  <2>1. Consumed(tapping_key, waiting_buffer, process_action(report, Record))
    BY <1>4 DEF ActWhileTapped
  <2>2. CASE tapping_key.count # 1
    BY <1>1, <2>1, <2>2, RecordFacts, ConsumedAsIs
  <2>3. CASE tapping_key.count = 1
    <3>1. PICK i \in DOMAIN waiting_buffer :
            waiting_buffer[i].key = tapping_key.key /\ ~waiting_buffer[i].pressed
      BY <1>4, <2>3 DEF IInv, FirstTapIsLetGo, ReleaseWaits, ActWhileTapped, Tapped
    <3>2. waiting => i # 1
      BY <1>4, <3>1, RecordInBuffer DEF ActWhileTapped, OwnKey, IInv
    <3>3. QED
      BY <1>1, <2>1, <3>1, <3>2, RecordFacts, ConsumedKeeps
  <2>4. QED
    BY <2>2, <2>3
<1>5. QED
  BY <1>2, <1>3, <1>4

LEMMA AfterTapStep ==
  ASSUME IInv, ~Idle, SequentialTap \/ OtherTapAfterTap \/ ActAfterTap \/ TapTimeout
  PROVE  IInv'
<1>1. tapping_key \in Records /\ ~tapping_key.pressed /\ tapping_key.key # TICK.key
  BY TappingKeyFacts DEF SequentialTap, OtherTapAfterTap, ActAfterTap, TapTimeout, Tapping
<1>2. CASE SequentialTap
  <2> DEFINE n == IF tapping_key.count < MAX_TAP_COUNT THEN tapping_key.count + 1
                                                        ELSE tapping_key.count
             r == [Record EXCEPT !.count = n]
  <2>1. Record \in Records /\ Record.pressed /\ Record.count = 0
    BY <1>1, <1>2, RecordFacts DEF SequentialTap, OwnKey, Fresh
  <2>2. CASE ~tapping_key.interrupted /\ tapping_key.count > 0
    <3>1. tapping_key.count \in 0 .. MAX_TAP_COUNT
      BY <1>1 DEF Records
    <3>2. n \in 0 .. MAX_TAP_COUNT /\ n # 1
      BY <2>2, <3>1, TappingAssumption
    <3>3. r \in Records /\ r.count # 1
      BY <2>1, <3>2 DEF Records
    <3>4. process_action(report, r) \in Reports
      BY <3>3, ActionType, RecordFacts
    <3>5. Consumed(r, waiting_buffer, process_action(report, r))
      BY <1>2, <2>2 DEF SequentialTap
    <3> HIDE DEF r
    <3>6. QED
      BY <3>3, <3>4, <3>5, ConsumedAsIs
  <2>3. CASE ~(~tapping_key.interrupted /\ tapping_key.count > 0)
    BY <1>2, <2>1, <2>3, RecordFacts, ConsumedAsIs DEF SequentialTap
  <2>4. QED
    BY <2>2, <2>3
<1>3. CASE OtherTapAfterTap
  BY <1>3, RecordFacts, StartTapKeeps DEF OtherTapAfterTap
<1>4. CASE ActAfterTap
  <2> DEFINE t == [tapping_key EXCEPT !.interrupted = @ \/ Record.pressed]
  <2>1. (tapping_key.interrupted \/ Record.pressed) \in BOOLEAN
    OBVIOUS
  <2>2. t \in Records /\ ~t.pressed
    BY <1>1, <2>1 DEF Records
  <2>3. Consumed(t, waiting_buffer, process_action(report, Record))
    BY <1>4 DEF ActAfterTap
  <2> HIDE DEF t
  <2>4. QED
    BY <2>2, <2>3, RecordFacts, ConsumedAsIs
<1>5. CASE TapTimeout
  BY <1>5, RecordFacts, RetainedAsIs DEF TapTimeout
<1>6. QED
  BY <1>2, <1>3, <1>4, <1>5
LEMMA NotTappingStep ==
  ASSUME IInv, ~Idle, NotTapping
  PROVE  IInv'
<1>1. CASE TapPress
  BY <1>1, RecordFacts, StartTapKeeps DEF NotTapping
<1>2. CASE ~TapPress
  BY <1>2, RecordFacts, ConsumedAsIs DEF NotTapping
<1>3. QED
  BY <1>1, <1>2

(***************************************************************************)
(* The task and the clock.                                                 *)
(***************************************************************************)

LEMMA TimeRead ==
  ASSUME TypeOK
  PROVE  timer_read \in Times
<1>1. now \in Nat /\ TIME_RANGE - 1 \in Nat /\ 0 < TIME_RANGE - 1
  BY TappingAssumption DEF TypeOK
<1>2. now % (TIME_RANGE - 1) \in 0 .. TIME_RANGE - 1 - 1
  BY <1>1
<1>3. QED
  BY <1>1, <1>2, TappingAssumption DEF timer_read, Times

LEMMA NewRecordType ==
  ASSUME TypeOK
  PROVE  /\ \A k \in Keys, p \in BOOLEAN : NewRecord(k, p) \in Records /\ Fresh(NewRecord(k, p))
         /\ NewRecord(TICK.key, FALSE) \in Ticks /\ Fresh(NewRecord(TICK.key, FALSE))
  BY TimeRead, TappingAssumption DEF NewRecord, Records, Ticks, Fresh

LEMMA TaskStep ==
  ASSUME IInv, (\E k \in Keys : KeyEvent(k)) \/ Tick \/ PassTime
  PROVE  IInv'
<1>1. CASE \E k \in Keys : KeyEvent(k)
  <2>1. PICK k \in Keys : KeyEvent(k)
    BY <1>1
  <2>2. event' \in Records /\ Fresh(event') /\ cursor' \in Nat
    <3>1. event' = NewRecord(k, k \notin down) /\ cursor' = k + 1
      BY <2>1 DEF KeyEvent
    <3>2. (k \notin down) \in BOOLEAN
      OBVIOUS
    <3> DEFINE p == k \notin down
    <3> HIDE DEF p
    <3>3. NewRecord(k, p) \in Records /\ Fresh(NewRecord(k, p))
      BY <3>2, NewRecordType DEF IInv, p
    <3>4. QED
      BY <3>1, <3>3, TappingAssumption DEF p
  <2>3. /\ down' \subseteq Keys /\ forgotten' \subseteq down' /\ overtaken' \subseteq Keys
        /\ ~waiting
    BY <2>1 DEF KeyEvent, IInv, TypeOK, Idle
  <2>4. UNCHANGED <<now, tasks, waiting, tapping_key, waiting_buffer, report>>
    BY <2>1 DEF KeyEvent
  <2>5. TypeOK'
    BY <2>2, <2>3, <2>4 DEF IInv, TypeOK
  <2>6. QED
    BY <2>2, <2>4, <2>5 DEF IInv, PressesAreFresh, FirstTapIsLetGo, Tapping, ReleaseWaits
<1>2. CASE Tick
  <2>1. event' \in Ticks /\ Fresh(event') /\ cursor' = 0 /\ ~waiting
    BY <1>2, NewRecordType DEF Tick, IInv, Idle
  <2>2. UNCHANGED <<now, down, waiting, tapping_key, waiting_buffer, report, forgotten, overtaken>>
    BY <1>2 DEF Tick
  <2>3. tasks' \in 0 .. MAX_TASKS
    BY <1>2, TappingAssumption DEF Tick, IInv, TypeOK
  <2>4. TypeOK'
    BY <2>1, <2>2, <2>3 DEF IInv, TypeOK
  <2>5. QED
    BY <2>1, <2>2, <2>4 DEF IInv, PressesAreFresh, FirstTapIsLetGo, Tapping, ReleaseWaits
<1>3. CASE PassTime
  <2>1. now + 1 \in Nat /\ now' = (now + 1) % COUNTER_RANGE
    BY <1>3, TappingAssumption DEF PassTime, IInv, TypeOK
  <2>2. now' \in 0 .. COUNTER_RANGE - 1
    BY <2>1, TappingAssumption
  <2>3. tasks' \in 0 .. MAX_TASKS
    BY <1>3, TappingAssumption DEF PassTime, IInv, TypeOK
  <2>4. UNCHANGED <<down, cursor, event, waiting, tapping_key, waiting_buffer, report, forgotten,
                    overtaken>>
    BY <1>3 DEF PassTime
  <2>5. TypeOK'
    BY <2>2, <2>3, <2>4 DEF IInv, TypeOK
  <2>6. QED
    BY <2>4, <2>5 DEF IInv, PressesAreFresh, FirstTapIsLetGo, Tapping, ReleaseWaits
<1>4. QED
  BY <1>1, <1>2, <1>3

(***************************************************************************)
(* Theorems.                                                               *)
(***************************************************************************)

LEMMA Invariance == Spec => []IInv
<1>1. Init => IInv
  <2> SUFFICES ASSUME Init PROVE IInv
    OBVIOUS
  <2>1. waiting_buffer \in Seq(Records) /\ Len(waiting_buffer) = 0
    BY DEF Init
  <2>2. report \in Reports
    BY DEF Init, Empty, Reports
  <2>3. now \in 0 .. COUNTER_RANGE - 1 /\ tasks \in 0 .. MAX_TASKS
        /\ Len(waiting_buffer) < WAITING_BUFFER_SIZE
    BY <2>1, TappingAssumption DEF Init
  <2>4. TypeOK
    BY <2>1, <2>2, <2>3 DEF Init, TypeOK
  <2>5. QED
    BY <2>1, <2>4 DEF Init, IInv, PressesAreFresh, FirstTapIsLetGo, Tapping
<1>2. IInv /\ [Next]_vars => IInv'
  <2> SUFFICES ASSUME IInv, [Next]_vars PROVE IInv'
    OBVIOUS
  <2>1. CASE process_tapping
    BY <2>1, FirstTapStep, UndecidedStep, TappedStep, AfterTapStep, NotTappingStep DEF process_tapping
  <2>2. CASE (\E k \in Keys : KeyEvent(k)) \/ Tick \/ PassTime
    BY <2>2, TaskStep
  <2>3. CASE UNCHANGED vars
    BY <2>3 DEF vars, IInv, TypeOK, PressesAreFresh, FirstTapIsLetGo, Tapping, ReleaseWaits
  <2>4. QED
    BY <2>1, <2>2, <2>3 DEF Next
<1>3. QED
  BY <1>1, <1>2, PTL DEF Spec

\* Types: what process_tapping keeps are records of keys, the waiting buffer never
\* fills its ring, and reports are of the codes and modifiers of the keymap
\* (action_tapping.c, action.c).
THEOREM TypeCorrect == Spec => []TypeOK
<1>1. IInv => TypeOK
  BY DEF IInv
<1>2. QED
  BY <1>1, Invariance, PTL

\* The release of a key tapped for the first time waits in the buffer until it is
\* acted on, so a tap key that takes over need not let go of it
\* (process_tapping, waiting_buffer_scan_tap).
THEOREM FirstTapLetGo == Spec => []FirstTapIsLetGo
<1>1. IInv => FirstTapIsLetGo
  BY DEF IInv
<1>2. QED
  BY <1>1, Invariance, PTL

\* Without a tap key, as in the keymap of the firmware, nothing ever waits.
NothingWaits == tapping_key = None /\ waiting_buffer = <<>> /\ ~waiting

\* With a keymap that has no tap key process_tapping acts on every event as it comes:
\* what Keyboard's action_exec stands for.
THEOREM PlainKeymapNeverWaits ==
  ASSUME TapKeys = {}
  PROVE  Spec => []NothingWaits
<1>1. Init => NothingWaits
  BY DEF Init, NothingWaits
<1>2. NothingWaits /\ [Next]_vars => NothingWaits'
  <2> SUFFICES ASSUME NothingWaits, [Next]_vars PROVE NothingWaits'
    OBVIOUS
  <2>1. ~Tapping(TRUE) /\ ~Tapping(FALSE) /\ ~Undecided /\ ~Tapped /\ ~TapPress
    BY DEF NothingWaits, Tapping, Undecided, Tapped, TapPress
  <2>2. CASE process_tapping
    <3>1. NotTapping
      BY <2>1, <2>2 DEF process_tapping, FirstTap, EarlierRelease, WaitForTap, HoldTimeout,
                        TapRelease, TapInterferes, ActWhileTapped, SequentialTap,
                        OtherTapAfterTap, ActAfterTap, TapTimeout
    <3>2. Consumed(None, waiting_buffer, process_action(report, Record))
      BY <2>1, <3>1 DEF NotTapping
    <3>3. QED
      BY <3>2 DEF Consumed, NothingWaits
  <2>3. CASE (\E k \in Keys : KeyEvent(k)) \/ Tick \/ PassTime
    <3>1. UNCHANGED <<waiting, tapping_key, waiting_buffer>>
      BY <2>3 DEF KeyEvent, Tick, PassTime
    <3>2. QED
      BY <3>1 DEF NothingWaits
  <2>4. CASE UNCHANGED vars
    BY <2>4 DEF vars, NothingWaits
  <2>5. QED
    BY <2>2, <2>3, <2>4 DEF Next
<1>3. QED
  BY <1>1, <1>2, PTL DEF Spec
=============================================================================
