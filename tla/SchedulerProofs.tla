-------------------------- MODULE SchedulerProofs ---------------------------
(***************************************************************************)
(* Proofs about Scheduler, for every set of events, every set of interrupt *)
(* priorities and every queue size that the indices can count.             *)
(***************************************************************************)
EXTENDS Scheduler, SequenceTheorems, TLAPS

(***************************************************************************)
(* The inductive invariant.                                                *)
(***************************************************************************)

\* Entry i lies between the indices.
InQueue(i) ==
  IF m_queue_start_index <= m_queue_end_index
  THEN m_queue_start_index <= i /\ i < m_queue_end_index
  ELSE m_queue_start_index <= i \/ i < m_queue_end_index

\* A reserved entry is in the queue, and belongs to one interrupt handler.
ReservedOnce ==
  /\ \A l \in Levels : event_index[l] # NotReserved =>
       putting[l] # NoEvent /\ InQueue(event_index[l])
  /\ \A l, m \in Levels :
       event_index[l] = event_index[m] /\ event_index[l] # NotReserved => l = m

\* The other entries of the queue are filled.
FilledElsewhere ==
  \A i \in Entries : InQueue(i) /\ ~Reserved(i) => m_queue_event_headers[i] \in Events

\* The event handler that runs is that of the first entry.
RunsFirst ==
  /\ loop = "handler" =>
       /\ exec_index = m_queue_start_index
       /\ ~app_sched_queue_empty
       /\ ~Reserved(m_queue_start_index)
       /\ current = m_queue_event_headers[m_queue_start_index]
  /\ loop # "handler" => current = NoEvent

\* The device can only sleep when there is nothing to do, and an interrupt
\* handler that runs will wake it.
WokenUp ==
  /\ ~InThreadMode => signalled
  /\ loop = "wait" /\ ~signalled => app_sched_queue_empty

RefusedFull == fault = "no memory" => app_sched_queue_full

IInv == TypeOK /\ ReservedOnce /\ FilledElsewhere /\ RunsFirst /\ WokenUp /\ RefusedFull

(***************************************************************************)
(* The ring.                                                               *)
(***************************************************************************)

\* next_index stays within the entries and moves.
LEMMA NextIndexType ==
  ASSUME NEW i \in Entries
  PROVE  next_index(i) \in Entries /\ next_index(i) # i
BY SchedulerAssumption DEF next_index, Entries

\* The indices, as the numbers they are.
LEMMA IndicesAreNumbers ==
  ASSUME TypeOK
  PROVE  /\ m_queue_size \in Nat /\ m_queue_size > 0
         /\ m_queue_start_index \in Nat /\ m_queue_start_index <= m_queue_size
         /\ m_queue_end_index \in Nat /\ m_queue_end_index <= m_queue_size
         /\ \A i \in Entries : i \in Nat /\ i <= m_queue_size
<1>1. m_queue_size \in Nat /\ m_queue_size > 0
  BY SchedulerAssumption
<1>2. m_queue_start_index \in 0 .. m_queue_size /\ m_queue_end_index \in 0 .. m_queue_size
  BY DEF TypeOK, Entries
<1>3. \A i \in 0 .. m_queue_size : i \in Nat /\ i <= m_queue_size
  BY <1>1
<1> QED
  BY <1>1, <1>2, <1>3 DEF Entries

\* A queue that is not empty has its first entry in it.
LEMMA FirstInQueue ==
  ASSUME TypeOK
  PROVE  ~app_sched_queue_empty <=> InQueue(m_queue_start_index)
BY IndicesAreNumbers DEF app_sched_queue_empty, InQueue

\* Advancing the end of a queue that is not full adds the entry at the end.
LEMMA EndAdvances ==
  ASSUME TypeOK, ~app_sched_queue_full,
         m_queue_end_index' = next_index(m_queue_end_index),
         m_queue_start_index' = m_queue_start_index
  PROVE  /\ ~app_sched_queue_empty'
         /\ ~InQueue(m_queue_end_index)
         /\ \A i \in Entries : InQueue(i)' <=> InQueue(i) \/ i = m_queue_end_index
BY IndicesAreNumbers
DEF app_sched_queue_full, app_sched_queue_empty, next_index, InQueue

\* Advancing the start of a queue that is not empty removes its first entry.
LEMMA StartAdvances ==
  ASSUME TypeOK, ~app_sched_queue_empty,
         m_queue_start_index' = next_index(m_queue_start_index),
         m_queue_end_index' = m_queue_end_index
  PROVE  \A i \in Entries : InQueue(i)' <=> InQueue(i) /\ i # m_queue_start_index
BY IndicesAreNumbers
DEF app_sched_queue_empty, next_index, InQueue

(***************************************************************************)
(* The invariant holds at the start and no step breaks it.                 *)
(***************************************************************************)

LEMMA InitIInv == Init => IInv
<1> SUFFICES ASSUME Init PROVE IInv
  OBVIOUS
<1>1. 0 \in Entries
  BY SchedulerAssumption DEF Entries
<1>2. TypeOK
  BY <1>1 DEF Init, TypeOK
<1>3. ReservedOnce
  BY DEF Init, ReservedOnce
<1>4. FilledElsewhere
  <2>1. \A i \in Entries : ~InQueue(i)
    BY <1>2, IndicesAreNumbers DEF Init, InQueue
  <2> QED
    BY <2>1 DEF FilledElsewhere
<1>5. RunsFirst /\ WokenUp /\ RefusedFull
  BY DEF Init, RunsFirst, WokenUp, RefusedFull, InThreadMode, app_sched_queue_empty
<1> QED
  BY <1>2, <1>3, <1>4, <1>5 DEF IInv

\* 0xFFFF is no entry.
LEMMA NotAnEntry == NotReserved \notin Entries
BY SchedulerAssumption DEF Entries, NotReserved

\* A level that puts nothing has no entry.
LEMMA IdleHasNoEntry ==
  ASSUME ReservedOnce
  PROVE  /\ \A l \in Levels : putting[l] = NoEvent => event_index[l] = NotReserved
         /\ InThreadMode => \A i \in Entries : ~Reserved(i)
BY NotAnEntry DEF ReservedOnce, InThreadMode, Reserved

LEMMA InterruptKeeps ==
  ASSUME IInv, NEW l \in Levels, NEW e \in Events, Interrupt(l, e)
  PROVE  IInv'
<1> USE DEF IInv, Interrupt
<1>1. /\ UNCHANGED <<m_queue_start_index, m_queue_end_index, m_queue_event_headers,
                     event_index, loop, exec_index, current, fault>>
      /\ putting' = [putting EXCEPT ![l] = e]
      /\ signalled' = TRUE
  BY DEF queueIndices, execution
<1>0. putting[l] = NoEvent
  <2>1. l \in Nat
    BY SchedulerAssumption
  <2>2. l <= l
    BY <2>1
  <2> QED
    BY <2>2 DEF Masked
<1> HIDE DEF Interrupt
<1>2. TypeOK'
  BY <1>1 DEF TypeOK
<1>3. ReservedOnce'
  BY <1>0, <1>1, IdleHasNoEntry DEF ReservedOnce, InQueue, TypeOK
<1>4. FilledElsewhere'
  BY <1>1 DEF FilledElsewhere, InQueue, Reserved
<1>5. RunsFirst' /\ WokenUp' /\ RefusedFull'
  BY <1>1 DEF RunsFirst, WokenUp, RefusedFull, Reserved, app_sched_queue_empty,
              app_sched_queue_full, next_index
<1> QED
  BY <1>2, <1>3, <1>4, <1>5

LEMMA ReserveKeeps ==
  ASSUME IInv, NEW l \in Levels, Reserve(l)
  PROVE  IInv'
<1> USE DEF IInv
<1>1. /\ UNCHANGED <<m_queue_start_index, m_queue_event_headers, putting, loop,
                     exec_index, current, signalled>>
      /\ event_index[l] = NotReserved
      /\ putting[l] # NoEvent
      /\ fault = "none"
  BY DEF Reserve, execution, Runs
<1>2. CASE app_sched_queue_full
  <2>1. fault' = "no memory" /\ UNCHANGED <<m_queue_end_index, event_index>>
    BY <1>2 DEF Reserve
  <2>2. TypeOK'
    BY <1>1, <2>1 DEF TypeOK
  <2>3. ReservedOnce' /\ FilledElsewhere'
    BY <1>1, <2>1 DEF ReservedOnce, FilledElsewhere, InQueue, Reserved
  <2>4. RunsFirst' /\ WokenUp'
    BY <1>1, <2>1 DEF RunsFirst, WokenUp, Reserved, InThreadMode, app_sched_queue_empty
  <2>5. RefusedFull'
    BY <1>1, <1>2, <2>1 DEF RefusedFull, app_sched_queue_full, next_index
  <2> QED
    BY <2>2, <2>3, <2>4, <2>5
<1>3. CASE ~app_sched_queue_full
  <2>1. /\ event_index' = [event_index EXCEPT ![l] = m_queue_end_index]
        /\ m_queue_end_index' = next_index(m_queue_end_index)
        /\ fault' = "none"
    BY <1>1, <1>3 DEF Reserve
  <2>2. /\ ~app_sched_queue_empty'
        /\ ~InQueue(m_queue_end_index)
        /\ \A i \in Entries : InQueue(i)' <=> InQueue(i) \/ i = m_queue_end_index
    BY <1>1, <1>3, <2>1, EndAdvances
  <2>3. m_queue_end_index \in Entries /\ m_queue_end_index' \in Entries
    BY <2>1, NextIndexType DEF TypeOK
  <2>4. TypeOK'
    BY <1>1, <2>1, <2>3 DEF TypeOK
  <2>5. /\ event_index'[l] = m_queue_end_index
        /\ \A m \in Levels : m # l => event_index'[m] = event_index[m]
    BY <2>1 DEF TypeOK
  <2>6. \A m \in Levels : event_index[m] # NotReserved =>
          event_index[m] \in Entries /\ event_index[m] # m_queue_end_index
    <3> SUFFICES ASSUME NEW m \in Levels, event_index[m] # NotReserved
                 PROVE  event_index[m] \in Entries /\ event_index[m] # m_queue_end_index
      OBVIOUS
    <3>1. event_index[m] \in Entries
      BY DEF TypeOK
    <3>2. InQueue(event_index[m])
      BY DEF ReservedOnce
    <3>3. event_index[m] = m_queue_end_index => InQueue(m_queue_end_index)
      BY <3>2, Zenon
    <3> QED
      BY <2>2, <3>1, <3>3
  <2>7. ReservedOnce'
    <3>1. ASSUME NEW m \in Levels, event_index'[m] # NotReserved
          PROVE  putting'[m] # NoEvent /\ InQueue(event_index[m])'
      <4>1. CASE m = l
        BY <1>1, <2>2, <2>3, <2>5, <4>1
      <4>2. CASE m # l
        BY <1>1, <2>2, <2>5, <2>6, <3>1, <4>2 DEF ReservedOnce
      <4> QED
        BY <4>1, <4>2
    <3>2. ASSUME NEW m \in Levels, NEW n \in Levels,
                 event_index'[m] = event_index'[n], event_index'[m] # NotReserved
          PROVE  m = n
      BY <2>5, <2>6, <3>2 DEF ReservedOnce
    <3> QED
      BY <3>1, <3>2 DEF ReservedOnce
  <2>8. \A i \in Entries : Reserved(i)' <=> Reserved(i) \/ i = m_queue_end_index
    BY <1>1, <2>5, NotAnEntry DEF Reserved
  <2>9. FilledElsewhere'
    BY <1>1, <2>2, <2>8 DEF FilledElsewhere
  <2>10. RunsFirst'
    <3>1. loop = "handler" => m_queue_start_index # m_queue_end_index
      BY DEF RunsFirst, app_sched_queue_empty
    <3> QED
      BY <1>1, <2>2, <2>8, <3>1 DEF RunsFirst, TypeOK
  <2>11. WokenUp' /\ RefusedFull'
    BY <1>1, <2>1 DEF WokenUp, RefusedFull, InThreadMode
  <2> QED
    BY <2>4, <2>7, <2>9, <2>10, <2>11
<1> QED
  BY <1>2, <1>3

LEMMA FillKeeps ==
  ASSUME IInv, NEW l \in Levels, Fill(l)
  PROVE  IInv'
<1> USE DEF IInv
<1>1. /\ UNCHANGED <<m_queue_start_index, m_queue_end_index, loop, exec_index,
                     current, signalled, fault>>
      /\ m_queue_event_headers' =
           [m_queue_event_headers EXCEPT ![event_index[l]] = putting[l]]
      /\ putting' = [putting EXCEPT ![l] = NoEvent]
      /\ event_index' = [event_index EXCEPT ![l] = NotReserved]
      /\ event_index[l] # NotReserved
      /\ putting[l] # NoEvent
      /\ fault = "none"
  BY DEF Fill, queueIndices, execution, Runs
<1>2. event_index[l] \in Entries /\ putting[l] \in Events /\ Reserved(event_index[l])
  BY <1>1 DEF TypeOK, Reserved
<1>3. TypeOK'
  BY <1>1, <1>2 DEF TypeOK
<1>4. /\ event_index'[l] = NotReserved
      /\ \A m \in Levels : m # l => event_index'[m] = event_index[m] /\ putting'[m] = putting[m]
  BY <1>1 DEF TypeOK
<1>5. ReservedOnce'
  BY <1>1, <1>4 DEF ReservedOnce, InQueue
<1>6. \A i \in Entries : i # event_index[l] =>
        m_queue_event_headers'[i] = m_queue_event_headers[i] /\ (Reserved(i) => Reserved(i)')
  BY <1>1, <1>4 DEF Reserved, TypeOK
<1>7. m_queue_event_headers'[event_index[l]] = putting[l]
  BY <1>1, <1>2 DEF TypeOK
<1>8. \A i \in Entries : Reserved(i)' => Reserved(i)
  BY <1>4, NotAnEntry DEF Reserved
<1>9. FilledElsewhere'
  BY <1>1, <1>2, <1>6, <1>7 DEF FilledElsewhere, InQueue
<1>10. RunsFirst'
  <2>1. loop = "handler" => m_queue_start_index # event_index[l]
    BY <1>2 DEF RunsFirst
  <2> QED
    BY <1>1, <1>6, <1>8, <2>1 DEF RunsFirst, TypeOK, app_sched_queue_empty
<1>11. WokenUp' /\ RefusedFull'
  <2>1. signalled = TRUE
    BY <1>1 DEF WokenUp, InThreadMode, TypeOK
  <2> QED
    BY <1>1, <2>1 DEF WokenUp, RefusedFull
<1> QED
  BY <1>3, <1>5, <1>9, <1>10, <1>11

LEMMA ExecuteBeginKeeps == IInv /\ ExecuteBegin => IInv'
<1> SUFFICES ASSUME IInv, ExecuteBegin PROVE IInv'
  OBVIOUS
<1> USE DEF IInv
<1>1. /\ UNCHANGED <<m_queue_start_index, m_queue_end_index, m_queue_event_headers,
                     putting, event_index, signalled, fault>>
      /\ exec_index' = m_queue_start_index
      /\ current' = m_queue_event_headers[m_queue_start_index]
      /\ loop' = "handler"
      /\ ~app_sched_queue_empty
  BY DEF ExecuteBegin, queueIndices, interrupts
<1>2. TypeOK'
  BY <1>1 DEF TypeOK
<1>3. ReservedOnce' /\ FilledElsewhere'
  BY <1>1 DEF ReservedOnce, FilledElsewhere, InQueue, Reserved
<1>4. ~Reserved(m_queue_start_index)
  BY IdleHasNoEntry DEF ExecuteBegin, TypeOK
<1>5. RunsFirst'
  BY <1>1, <1>4 DEF RunsFirst, Reserved, app_sched_queue_empty
<1>6. WokenUp' /\ RefusedFull'
  BY <1>1 DEF WokenUp, RefusedFull, InThreadMode, app_sched_queue_full, next_index
<1> QED
  BY <1>2, <1>3, <1>5, <1>6

LEMMA ExecuteEndKeeps == IInv /\ ExecuteEnd => IInv'
<1> SUFFICES ASSUME IInv, ExecuteEnd PROVE IInv'
  OBVIOUS
<1> USE DEF IInv
<1>1. /\ UNCHANGED <<m_queue_end_index, m_queue_event_headers, putting, event_index,
                     exec_index, signalled, fault>>
      /\ m_queue_start_index' = next_index(m_queue_start_index)
      /\ current' = NoEvent
      /\ loop = "handler" /\ loop' = "execute"
      /\ fault = "none"
  BY DEF ExecuteEnd, interrupts
<1>2. TypeOK'
  BY <1>1, NextIndexType DEF TypeOK
<1>3. \A i \in Entries : ~Reserved(i)
  BY IdleHasNoEntry DEF ExecuteEnd
<1>4. \A i \in Entries : InQueue(i)' <=> InQueue(i) /\ i # m_queue_start_index
  BY <1>1, StartAdvances DEF RunsFirst
<1>5. \A l \in Levels : event_index[l] = NotReserved
  BY <1>3 DEF Reserved, TypeOK
<1>6. ReservedOnce'
  BY <1>1, <1>5 DEF ReservedOnce
<1>7. FilledElsewhere'
  BY <1>1, <1>3, <1>4 DEF FilledElsewhere, Reserved
<1>8. RunsFirst' /\ WokenUp' /\ RefusedFull'
  BY <1>1 DEF RunsFirst, WokenUp, RefusedFull, InThreadMode
<1> QED
  BY <1>2, <1>6, <1>7, <1>8

LEMMA OtherStepsKeep ==
  ASSUME IInv, HandlerFails \/ Idle \/ Wake \/ OtherInterrupt \/ UNCHANGED vars
  PROVE  IInv'
<1> USE DEF IInv
<1>1. /\ UNCHANGED <<m_queue_start_index, m_queue_end_index, m_queue_event_headers,
                     putting, event_index, exec_index, current>>
      /\ \/ UNCHANGED <<loop, signalled>> /\ fault' = "handler"
         \/ /\ UNCHANGED <<signalled, fault>>
            /\ app_sched_queue_empty /\ loop = "execute" /\ loop' \in {"execute", "wait"}
         \/ UNCHANGED fault /\ InThreadMode /\ loop = "wait" /\ loop' = "execute" /\ signalled' = FALSE
         \/ UNCHANGED <<loop, fault>> /\ signalled' = TRUE
         \/ UNCHANGED <<loop, signalled, fault>>
  BY DEF HandlerFails, Idle, Wake, OtherInterrupt, vars, queueIndices, interrupts, execution
<1>2. TypeOK'
  BY <1>1 DEF TypeOK
<1>3. ReservedOnce' /\ FilledElsewhere'
  BY <1>1 DEF ReservedOnce, FilledElsewhere, InQueue, Reserved
<1>4. RunsFirst'
  BY <1>1 DEF RunsFirst, Reserved, app_sched_queue_empty
<1>5. WokenUp'
  BY <1>1 DEF WokenUp, InThreadMode, app_sched_queue_empty
<1>6. RefusedFull'
  BY <1>1 DEF RefusedFull, app_sched_queue_full, next_index
<1> QED
  BY <1>2, <1>3, <1>4, <1>5, <1>6

LEMMA RestartKeeps == Restart => IInv'
<1> SUFFICES ASSUME Restart PROVE IInv'
  OBVIOUS
<1>1. 0 \in Entries
  BY SchedulerAssumption DEF Entries
<1>2. TypeOK'
  BY <1>1 DEF Restart, TypeOK
<1>3. ReservedOnce'
  BY DEF Restart, ReservedOnce
<1>4. FilledElsewhere'
  <2>1. \A i \in Entries : ~InQueue(i)'
    <3>1. \A i \in Entries : 0 <= i /\ ~(i < 0)
      BY SchedulerAssumption DEF Entries
    <3> QED
      BY <3>1 DEF Restart, InQueue
  <2> QED
    BY <2>1 DEF FilledElsewhere
<1>5. RunsFirst' /\ WokenUp' /\ RefusedFull'
  BY DEF Restart, RunsFirst, WokenUp, RefusedFull, InThreadMode, app_sched_queue_empty
<1> QED
  BY <1>2, <1>3, <1>4, <1>5 DEF IInv

LEMMA NextIInv == IInv /\ [Next]_vars => IInv'
BY InterruptKeeps, ReserveKeeps, FillKeeps, ExecuteBeginKeeps, ExecuteEndKeeps,
   OtherStepsKeep, RestartKeeps
DEF Next, InterruptHandlers, MainLoop

THEOREM Invariance == Spec => []IInv
BY InitIInv, NextIInv, PTL DEF Spec

(***************************************************************************)
(* The queue that the entries represent.                                   *)
(***************************************************************************)

\* The length is that of a ring which keeps one entry free.
LEMMA LengthBounds ==
  ASSUME TypeOK
  PROVE  /\ Length \in Nat /\ Length <= m_queue_size
         /\ app_sched_queue_empty <=> Length = 0
         /\ app_sched_queue_full <=> Length = m_queue_size
BY IndicesAreNumbers DEF Length, app_sched_queue_empty, app_sched_queue_full, next_index

\* The places of the queue, counted from its start, are the entries in it.
LEMMA EntryInQueue ==
  ASSUME TypeOK
  PROVE  /\ \A k \in 1 .. Length : Entry(k) \in Entries /\ InQueue(Entry(k))
         /\ Length > 0 => Entry(1) = m_queue_start_index
BY IndicesAreNumbers DEF Entry, Length, InQueue, Entries

\* The length and the places when the end advances.
LEMMA EndAppends ==
  ASSUME TypeOK, ~app_sched_queue_full,
         m_queue_end_index' = next_index(m_queue_end_index),
         m_queue_start_index' = m_queue_start_index
  PROVE  /\ Length' = Length + 1
         /\ Entry(Length + 1) = m_queue_end_index
         /\ \A k : Entry(k)' = Entry(k)
BY IndicesAreNumbers DEF Entry, Length, app_sched_queue_full, next_index

\* The length and the places when the start advances.
LEMMA StartDrops ==
  ASSUME TypeOK, ~app_sched_queue_empty,
         m_queue_start_index' = next_index(m_queue_start_index),
         m_queue_end_index' = m_queue_end_index
  PROVE  /\ Length' = Length - 1
         /\ \A k \in 1 .. Length - 1 : Entry(k)' = Entry(k + 1)
BY IndicesAreNumbers DEF Entry, Length, app_sched_queue_empty, next_index

\* What an entry holds is known from the level that reserved it.
EventsKnown ==
  \A i \in Entries :
    /\ \A l \in Levels : event_index[l] = i => EventIn(i) = putting[l]
    /\ ~Reserved(i) => EventIn(i) = m_queue_event_headers[i]

LEMMA EventInEntry == ReservedOnce => EventsKnown
<1> SUFFICES ASSUME ReservedOnce, NEW i \in Entries, NEW l \in Levels, event_index[l] = i
             PROVE  EventIn(i) = putting[l]
  BY DEF EventIn, EventsKnown
<1>1. \A m \in Levels : event_index[m] = i => m = l
  BY NotAnEntry DEF ReservedOnce
<1>2. (CHOOSE m \in Levels : event_index[m] = i) = l
  BY <1>1
<1> QED
  BY <1>2 DEF EventIn, Reserved

LEMMA EventInEntryNext == ReservedOnce' => EventsKnown'
BY EventInEntry, PTL

Values == Events \cup {NoEvent}

\* A function on 1 .. n is a sequence of length n.
LEMMA FunctionIsSeq ==
  ASSUME NEW n \in Nat, NEW f \in [1 .. n -> Values]
  PROVE  f \in Seq(Values) /\ Len(f) = n
OBVIOUS

\* The represented queue is a sequence of events, one for each entry in it.
LEMMA QueuedIsSeq ==
  ASSUME TypeOK, ReservedOnce
  PROVE  /\ Queued \in Seq(Values)
         /\ Len(Queued) = Length
         /\ DOMAIN Queued = 1 .. Length
         /\ \A k \in 1 .. Length : Queued[k] = EventIn(Entry(k))
<1>1. \A i \in Entries : EventIn(i) \in Values
  <2> SUFFICES ASSUME NEW i \in Entries PROVE EventIn(i) \in Values
    OBVIOUS
  <2>1. EventsKnown
    BY EventInEntry
  <2>2. CASE Reserved(i)
    <3>1. PICK m \in Levels : event_index[m] = i
      BY <2>2 DEF Reserved
    <3>2. EventIn(i) = putting[m]
      BY <2>1, <3>1 DEF EventsKnown
    <3> QED
      BY <3>2 DEF TypeOK, Values
  <2>3. CASE ~Reserved(i)
    <3>1. EventIn(i) = m_queue_event_headers[i]
      BY <2>1, <2>3 DEF EventsKnown
    <3> QED
      BY <3>1 DEF TypeOK, Values
  <2> QED
    BY <2>2, <2>3
<1>2. Queued \in [1 .. Length -> Values]
  BY <1>1, EntryInQueue DEF Queued
<1>3. Length \in Nat
  BY LengthBounds
<1>4. Queued \in Seq(Values) /\ Len(Queued) = Length
  BY <1>2, <1>3, FunctionIsSeq
<1> QED
  BY <1>4 DEF Queued

\* A step that leaves the indices and what the entries between them hold leaves
\* the queue.
LEMMA SameQueue ==
  ASSUME TypeOK, UNCHANGED <<m_queue_start_index, m_queue_end_index>>,
         \A i \in Entries : InQueue(i) => EventIn(i)' = EventIn(i)
  PROVE  Queued' = Queued
<1>1. Length' = Length /\ \A k : Entry(k)' = Entry(k)
  BY DEF Length, Entry
<1>2. \A k \in 1 .. Length : EventIn(Entry(k))' = EventIn(Entry(k))
  BY <1>1, EntryInQueue
<1> QED
  BY <1>1, <1>2 DEF Queued

LEMMA InterruptStutters ==
  ASSUME IInv, NEW l \in Levels, NEW e \in Events, Interrupt(l, e)
  PROVE  Queued' = Queued /\ current' = current
<1>1. IInv'
  BY InterruptKeeps
<1>2. ReservedOnce /\ ReservedOnce' /\ TypeOK
  BY <1>1 DEF IInv
<1>3. /\ UNCHANGED <<m_queue_start_index, m_queue_end_index, m_queue_event_headers,
                     event_index, current>>
      /\ \A m \in Levels : m # l => putting'[m] = putting[m]
      /\ putting[l] = NoEvent
  <2>1. l \in Nat /\ l <= l
    BY SchedulerAssumption
  <2> QED
    BY <1>2, <2>1 DEF Interrupt, queueIndices, execution, Masked, TypeOK
<1>4. event_index[l] = NotReserved
  BY <1>2, <1>3, IdleHasNoEntry
<1>5. ASSUME NEW i \in Entries PROVE EventIn(i)' = EventIn(i)
  <2>1. CASE Reserved(i)
    <3>1. PICK m \in Levels : event_index[m] = i
      BY <2>1 DEF Reserved
    <3>2. m # l
      BY <1>4, <3>1, NotAnEntry
    <3> QED
      BY <1>2, <1>3, <3>1, <3>2, EventInEntry, EventInEntryNext DEF EventsKnown
  <2>2. CASE ~Reserved(i)
    BY <1>2, <1>3, <2>2, EventInEntry, EventInEntryNext DEF EventsKnown, Reserved
  <2> QED
    BY <2>1, <2>2
<1> QED
  BY <1>2, <1>3, <1>5, SameQueue

\* An interrupt handler that gets an entry puts its event at the end.
LEMMA ReservePuts ==
  ASSUME IInv, NEW l \in Levels, Reserve(l), ~app_sched_queue_full
  PROVE  EQ!Put(putting[l]) /\ putting[l] \in Events
<1>1. IInv'
  BY ReserveKeeps
<1>2. TypeOK /\ ReservedOnce /\ EventsKnown /\ EventsKnown'
  BY <1>1, EventInEntry, EventInEntryNext DEF IInv
<1>3. /\ UNCHANGED <<m_queue_start_index, m_queue_event_headers, putting, current>>
      /\ event_index' = [event_index EXCEPT ![l] = m_queue_end_index]
      /\ m_queue_end_index' = next_index(m_queue_end_index)
      /\ event_index[l] = NotReserved
      /\ putting[l] \in Events
  BY <1>2 DEF Reserve, execution, Runs, TypeOK
<1>4. /\ Length' = Length + 1
      /\ Entry(Length + 1) = m_queue_end_index
      /\ \A k : Entry(k)' = Entry(k)
  BY <1>2, <1>3, EndAppends
<1>5. Length \in Nat /\ Length < m_queue_size
  BY <1>2, LengthBounds, SchedulerAssumption
<1>6. /\ ~InQueue(m_queue_end_index)
      /\ m_queue_end_index \in Entries
      /\ event_index'[l] = m_queue_end_index
      /\ \A m \in Levels : m # l => event_index'[m] = event_index[m]
  BY <1>2, <1>3, EndAdvances DEF TypeOK
<1>7. \A i \in Entries : i = m_queue_end_index => EventIn(i)' = putting[l]
  BY <1>2, <1>3, <1>6 DEF EventsKnown
<1>8. ASSUME NEW i \in Entries, i # m_queue_end_index PROVE EventIn(i)' = EventIn(i)
  <2>1. CASE Reserved(i)
    <3>1. PICK m \in Levels : event_index[m] = i
      BY <2>1 DEF Reserved
    <3>2. event_index'[m] = i
      BY <1>3, <1>6, <3>1, NotAnEntry
    <3> QED
      BY <1>2, <1>3, <3>1, <3>2 DEF EventsKnown
  <2>2. CASE ~Reserved(i)
    <3>1. ~Reserved(i)'
      BY <1>6, <1>8, <2>2 DEF Reserved
    <3> QED
      BY <1>2, <1>3, <2>2, <3>1 DEF EventsKnown
  <2> QED
    BY <2>1, <2>2
<1>9. \A k \in 1 .. Length : Entry(k) \in Entries /\ Entry(k) # m_queue_end_index
  BY <1>2, <1>6, EntryInQueue
<1> DEFINE old == Queued
           new == Queued'
<1>10. /\ old \in Seq(Values)
       /\ Len(old) = Length
       /\ \A k \in 1 .. Length : old[k] = EventIn(Entry(k))
  BY <1>2, QueuedIsSeq
<1>11. new = [k \in 1 .. Length + 1 |-> EventIn(Entry(k))']
  BY <1>4 DEF Queued
<1>12. ASSUME NEW k \in 1 .. Length + 1
       PROVE  EventIn(Entry(k))' = IF k = Length + 1 THEN putting[l] ELSE old[k]
  <2>1. CASE k = Length + 1
    <3>1. Entry(k) = m_queue_end_index /\ Entry(k)' = Entry(k)
      BY <1>4, <2>1
    <3> QED
      BY <1>6, <1>7, <2>1, <3>1
  <2>2. CASE k # Length + 1
    <3>1. k \in 1 .. Length
      BY <1>5, <2>2
    <3>2. Entry(k) \in Entries /\ Entry(k) # m_queue_end_index /\ Entry(k)' = Entry(k)
      BY <1>4, <1>9, <3>1
    <3>3. EventIn(Entry(k))' = EventIn(Entry(k))
      BY <1>8, <3>2
    <3> QED
      BY <1>10, <2>2, <3>1, <3>3
  <2> QED
    BY <2>1, <2>2
<1> HIDE DEF old
<1>13. new = [k \in 1 .. Length + 1 |-> IF k = Length + 1 THEN putting[l] ELSE old[k]]
  BY <1>11, <1>12
<1> HIDE DEF new
<1>14. new = Append(old, putting[l])
  BY <1>3, <1>5, <1>10, <1>13 DEF Values
<1>15. Len(old) < m_queue_size /\ UNCHANGED current
  BY <1>3, <1>5, <1>10
<1> QED
  BY <1>3, <1>14, <1>15 DEF EQ!Put, old, new

\* Filling an entry changes nothing that the queue represents.
LEMMA FillStutters ==
  ASSUME IInv, NEW l \in Levels, Fill(l)
  PROVE  Queued' = Queued /\ current' = current
<1>1. IInv'
  BY FillKeeps
<1>2. TypeOK /\ ReservedOnce /\ EventsKnown /\ EventsKnown'
  BY <1>1, EventInEntry, EventInEntryNext DEF IInv
<1>3. /\ UNCHANGED <<m_queue_start_index, m_queue_end_index, current>>
      /\ event_index[l] \in Entries
      /\ m_queue_event_headers' =
           [m_queue_event_headers EXCEPT ![event_index[l]] = putting[l]]
      /\ event_index' = [event_index EXCEPT ![l] = NotReserved]
      /\ putting' = [putting EXCEPT ![l] = NoEvent]
  BY <1>2 DEF Fill, queueIndices, execution, TypeOK
<1>4. /\ m_queue_event_headers'[event_index[l]] = putting[l]
      /\ \A i \in Entries : i # event_index[l] =>
           m_queue_event_headers'[i] = m_queue_event_headers[i]
      /\ event_index'[l] = NotReserved
      /\ \A m \in Levels : m # l =>
           event_index'[m] = event_index[m] /\ putting'[m] = putting[m]
  BY <1>2, <1>3 DEF TypeOK
<1>5. ASSUME NEW i \in Entries PROVE EventIn(i)' = EventIn(i)
  <2>1. CASE i = event_index[l]
    <3>1. ~Reserved(i)'
      BY <1>2, <1>4, <2>1, NotAnEntry DEF Reserved, ReservedOnce
    <3>2. EventIn(i)' = m_queue_event_headers'[i]
      BY <1>2, <3>1 DEF EventsKnown
    <3>3. EventIn(i) = putting[l]
      BY <1>2, <2>1 DEF EventsKnown
    <3> QED
      BY <1>4, <2>1, <3>2, <3>3
  <2>2. CASE i # event_index[l] /\ Reserved(i)
    <3>1. PICK m \in Levels : event_index[m] = i
      BY <2>2 DEF Reserved
    <3>2. m # l /\ event_index'[m] = i /\ putting'[m] = putting[m]
      BY <1>4, <2>2, <3>1
    <3> QED
      BY <1>2, <3>1, <3>2 DEF EventsKnown
  <2>3. CASE i # event_index[l] /\ ~Reserved(i)
    <3>1. ~Reserved(i)'
      BY <1>4, <2>3, NotAnEntry DEF Reserved
    <3>2. EventIn(i)' = m_queue_event_headers'[i] /\ EventIn(i) = m_queue_event_headers[i]
      BY <1>2, <2>3, <3>1 DEF EventsKnown
    <3> QED
      BY <1>4, <2>3, <3>2
  <2> QED
    BY <2>1, <2>2, <2>3
<1> QED
  BY <1>2, <1>3, <1>5, SameQueue

\* The main loop calls the handler of the first event.
LEMMA ExecuteBegins ==
  ASSUME IInv, ExecuteBegin
  PROVE  EQ!Begin
<1>1. /\ UNCHANGED <<m_queue_start_index, m_queue_end_index, m_queue_event_headers,
                     putting, event_index>>
      /\ current = NoEvent
      /\ current' = m_queue_event_headers[m_queue_start_index]
      /\ ~app_sched_queue_empty
      /\ TypeOK /\ ReservedOnce
  BY DEF ExecuteBegin, queueIndices, interrupts, IInv, RunsFirst
<1>2. /\ Queued \in Seq(Values) /\ Len(Queued) = Length
      /\ \A k \in 1 .. Length : Queued[k] = EventIn(Entry(k))
      /\ Length \in Nat /\ Length # 0
      /\ Entry(1) = m_queue_start_index
  BY <1>1, QueuedIsSeq, LengthBounds, EntryInQueue
<1>3. EventIn(m_queue_start_index) = m_queue_event_headers[m_queue_start_index]
  <2>1. m_queue_start_index \in Entries /\ ~Reserved(m_queue_start_index)
    BY <1>1, IdleHasNoEntry DEF TypeOK, ExecuteBegin
  <2> QED
    BY <2>1 DEF EventIn
<1>4. Queued[1] = EventIn(m_queue_start_index)
  BY <1>2
<1>5. Queued # <<>> /\ Head(Queued) = Queued[1]
  BY <1>2
<1>6. Queued' = Queued
  BY <1>1 DEF Queued, Length, Entry, EventIn, Reserved
<1> QED
  BY <1>1, <1>3, <1>4, <1>5, <1>6 DEF EQ!Begin

\* When the handler has returned the first event leaves the queue.
LEMMA ExecuteFinishes ==
  ASSUME IInv, ExecuteEnd
  PROVE  EQ!Finish
<1>1. /\ UNCHANGED <<m_queue_end_index, m_queue_event_headers, putting, event_index>>
      /\ m_queue_start_index' = next_index(m_queue_start_index)
      /\ current' = NoEvent
      /\ ~app_sched_queue_empty
      /\ TypeOK /\ ReservedOnce
  BY DEF ExecuteEnd, interrupts, IInv, RunsFirst
<1>2. current # NoEvent
  <2>1. current = m_queue_event_headers[m_queue_start_index]
        /\ ~Reserved(m_queue_start_index) /\ InQueue(m_queue_start_index)
    BY <1>1, FirstInQueue DEF IInv, RunsFirst, ExecuteEnd
  <2>2. current \in Events
    BY <1>1, <2>1 DEF IInv, FilledElsewhere, TypeOK
  <2> QED
    BY <2>2, SchedulerAssumption
<1>3. /\ Queued \in Seq(Values) /\ Len(Queued) = Length
      /\ \A k \in 1 .. Length : Queued[k] = EventIn(Entry(k))
      /\ Length \in Nat /\ Length # 0
  BY <1>1, QueuedIsSeq, LengthBounds
<1>4. /\ Length' = Length - 1
      /\ \A k \in 1 .. Length - 1 : Entry(k)' = Entry(k + 1)
  BY <1>1, StartDrops
<1>5. \A k \in 1 .. Length - 1 : EventIn(Entry(k))' = Queued[k + 1]
  <2> SUFFICES ASSUME NEW k \in 1 .. Length - 1 PROVE EventIn(Entry(k))' = Queued[k + 1]
    OBVIOUS
  <2>1. EventIn(Entry(k))' = EventIn(Entry(k + 1))
    BY <1>1, <1>4 DEF EventIn, Reserved
  <2>2. k + 1 \in 1 .. Length
    BY <1>3
  <2> QED
    BY <1>3, <2>1, <2>2
<1> DEFINE old == Queued
           new == Queued'
<1>6. new = [k \in 1 .. Length - 1 |-> old[k + 1]]
  BY <1>4, <1>5 DEF Queued
<1>7. old \in Seq(Values) /\ Len(old) = Length
  BY <1>3
<1> HIDE DEF old, new
<1>8. new = Tail(old) /\ old # <<>>
  <2>1. old # <<>>
    BY <1>3, <1>7
  <2>2. /\ Tail(old) \in Seq(Values)
        /\ Len(Tail(old)) = Length - 1
        /\ \A k \in 1 .. Length - 1 : Tail(old)[k] = old[k + 1]
    BY <1>7, <2>1, HeadTailProperties
  <2>3. \A k \in 1 .. Length - 1 : old[k + 1] \in Values
    BY <1>3, <1>7, ElementOfSeq
  <2>4. Length - 1 \in Nat
    BY <1>3
  <2>5. new \in [1 .. Length - 1 -> Values]
    BY <1>6, <2>3
  <2>6. new \in Seq(Values) /\ Len(new) = Length - 1
    BY <2>4, <2>5, FunctionIsSeq
  <2>7. \A k \in 1 .. Length - 1 : new[k] = old[k + 1]
    BY <1>6
  <2> HIDE DEF Values
  <2>8. new = Tail(old)
    BY <2>2, <2>6, <2>7, SeqEqual
  <2> QED
    BY <2>1, <2>8
<1> QED
  BY <1>1, <1>2, <1>8 DEF EQ!Finish, old, new

LEMMA QueueStep == IInv /\ [Next]_vars => [EQ!QueueNext]_(EQ!queueVars)
<1> SUFFICES ASSUME IInv, [Next]_vars
             PROVE  EQ!QueueNext \/ (Queued' = Queued /\ current' = current)
  BY DEF EQ!queueVars
<1>1. ASSUME NEW l \in Levels, NEW e \in Events, Interrupt(l, e)
      PROVE  Queued' = Queued /\ current' = current
  BY <1>1, InterruptStutters
<1>2. ASSUME NEW l \in Levels, Reserve(l), ~app_sched_queue_full
      PROVE  EQ!QueueNext
  BY <1>2, ReservePuts DEF EQ!QueueNext
<1>3. ASSUME NEW l \in Levels, Fill(l) PROVE Queued' = Queued /\ current' = current
  BY <1>3, FillStutters
<1>4. CASE ExecuteBegin \/ ExecuteEnd
  BY <1>4, ExecuteBegins, ExecuteFinishes DEF EQ!QueueNext
<1>5. CASE \/ \E l \in Levels : Reserve(l) /\ app_sched_queue_full
           \/ HandlerFails \/ Idle \/ Wake \/ OtherInterrupt \/ UNCHANGED vars
  <2>1. UNCHANGED <<m_queue_start_index, m_queue_end_index, m_queue_event_headers,
                    putting, event_index, current>>
    BY <1>5 DEF Reserve, HandlerFails, Idle, Wake, OtherInterrupt, vars, queueIndices,
                interrupts, execution
  <2> QED
    BY <2>1 DEF Queued, Length, Entry, EventIn, Reserved
<1>6. CASE Restart
  <2>1. Length' = 0 /\ current' = NoEvent
    BY <1>6 DEF Restart, Length
  <2>2. Queued' = <<>>
    BY <2>1 DEF Queued
  <2> QED
    BY <2>1, <2>2 DEF EQ!QueueNext, EQ!Lose
<1> QED
  BY <1>1, <1>2, <1>3, <1>4, <1>5, <1>6 DEF Next, InterruptHandlers, MainLoop

(***************************************************************************)
(* The properties.                                                         *)
(***************************************************************************)

\* Every variable keeps to its type; in particular the indices stay within the
\* entries, however many events have gone through the queue.
THEOREM TypeCorrect == Spec => []TypeOK
<1>1. IInv => TypeOK
  BY DEF IInv
<1> QED
  BY <1>1, Invariance, PTL

\* An interrupt never changes the entry of the event whose handler runs.
THEOREM RunningEntryStays == Spec => []RunningEntryIntact
<1>1. IInv => RunningEntryIntact
  <2> SUFFICES ASSUME IInv, loop = "handler"
               PROVE  current # NoEvent /\ m_queue_event_headers[exec_index] = current
    BY DEF RunningEntryIntact
  <2>1. InQueue(m_queue_start_index)
    BY FirstInQueue DEF IInv, RunsFirst
  <2>2. current \in Events
    BY <2>1 DEF IInv, RunsFirst, FilledElsewhere, TypeOK
  <2> QED
    BY <2>2, SchedulerAssumption DEF IInv, RunsFirst
<1> QED
  BY <1>1, Invariance, PTL

\* The main loop never sleeps while an event waits and nothing will wake it.
THEOREM NoMissedWakeUp == Spec => []SleepsOnlyWhenDone
<1>1. IInv => SleepsOnlyWhenDone
  BY DEF IInv, WokenUp, SleepsOnlyWhenDone
<1> QED
  BY <1>1, Invariance, PTL

\* An event is refused only when m_queue_size events are in the queue.
THEOREM RefusedWhenFull == Spec => []RefusesOnlyWhenFull
<1>1. IInv => RefusesOnlyWhenFull
  BY LengthBounds DEF IInv, RefusedFull, RefusesOnlyWhenFull
<1> QED
  BY <1>1, Invariance, PTL

\* The scheduler implements a bounded first-in first-out queue whose events are run
\* once each, in order.
THEOREM SchedulerImplementsQueue == Spec => ImplementsEventQueue
<1>1. Init => EQ!QueueInit
  <2> SUFFICES ASSUME Init PROVE EQ!QueueInit
    OBVIOUS
  <2>1. Length = 0 /\ current = NoEvent
    BY DEF Init, Length
  <2>2. Queued = <<>>
    BY <2>1 DEF Queued
  <2> QED
    BY <2>1, <2>2 DEF EQ!QueueInit
<1> QED
  BY <1>1, QueueStep, Invariance, PTL DEF Spec, ImplementsEventQueue, EQ!QueueSpec
=============================================================================
