--------------------------- MODULE HidLinkProofs ---------------------------
(***************************************************************************)
(* Proofs about HidLink, for every set of reports and every size of the    *)
(* list, of the transmit queue and of the event memory.                    *)
(***************************************************************************)
EXTENDS HidLink, SequenceTheorems, TLAPS

(***************************************************************************)
(* The inductive invariant.                                                *)
(***************************************************************************)

\* What "kept" means at every moment: the newest notification on its way is the
\* present report on the application's characteristic; and when none is on its
\* way the host has the report, unless it changed the mode in between.
KeptReport ==
  /\ promise # "none" => link # "down"
  /\ promise = "kept" /\ txq # <<>> =>
       txq[Len(txq)] = [char |-> ActiveChar, report |-> live]
  /\ /\ promise = "kept"
     /\ txq = <<>>
     /\ \A c \in Chars : ~Occurs(ModeWrite[c])
     /\ hostMode = ActiveChar
     => hostReport = live

\* Advertising restarts in the handler of the disconnection, so no new link is
\* made while that event is waiting.
DisconnectMeansDown == Occurs("DISCONNECTED") => link = "down"

IInv ==
  /\ TypeOK
  /\ ListConsistent
  /\ DisconnectMeansDown
  /\ NeverStranded
  /\ KeptReport

(***************************************************************************)
(* Sequences.                                                              *)
(***************************************************************************)

\* What the event queue contains after a step that records or takes an event.
LEMMA OccursAppend ==
  ASSUME NEW S, NEW q \in Seq(S), NEW e \in S, NEW x
  PROVE  (\E i \in 1 .. Len(Append(q, e)) : Append(q, e)[i] = x)
         <=> (x = e \/ \E i \in 1 .. Len(q) : q[i] = x)
<1>1. /\ Len(Append(q, e)) = Len(q) + 1
      /\ \A i \in 1 .. Len(q) : Append(q, e)[i] = q[i]
      /\ Append(q, e)[Len(q) + 1] = e
      /\ Len(q) \in Nat
  OBVIOUS
<1>2. 1 .. (Len(q) + 1) = (1 .. Len(q)) \cup {Len(q) + 1}
  BY <1>1
<1>3. QED
  BY <1>1, <1>2

LEMMA OccursTail ==
  ASSUME NEW S, NEW q \in Seq(S), q # <<>>, NEW x, x # Head(q),
         \E i \in 1 .. Len(q) : q[i] = x
  PROVE  \E i \in 1 .. Len(Tail(q)) : Tail(q)[i] = x
<1>1. PICK i \in 1 .. Len(q) : q[i] = x
  OBVIOUS
<1>2. /\ Len(q) \in Nat
      /\ i # 1
      /\ Len(Tail(q)) = Len(q) - 1
      /\ \A j \in 1 .. Len(q) - 1 : Tail(q)[j] = q[j + 1]
  BY <1>1
<1>3. i - 1 \in 1 .. Len(Tail(q)) /\ Tail(q)[i - 1] = x
  BY <1>1, <1>2
<1>4. QED
  BY <1>3

LEMMA OccursTailBack ==
  ASSUME NEW S, NEW q \in Seq(S), q # <<>>, NEW x,
         \E i \in 1 .. Len(Tail(q)) : Tail(q)[i] = x
  PROVE  \E i \in 1 .. Len(q) : q[i] = x
<1>1. PICK i \in 1 .. Len(Tail(q)) : Tail(q)[i] = x
  OBVIOUS
<1>2. /\ Len(q) \in Nat
      /\ Len(Tail(q)) = Len(q) - 1
      /\ \A j \in 1 .. Len(q) - 1 : Tail(q)[j] = q[j + 1]
  OBVIOUS
<1>3. i + 1 \in 1 .. Len(q) /\ q[i + 1] = x
  BY <1>1, <1>2
<1>4. QED
  BY <1>3

(***************************************************************************)
(* What a send can return.                                                 *)
(***************************************************************************)

\* Accepted: the link is there and its queue has room.  RESOURCES: the link is
\* there and its queue is full.
LEMMA SendOutcome ==
  /\ "SUCCESS" \in SendResults =>
       m_conn_handle /\ link # "down" /\ Len(txq) # TxQueueSize
  /\ "RESOURCES" \in SendResults =>
       m_conn_handle /\ link # "down" /\ Len(txq) = TxQueueSize
  /\ "NULL" \notin SendResults
  BY DEF SendResults, Hvx, HvxErrors

\* An error keys_send does not let pass has one of three causes.
LEMMA SevereRefusal ==
  \A res \in SendResults : res \notin Tolerated =>
    link # "up" \/ ~secure \/ timedOut
  BY DEF SendResults, Hvx, HvxErrors, Tolerated

LEMMA AcceptedNotification ==
  ASSUME NEW r \in Reports
  PROVE  [char |-> ActiveChar, report |-> r] \in Notifications
  BY DEF ActiveChar, Notifications, Chars

LEMMA ModeWriteEvents == \A c \in Chars : ModeWrite[c] \in ModeWrites
  BY DEF ModeWrite, ModeWrites, Chars

(***************************************************************************)
(* Types.                                                                  *)
(***************************************************************************)
ListTypeOK ==
  /\ buffer \in [Slots -> Pointers]
  /\ rp \in Slots
  /\ wp \in Slots
  /\ count \in 0 .. MAX_BUFFER_ENTRIES + 1

LEMMA NextSlotType == \A i \in Slots : NextSlot(i) \in Slots
  BY HidLinkAssumption DEF NextSlot, Slots

LEMMA EnqueueType ==
  ASSUME ListTypeOK, buffer_enqueue
  PROVE  ListTypeOK'
<1>1. CASE BUFFER_LIST_FULL
  BY <1>1 DEF buffer_enqueue, listVars, ListTypeOK
<1>2. CASE ~BUFFER_LIST_FULL
  <2>1. count + 1 \in 0 .. MAX_BUFFER_ENTRIES + 1
    BY <1>2, HidLinkAssumption DEF BUFFER_LIST_FULL, ListTypeOK
  <2>2. [buffer EXCEPT ![wp] = "live"] \in [Slots -> Pointers]
    BY DEF ListTypeOK, Pointers
  <2>3. NextSlot(wp) \in Slots
    BY NextSlotType DEF ListTypeOK
  <2>4. QED
    BY <1>2, <2>1, <2>2, <2>3 DEF buffer_enqueue, ListTypeOK
<1>3. QED
  BY <1>1, <1>2

LEMMA RemoveType ==
  ASSUME ListTypeOK, RemoveOldest, count # 0
  PROVE  ListTypeOK'
<1>1. count - 1 \in 0 .. MAX_BUFFER_ENTRIES + 1
  BY HidLinkAssumption DEF ListTypeOK
<1>2. [buffer EXCEPT ![rp] = "null"] \in [Slots -> Pointers]
  BY DEF ListTypeOK, Pointers
<1>3. NextSlot(rp) \in Slots
  BY NextSlotType DEF ListTypeOK
<1>4. QED
  BY <1>1, <1>2, <1>3 DEF RemoveOldest, ListTypeOK

\* The transmit queue after a notification is accepted or sent.
TxqTypeOK == txq \in Seq(Notifications) /\ Len(txq) <= TxQueueSize

LEMMA AcceptType ==
  ASSUME TxqTypeOK, NEW r \in Reports, Accept(r), Len(txq) # TxQueueSize
  PROVE  /\ TxqTypeOK'
         /\ txq' # <<>>
         /\ txq'[Len(txq')] = [char |-> ActiveChar, report |-> r]
<1> DEFINE n == [char |-> ActiveChar, report |-> r]
<1>1. n \in Notifications
  BY AcceptedNotification
<1>2. txq' = Append(txq, n)
  BY DEF Accept
<1> HIDE DEF n
<1>3. /\ Append(txq, n) \in Seq(Notifications)
      /\ Len(Append(txq, n)) = Len(txq) + 1
      /\ Append(txq, n)[Len(txq) + 1] = n
      /\ Len(txq) \in Nat
  BY <1>1 DEF TxqTypeOK
<1>4. Len(txq) + 1 <= TxQueueSize
  BY <1>3, HidLinkAssumption DEF TxqTypeOK
<1>5. txq' # <<>>
  BY <1>2, <1>3
<1>6. QED
  BY <1>2, <1>3, <1>4, <1>5 DEF TxqTypeOK, n

EventsTypeOK == events \in Seq(EventTypes) /\ Len(events) <= MaxEvents

LEMMA RecordType ==
  ASSUME EventsTypeOK, NEW e \in EventTypes, Record(e)
  PROVE  EventsTypeOK'
<1>1. /\ Append(events, e) \in Seq(EventTypes)
      /\ Len(Append(events, e)) = Len(events) + 1
      /\ Len(events) \in Nat
  BY DEF EventsTypeOK
<1>2. Len(events) + 1 <= MaxEvents
  BY <1>1, HidLinkAssumption DEF Record
<1>3. QED
  BY <1>1, <1>2 DEF Record, EventsTypeOK

LEMMA TakeType ==
  ASSUME EventsTypeOK, NEW e, Take(e)
  PROVE  EventsTypeOK'
  BY HidLinkAssumption DEF Take, EventsTypeOK

FlagsTypeOK ==
  /\ live \in Reports
  /\ m_conn_handle \in BOOLEAN
  /\ m_in_boot_mode \in BOOLEAN
  /\ protocol_mode \in Chars
  /\ polling \in BOOLEAN
  /\ fault \in BOOLEAN
  /\ link \in {"down", "up", "closing"}
  /\ secure \in BOOLEAN
  /\ cccd \in [Chars -> BOOLEAN]
  /\ timedOut \in BOOLEAN
  /\ hostMode \in Chars
  /\ hostReport \in Reports
  /\ promise \in Promises

LEMMA TypeParts ==
  TypeOK <=> ListTypeOK /\ TxqTypeOK /\ EventsTypeOK /\ FlagsTypeOK
  BY DEF TypeOK, ListTypeOK, TxqTypeOK, EventsTypeOK, FlagsTypeOK

LEMMA RefusalPromise ==
  ASSUME NEW res
  PROVE  PromiseAfterRefusal(res) \in Promises
  BY DEF PromiseAfterRefusal, Promises

LEMMA KeyEventType ==
  ASSUME TypeOK, NEW r \in Reports, KeyEvent(r)
  PROVE  TypeOK'
<1> USE DEF KeyEvent, appVars, sdVars, hostVars
<1>0. ListTypeOK /\ TxqTypeOK /\ EventsTypeOK /\ FlagsTypeOK
  BY TypeParts
<1>1. EventsTypeOK'
  BY <1>0 DEF EventsTypeOK
<1>2. CASE KeySent(r)
  <2>1. ListTypeOK'
    BY <1>0, <1>2 DEF KeySent, ListTypeOK, listVars
  <2>2. TxqTypeOK'
    BY <1>0, <1>2, AcceptType, SendOutcome DEF KeySent
  <2>3. FlagsTypeOK'
    BY <1>0, <1>2 DEF KeySent, FlagsTypeOK, Promises
  <2>4. QED
    BY <1>1, <2>1, <2>2, <2>3, TypeParts DEF TypeOK, ListTypeOK, TxqTypeOK, EventsTypeOK, FlagsTypeOK
<1>3. CASE KeyQueued
  <2>1. ListTypeOK'
    BY <1>0, <1>3, EnqueueType DEF KeyQueued
  <2>2. TxqTypeOK'
    BY <1>0, <1>3 DEF KeyQueued, TxqTypeOK
  <2>3. FlagsTypeOK'
    BY <1>0, <1>3, RefusalPromise DEF KeyQueued, FlagsTypeOK
  <2>4. QED
    BY <1>1, <2>1, <2>2, <2>3 DEF TypeOK, ListTypeOK, TxqTypeOK, EventsTypeOK, FlagsTypeOK
<1>4. CASE KeyDropped
  <2>1. ListTypeOK' /\ TxqTypeOK'
    BY <1>0, <1>4 DEF KeyDropped, ListTypeOK, listVars, TxqTypeOK
  <2>2. promise' \in Promises /\ fault' \in BOOLEAN
    BY <1>4, RefusalPromise DEF KeyDropped
  <2>3. FlagsTypeOK'
    BY <1>0, <2>2 DEF FlagsTypeOK
  <2>4. QED
    BY <1>1, <2>1, <2>3 DEF TypeOK, ListTypeOK, TxqTypeOK, EventsTypeOK, FlagsTypeOK
<1>5. QED
  BY <1>2, <1>3, <1>4 DEF keys_send

LEMMA HandleEventType ==
  ASSUME TypeOK, HandleEvent
  PROVE  TypeOK'
<1> USE DEF listVars, appVars, sdVars, hostVars
<1>0. ListTypeOK /\ TxqTypeOK /\ EventsTypeOK /\ FlagsTypeOK
  BY TypeParts
<1>1. EventsTypeOK'
  BY <1>0, TakeType
  DEF HandleEvent, HandleConnected, HandleDisconnected, HandleModeWrite,
      HandleTxComplete, HandleMtuRequest, HandlePhyRequest, HandleGattTimeout
<1>2. SUFFICES ListTypeOK' /\ TxqTypeOK' /\ FlagsTypeOK'
  BY <1>1 DEF TypeOK, ListTypeOK, TxqTypeOK, EventsTypeOK, FlagsTypeOK
<1>3. CASE HandleConnected
  BY <1>0, <1>3 DEF HandleConnected, Take, ListTypeOK, TxqTypeOK, FlagsTypeOK, Chars
<1>4. CASE HandleDisconnected
  <2>1. ListTypeOK'
    <3>1. CASE count = 0
      BY <1>0, <1>4, <3>1 DEF HandleDisconnected, ListTypeOK
    <3>2. CASE count # 0
      BY <1>0, <1>4, <3>2, RemoveType DEF HandleDisconnected
    <3>3. QED
      BY <3>1, <3>2
  <2>2. TxqTypeOK' /\ FlagsTypeOK'
    BY <1>0, <1>4 DEF HandleDisconnected, Take, TxqTypeOK, FlagsTypeOK
  <2>3. QED
    BY <2>1, <2>2
<1>5. ASSUME NEW c \in Chars, HandleModeWrite(c)
      PROVE  ListTypeOK' /\ TxqTypeOK' /\ FlagsTypeOK'
  BY <1>0, <1>5 DEF HandleModeWrite, Take, ListTypeOK, TxqTypeOK, FlagsTypeOK, Promises
<1>6. CASE HandleTxComplete
  <2> USE DEF HandleTxComplete, Take
  <2>1. CASE DequeueNothing
    BY <1>0, <1>6, <2>1 DEF DequeueNothing, ListTypeOK, TxqTypeOK, FlagsTypeOK
  <2>2. CASE DequeueSent
    <3>1. ListTypeOK'
      BY <1>0, <2>2, RemoveType DEF DequeueSent
    <3>2. TxqTypeOK'
      BY <1>0, <2>2, AcceptType, SendOutcome DEF DequeueSent, FlagsTypeOK
    <3>3. FlagsTypeOK'
      BY <1>0, <1>6, <2>2 DEF DequeueSent, FlagsTypeOK, Promises
    <3>4. QED
      BY <3>1, <3>2, <3>3
  <2>3. CASE DequeueKept
    BY <1>0, <1>6, <2>3 DEF DequeueKept, ListTypeOK, TxqTypeOK, FlagsTypeOK
  <2>4. CASE DequeueDropped
    <3>1. ListTypeOK'
      BY <1>0, <2>4, RemoveType DEF DequeueDropped
    <3>2. TxqTypeOK'
      BY <1>0, <2>4 DEF DequeueDropped, TxqTypeOK
    <3>3. promise' \in Promises
      BY <2>4, RefusalPromise DEF DequeueDropped, Promises
    <3>4. FlagsTypeOK'
      BY <1>0, <1>6, <3>3 DEF FlagsTypeOK
    <3>5. QED
      BY <3>1, <3>2, <3>4
  <2>5. QED
    BY <1>6, <2>1, <2>2, <2>3, <2>4 DEF buffer_dequeue_tx
<1>7. CASE HandleMtuRequest
  BY <1>0, <1>7 DEF HandleMtuRequest, Take, ListTypeOK, TxqTypeOK, FlagsTypeOK
<1>8. CASE HandlePhyRequest
  BY <1>0, <1>8 DEF HandlePhyRequest, Take, ListTypeOK, TxqTypeOK, FlagsTypeOK
<1>9. CASE HandleGattTimeout
  BY <1>0, <1>9 DEF HandleGattTimeout, Take, ListTypeOK, TxqTypeOK, FlagsTypeOK
<1>10. QED
  BY <1>3, <1>4, <1>5, <1>6, <1>7, <1>8, <1>9 DEF HandleEvent

\* The steps of the SoftDevice and of the host, as one disjunct of Next.
Environment ==
  \/ Connect
  \/ LinkLost
  \/ Encrypt
  \/ \E c \in Chars : WriteCccd(c) \/ WriteProtocolMode(c)
  \/ \E e \in {"MTU_REQUEST", "PHY_REQUEST"} : RequestFromHost(e)
  \/ GattTimeout
  \/ Transmit

LEMMA NextCases ==
  Next <=> \/ \E r \in Reports : KeyEvent(r)
           \/ PollBegin \/ HandleEvent \/ PollEnd \/ Restart
           \/ Environment
  BY DEF Next, Environment

LEMMA TransmitType ==
  ASSUME TxqTypeOK, txq # <<>>, txq' = Tail(txq)
  PROVE  TxqTypeOK' /\ Head(txq) \in Notifications
  BY HidLinkAssumption DEF TxqTypeOK

LEMMA EnvironmentType ==
  ASSUME TypeOK, Environment
  PROVE  TypeOK'
<1> USE DEF firmware, listVars, appVars, sdVars, hostVars
<1>0. ListTypeOK /\ TxqTypeOK /\ EventsTypeOK /\ FlagsTypeOK
  BY TypeParts
<1>1. SUFFICES ListTypeOK' /\ TxqTypeOK' /\ EventsTypeOK' /\ FlagsTypeOK'
  BY DEF TypeOK, ListTypeOK, TxqTypeOK, EventsTypeOK, FlagsTypeOK
<1>2. ListTypeOK'
  BY <1>0 DEF Environment, Connect, LinkLost, Encrypt, WriteCccd, WriteProtocolMode,
              RequestFromHost, GattTimeout, Transmit, ListTypeOK
<1>3. EventsTypeOK'
  <2>1. \A c \in Chars : ModeWrite[c] \in EventTypes
    BY ModeWriteEvents DEF EventTypes
  <2>2. CASE events' = events
    BY <1>0, <2>2 DEF EventsTypeOK
  <2>3. CASE \E e \in EventTypes : Record(e)
    BY <1>0, <2>3, RecordType
  <2>4. QED
    BY <2>1, <2>2, <2>3
    DEF Environment, Connect, LinkLost, Encrypt, WriteCccd, WriteProtocolMode,
        RequestFromHost, GattTimeout, Transmit, EventTypes
<1>4. TxqTypeOK'
  <2>1. CASE txq' = txq
    BY <1>0, <2>1 DEF TxqTypeOK
  <2>2. CASE txq' = <<>>
    BY <2>2, HidLinkAssumption DEF TxqTypeOK
  <2>3. CASE Transmit
    BY <1>0, <2>3, TransmitType DEF Transmit
  <2>4. QED
    BY <2>1, <2>2, <2>3
    DEF Environment, Connect, LinkLost, Encrypt, WriteCccd, WriteProtocolMode,
        RequestFromHost, GattTimeout
<1>5. FlagsTypeOK'
  <2>1. CASE Connect
    BY <1>0, <2>1 DEF Connect, FlagsTypeOK
  <2>2. CASE LinkLost
    BY <1>0, <2>2, HidLinkAssumption DEF LinkLost, FlagsTypeOK, Chars, Promises
  <2>3. CASE Encrypt
    BY <1>0, <2>3 DEF Encrypt, FlagsTypeOK
  <2>4. ASSUME NEW c \in Chars, WriteCccd(c)
        PROVE  FlagsTypeOK'
    BY <1>0, <2>4 DEF WriteCccd, FlagsTypeOK
  <2>5. ASSUME NEW c \in Chars, WriteProtocolMode(c)
        PROVE  FlagsTypeOK'
    BY <1>0, <2>5 DEF WriteProtocolMode, FlagsTypeOK
  <2>6. ASSUME NEW e \in {"MTU_REQUEST", "PHY_REQUEST"}, RequestFromHost(e)
        PROVE  FlagsTypeOK'
    BY <1>0, <2>6 DEF RequestFromHost, FlagsTypeOK
  <2>7. CASE GattTimeout
    BY <1>0, <2>7 DEF GattTimeout, FlagsTypeOK
  <2>8. CASE Transmit
    <3>1. Head(txq) \in Notifications
      BY <1>0, <2>8, TransmitType DEF Transmit
    <3>2. hostReport' \in Reports
      BY <1>0, <2>8, <3>1 DEF Transmit, Notifications, FlagsTypeOK
    <3>3. QED
      BY <1>0, <2>8, <3>2 DEF Transmit, FlagsTypeOK
  <2>9. QED
    BY <2>1, <2>2, <2>3, <2>4, <2>5, <2>6, <2>7, <2>8 DEF Environment
<1>6. QED
  BY <1>2, <1>3, <1>4, <1>5

LEMMA ZeroIsSlot == 0 \in Slots
  BY HidLinkAssumption DEF Slots

LEMMA RestartType ==
  ASSUME Restart
  PROVE  TypeOK'
<1>1. /\ <<>> \in Seq(Notifications) /\ Len(<<>>) <= TxQueueSize
      /\ <<>> \in Seq(EventTypes) /\ Len(<<>>) <= MaxEvents
      /\ 0 \in 0 .. MAX_BUFFER_ENTRIES + 1
  BY HidLinkAssumption
<1>2. TxqTypeOK' /\ EventsTypeOK'
  BY <1>1 DEF Restart, TxqTypeOK, EventsTypeOK
<1>3. ListTypeOK'
  BY <1>1, ZeroIsSlot DEF Restart, ListTypeOK, Pointers
<1>4. FlagsTypeOK'
  BY HidLinkAssumption DEF Restart, FlagsTypeOK, Chars, Promises
<1>5. QED
  BY <1>2, <1>3, <1>4 DEF TypeOK, ListTypeOK, TxqTypeOK, EventsTypeOK, FlagsTypeOK

LEMMA InitType == Init => TypeOK
<1> SUFFICES ASSUME Init PROVE TypeOK
  OBVIOUS
<1>1. /\ <<>> \in Seq(Notifications) /\ Len(<<>>) <= TxQueueSize
      /\ <<>> \in Seq(EventTypes) /\ Len(<<>>) <= MaxEvents
      /\ 0 \in 0 .. MAX_BUFFER_ENTRIES + 1
  BY HidLinkAssumption
<1>2. TxqTypeOK /\ EventsTypeOK
  BY <1>1 DEF Init, TxqTypeOK, EventsTypeOK
<1>3. ListTypeOK
  BY <1>1, ZeroIsSlot DEF Init, ListTypeOK, Pointers
<1>4. FlagsTypeOK
  BY HidLinkAssumption DEF Init, FlagsTypeOK, Chars, Promises
<1>5. QED
  BY <1>2, <1>3, <1>4, TypeParts

LEMMA NextType == TypeOK /\ [Next]_vars => TypeOK'
<1> SUFFICES ASSUME TypeOK, [Next]_vars PROVE TypeOK'
  OBVIOUS
<1> USE DEF TypeOK
<1>1. ASSUME NEW r \in Reports, KeyEvent(r) PROVE TypeOK'
  BY <1>1, KeyEventType
<1>2. CASE HandleEvent
  BY <1>2, HandleEventType
<1>3. CASE Restart
  BY <1>3, RestartType
<1>4. CASE Environment
  BY <1>4, EnvironmentType
<1>5. CASE PollBegin \/ PollEnd
  BY <1>5 DEF PollBegin, PollEnd, listVars, appVars, sdVars, hostVars
<1>6. CASE UNCHANGED vars
  BY <1>6 DEF vars
<1>7. QED
  BY <1>1, <1>2, <1>3, <1>4, <1>5, <1>6, NextCases

\* Every variable keeps its type: the indices stay inside the array and the list
\* never counts more than one element above its slots.
THEOREM TypeCorrect == Spec => []TypeOK
  BY InitType, NextType, PTL DEF Spec

(***************************************************************************)
(* The list.                                                               *)
(***************************************************************************)

\* Adding an element where there is room keeps the indices in step, also when
\* the element lands on the slot the read index stands on.
LEMMA EnqueueConsistent ==
  ASSUME ListTypeOK, ListConsistent, buffer_enqueue
  PROVE  ListConsistent'
<1>1. CASE BUFFER_LIST_FULL
  BY <1>1 DEF buffer_enqueue, listVars, ListConsistent, Offset
<1>2. CASE ~BUFFER_LIST_FULL
  <2>1. /\ count \in 0 .. MAX_BUFFER_ENTRIES
        /\ count' = count + 1
        /\ wp' = NextSlot(wp)
        /\ rp' = rp
        /\ buffer' = [buffer EXCEPT ![wp] = "live"]
    BY <1>2, HidLinkAssumption DEF buffer_enqueue, BUFFER_LIST_FULL, ListTypeOK
  <2>2. /\ MAX_BUFFER_ENTRIES \in Nat \ {0}
        /\ rp \in 0 .. MAX_BUFFER_ENTRIES - 1
        /\ wp \in 0 .. MAX_BUFFER_ENTRIES - 1
    BY HidLinkAssumption DEF ListTypeOK, Slots
  <2>3. \/ rp' + count' = wp'
        \/ rp' + count' = wp' + MAX_BUFFER_ENTRIES
        \/ rp' + count' = wp' + 2 * MAX_BUFFER_ENTRIES
    BY <2>1, <2>2 DEF ListConsistent, NextSlot
  <2>4. ASSUME NEW i \in Slots, buffer'[i] # "null"
        PROVE  Offset(i)' < count'
    <3>1. CASE i = wp
      BY <2>1, <2>2, <3>1 DEF ListConsistent, Offset
    <3>2. CASE i # wp
      <4>1. buffer[i] # "null"
        BY <2>1, <2>4, <3>2 DEF ListTypeOK
      <4>2. Offset(i) < count
        BY <4>1 DEF ListConsistent
      <4>3. Offset(i)' = Offset(i) /\ Offset(i) \in Int
        BY <2>1, <2>2 DEF Offset, Slots
      <4>4. QED
        BY <2>1, <4>2, <4>3
    <3>3. QED
      BY <3>1, <3>2
  <2>5. QED
    BY <2>3, <2>4 DEF ListConsistent
<1>3. QED
  BY <1>1, <1>2

LEMMA RemoveConsistent ==
  ASSUME ListTypeOK, ListConsistent, RemoveOldest, count # 0
  PROVE  ListConsistent'
<1>1. /\ count \in 1 .. MAX_BUFFER_ENTRIES + 1
      /\ count' = count - 1
      /\ wp' = wp
      /\ rp' = NextSlot(rp)
      /\ buffer' = [buffer EXCEPT ![rp] = "null"]
  BY HidLinkAssumption DEF RemoveOldest, ListTypeOK
<1>2. /\ MAX_BUFFER_ENTRIES \in Nat \ {0}
      /\ rp \in 0 .. MAX_BUFFER_ENTRIES - 1
      /\ wp \in 0 .. MAX_BUFFER_ENTRIES - 1
  BY HidLinkAssumption DEF ListTypeOK, Slots
<1>3. \/ rp' + count' = wp'
      \/ rp' + count' = wp' + MAX_BUFFER_ENTRIES
      \/ rp' + count' = wp' + 2 * MAX_BUFFER_ENTRIES
  BY <1>1, <1>2 DEF ListConsistent, NextSlot
<1>4. ASSUME NEW i \in Slots, buffer'[i] # "null"
      PROVE  Offset(i)' < count'
  <2>1. i # rp /\ buffer[i] # "null"
    BY <1>1, <1>4 DEF ListTypeOK
  <2>2. Offset(i) < count
    BY <2>1 DEF ListConsistent
  <2>3. i \in 0 .. MAX_BUFFER_ENTRIES - 1
    BY DEF Slots
  <2>4. Offset(i)' = Offset(i) - 1 /\ Offset(i) \in Int
    BY <1>1, <1>2, <2>1, <2>3 DEF Offset, NextSlot
  <2>5. QED
    BY <1>1, <2>2, <2>4
<1>5. QED
  BY <1>3, <1>4 DEF ListConsistent

LEMMA NextList == IInv /\ [Next]_vars => ListConsistent'
<1> SUFFICES ASSUME IInv, [Next]_vars PROVE ListConsistent'
  OBVIOUS
<1>0. ListTypeOK /\ ListConsistent
  BY TypeParts DEF IInv
<1>1. CASE UNCHANGED listVars
  BY <1>0, <1>1 DEF listVars, ListConsistent, Offset
<1>2. ASSUME NEW r \in Reports, KeyEvent(r) PROVE ListConsistent'
  BY <1>0, <1>1, <1>2, EnqueueConsistent
  DEF KeyEvent, keys_send, KeySent, KeyQueued, KeyDropped
<1>3. CASE HandleEvent
  <2>1. CASE HandleDisconnected
    BY <1>0, <1>1, <2>1, RemoveConsistent DEF HandleDisconnected
  <2>2. CASE HandleTxComplete
    <3>1. CASE RemoveOldest /\ count > 0
      BY <1>0, <3>1, RemoveConsistent
    <3>2. QED
      BY <1>1, <2>2, <3>1
      DEF HandleTxComplete, buffer_dequeue_tx, DequeueNothing, DequeueSent,
          DequeueKept, DequeueDropped
  <2>3. QED
    BY <1>1, <1>3, <2>1, <2>2
    DEF HandleEvent, HandleConnected, HandleModeWrite, HandleMtuRequest,
        HandlePhyRequest, HandleGattTimeout
<1>4. CASE Restart
  BY <1>4, HidLinkAssumption DEF Restart, ListConsistent, Slots
<1>5. CASE Environment
  BY <1>1, <1>5
  DEF Environment, Connect, LinkLost, Encrypt, WriteCccd, WriteProtocolMode,
      RequestFromHost, GattTimeout, Transmit, firmware, listVars
<1>6. CASE PollBegin \/ PollEnd
  BY <1>1, <1>6 DEF PollBegin, PollEnd
<1>7. CASE UNCHANGED vars
  BY <1>1, <1>7 DEF vars, listVars
<1>8. QED
  BY <1>2, <1>3, <1>4, <1>5, <1>6, <1>7, NextCases

(***************************************************************************)
(* The event queue.                                                        *)
(***************************************************************************)
LEMMA RecordOccurs ==
  ASSUME EventsTypeOK, NEW e \in EventTypes, Record(e), NEW x
  PROVE  Occurs(x)' <=> (x = e \/ Occurs(x))
<1>1. events \in Seq(EventTypes) /\ events' = Append(events, e)
  BY DEF EventsTypeOK, Record
<1>2. QED
  BY <1>1, OccursAppend DEF Occurs

\* Taking an event makes no other event disappear, and adds none.
LEMMA TakeOccurs ==
  ASSUME EventsTypeOK, NEW e, Take(e), NEW x
  PROVE  /\ Occurs(x) /\ x # e => Occurs(x)'
         /\ Occurs(x)' => Occurs(x)
         /\ Occurs(e)
<1>1. /\ events \in Seq(EventTypes)
      /\ events # <<>>
      /\ Head(events) = e
      /\ events' = Tail(events)
  BY DEF EventsTypeOK, Take
<1>2. 1 \in 1 .. Len(events) /\ events[1] = e
  BY <1>1
<1>3. QED
  BY <1>1, <1>2, OccursTail, OccursTailBack DEF Occurs

LEMMA NextDisconnect == IInv /\ [Next]_vars => DisconnectMeansDown'
<1> SUFFICES ASSUME IInv, [Next]_vars PROVE DisconnectMeansDown'
  OBVIOUS
<1>0. EventsTypeOK /\ DisconnectMeansDown
  BY TypeParts DEF IInv
<1>1. CASE UNCHANGED <<events, link>>
  BY <1>0, <1>1 DEF DisconnectMeansDown, Occurs
<1>2. ASSUME NEW e, Take(e), link' = link \/ link = "up" PROVE DisconnectMeansDown'
  BY <1>0, <1>2, TakeOccurs DEF DisconnectMeansDown
<1>3. ASSUME NEW e \in EventTypes, Record(e), e # "DISCONNECTED", link' = link
      PROVE  DisconnectMeansDown'
  BY <1>0, <1>3, RecordOccurs DEF DisconnectMeansDown
<1>4. ASSUME NEW r \in Reports, KeyEvent(r) PROVE DisconnectMeansDown'
  BY <1>1, <1>4 DEF KeyEvent, sdVars
<1>5. CASE HandleEvent
  BY <1>2, <1>5
  DEF HandleEvent, HandleConnected, HandleDisconnected, HandleModeWrite,
      HandleTxComplete, HandleMtuRequest, HandlePhyRequest, HandleGattTimeout, sdVars
<1>6. CASE Restart
  BY <1>6 DEF Restart, DisconnectMeansDown
<1>7. CASE Environment
  <2>1. CASE Connect
    <3>1. ~Occurs("DISCONNECTED")
      BY <2>1 DEF Connect, Occurs
    <3>2. QED
      BY <1>0, <2>1, <3>1, RecordOccurs DEF Connect, EventTypes, DisconnectMeansDown
  <2>2. CASE LinkLost
    BY <2>2 DEF LinkLost, DisconnectMeansDown
  <2>3. CASE Encrypt \/ \E c \in Chars : WriteCccd(c)
    BY <1>1, <2>3 DEF Encrypt, WriteCccd
  <2>4. ASSUME NEW c \in Chars, WriteProtocolMode(c) PROVE DisconnectMeansDown'
    BY <1>3, <2>4, ModeWriteEvents DEF WriteProtocolMode, sdVars, ModeWrites, EventTypes
  <2>5. ASSUME NEW e \in {"MTU_REQUEST", "PHY_REQUEST"}, RequestFromHost(e)
        PROVE  DisconnectMeansDown'
    BY <1>3, <2>5 DEF RequestFromHost, sdVars, EventTypes
  <2>6. CASE GattTimeout
    BY <1>3, <2>6 DEF GattTimeout, EventTypes
  <2>7. CASE Transmit
    BY <1>1, <1>3, <2>7 DEF Transmit, sdVars, EventTypes
  <2>8. QED
    BY <1>7, <2>1, <2>2, <2>3, <2>4, <2>5, <2>6, <2>7 DEF Environment
<1>8. CASE PollBegin \/ PollEnd \/ UNCHANGED vars
  BY <1>1, <1>8 DEF PollBegin, PollEnd, sdVars, vars
<1>9. QED
  BY <1>4, <1>5, <1>6, <1>7, <1>8, NextCases

(***************************************************************************)
(* No report is stranded in the list.                                      *)
(***************************************************************************)
LEMMA FullIsNotEmpty ==
  TxqTypeOK /\ Len(txq) = TxQueueSize => txq # <<>>
  BY HidLinkAssumption DEF TxqTypeOK

LEMMA NextNeverStranded == IInv /\ [Next]_vars => NeverStranded'
<1> SUFFICES ASSUME IInv, [Next]_vars PROVE NeverStranded'
  OBVIOUS
<1>0. /\ ListTypeOK /\ TxqTypeOK /\ EventsTypeOK
      /\ NeverStranded /\ KeptReport /\ DisconnectMeansDown
  BY TypeParts DEF IInv
<1>1. CASE UNCHANGED <<count, txq, events, promise>>
  BY <1>0, <1>1 DEF NeverStranded, Occurs
<1>2. CASE promise' # "pending"
  BY <1>2 DEF NeverStranded
<1>3. ASSUME NEW res, promise' = PromiseAfterRefusal(res), res \in SendResults, txq' = txq
      PROVE  NeverStranded'
  BY <1>0, <1>3, SendOutcome, FullIsNotEmpty DEF PromiseAfterRefusal, NeverStranded
<1>4. ASSUME NEW e, Take(e), e # "HVN_TX_COMPLETE", UNCHANGED <<count, txq, promise>>
      PROVE  NeverStranded'
  BY <1>0, <1>4, TakeOccurs DEF NeverStranded
<1>5. ASSUME NEW e \in EventTypes, Record(e), UNCHANGED <<count, txq, promise>>
      PROVE  NeverStranded'
  BY <1>0, <1>5, RecordOccurs DEF NeverStranded
<1>6. ASSUME NEW r \in Reports, KeyEvent(r) PROVE NeverStranded'
  <2>1. CASE KeySent(r)
    BY <1>2, <2>1 DEF KeySent
  <2>2. CASE KeyQueued
    BY <1>3, <2>2 DEF KeyQueued
  <2>3. CASE KeyDropped
    BY <1>3, <2>3 DEF KeyDropped
  <2>4. QED
    BY <1>6, <2>1, <2>2, <2>3 DEF KeyEvent, keys_send
<1>7. CASE HandleEvent
  <2>1. CASE HandleDisconnected
    <3>1. link = "down"
      BY <1>0, <2>1, TakeOccurs DEF HandleDisconnected, DisconnectMeansDown
    <3>2. QED
      BY <1>0, <1>2, <2>1, <3>1 DEF HandleDisconnected, KeptReport
  <2>2. CASE HandleTxComplete
    <3>1. CASE DequeueNothing
      BY <1>0, <1>2, <3>1 DEF DequeueNothing, NeverStranded
    <3>2. CASE DequeueSent
      BY <1>2, <3>2 DEF DequeueSent
    <3>3. CASE DequeueKept
      <4>1. txq # <<>> /\ count > 0
        BY <1>0, <3>3, SendOutcome, FullIsNotEmpty DEF DequeueKept
      <4>2. QED
        BY <3>3, <4>1 DEF DequeueKept, listVars, NeverStranded
    <3>4. CASE DequeueDropped
      <4>1. CASE promise' = "kept"
        BY <1>2, <4>1
      <4>2. CASE promise' # "kept"
        <5>1. PICK res \in IF buffer[rp] = "null" THEN {"NULL"} ELSE SendResults :
                promise' = PromiseAfterRefusal(res)
          BY <3>4, <4>2 DEF DequeueDropped
        <5>2. CASE buffer[rp] = "null"
          BY <1>2, <5>1, <5>2 DEF PromiseAfterRefusal
        <5>3. CASE buffer[rp] # "null"
          BY <1>3, <3>4, <5>1, <5>3 DEF DequeueDropped
        <5>4. QED
          BY <5>2, <5>3
      <4>3. QED
        BY <4>1, <4>2
    <3>5. QED
      BY <2>2, <3>1, <3>2, <3>3, <3>4 DEF HandleTxComplete, buffer_dequeue_tx
  <2>3. ASSUME NEW c \in Chars, HandleModeWrite(c) PROVE NeverStranded'
    BY <1>2, <2>3 DEF HandleModeWrite
  <2>4. QED
    BY <1>4, <1>7, <2>1, <2>2, <2>3
    DEF HandleEvent, HandleConnected, HandleMtuRequest, HandlePhyRequest,
        HandleGattTimeout, listVars
<1>8. CASE Restart
  BY <1>2, <1>8 DEF Restart
<1>9. CASE Environment
  <2> USE DEF firmware, listVars, sdVars
  <2>1. CASE LinkLost
    BY <1>2, <2>1 DEF LinkLost
  <2>2. CASE Encrypt \/ \E c \in Chars : WriteCccd(c)
    BY <1>1, <2>2 DEF Encrypt, WriteCccd
  <2>3. ASSUME NEW c \in Chars, WriteProtocolMode(c) PROVE NeverStranded'
    BY <1>5, <2>3, ModeWriteEvents DEF WriteProtocolMode, EventTypes
  <2>4. CASE Transmit
    <3>1. Occurs("HVN_TX_COMPLETE")'
      <4>1. CASE Record("HVN_TX_COMPLETE")
        BY <1>0, <4>1, RecordOccurs DEF EventTypes
      <4>2. CASE ~Record("HVN_TX_COMPLETE")
        <5>1. /\ events' = events
              /\ events # <<>>
              /\ events[Len(events)] = "HVN_TX_COMPLETE"
          BY <2>4, <4>2 DEF Transmit
        <5>2. Len(events) \in 1 .. Len(events)
          BY <1>0, <5>1 DEF EventsTypeOK
        <5>3. QED
          BY <5>1, <5>2 DEF Occurs
      <4>3. QED
        BY <4>1, <4>2
    <3>2. QED
      BY <1>0, <2>4, <3>1 DEF Transmit, NeverStranded
  <2>5. CASE Connect \/ GattTimeout \/ \E e \in {"MTU_REQUEST", "PHY_REQUEST"} : RequestFromHost(e)
    BY <1>5, <2>5 DEF Connect, GattTimeout, RequestFromHost, EventTypes
  <2>6. QED
    BY <1>9, <2>1, <2>2, <2>3, <2>4, <2>5 DEF Environment
<1>10. CASE PollBegin \/ PollEnd \/ UNCHANGED vars
  BY <1>1, <1>10 DEF PollBegin, PollEnd, listVars, vars
<1>11. QED
  BY <1>6, <1>7, <1>8, <1>9, <1>10, NextCases

(***************************************************************************)
(* What was accepted arrives.                                              *)
(***************************************************************************)

\* Stated of any sequence, so that it can be used of the tail of one.
LEMMA EmptyLength == \A s : s = <<>> => Len(s) = 0
  OBVIOUS

\* The newest notification stays the newest when an older one is sent.
LEMMA TailKeepsLast ==
  ASSUME NEW S, NEW q \in Seq(S), q # <<>>
  PROVE  /\ Tail(q) # <<>> => Tail(q)[Len(Tail(q))] = q[Len(q)]
         /\ Tail(q) = <<>> => Head(q) = q[Len(q)]
<1>1. /\ Len(q) \in Nat
      /\ Len(q) # 0
      /\ Len(Tail(q)) = Len(q) - 1
      /\ \A j \in 1 .. Len(q) - 1 : Tail(q)[j] = q[j + 1]
      /\ Head(q) = q[1]
  OBVIOUS
<1>2. CASE Tail(q) = <<>>
  <2>1. Len(q) = 1
    <3>1. Len(Tail(q)) = 0
      BY <1>2, EmptyLength, Zenon
    <3>2. Len(Tail(q)) = Len(q) - 1 /\ Len(q) \in Nat
      BY <1>1, Zenon
    <3>3. QED
      BY <3>1, <3>2
  <2>2. QED
    BY <1>1, <1>2, <2>1
<1>3. CASE Tail(q) # <<>>
  <2>1. Len(Tail(q)) \in Nat \ {0}
    BY <1>1, <1>3
  <2>2. QED
    BY <1>1, <1>3, <2>1
<1>4. QED
  BY <1>2, <1>3

\* A report the SoftDevice has just accepted is kept.
LEMMA AcceptKeeps ==
  ASSUME TxqTypeOK, NEW r \in Reports, Accept(r), "SUCCESS" \in SendResults,
         live' = r, UNCHANGED <<link, m_in_boot_mode>>
  PROVE  KeptReport'
<1>1. /\ txq' # <<>>
      /\ txq'[Len(txq')] = [char |-> ActiveChar, report |-> r]
  BY AcceptType, SendOutcome
<1>2. ActiveChar' = ActiveChar
  BY DEF ActiveChar
<1>3. link' # "down"
  BY SendOutcome
<1>4. QED
  BY <1>1, <1>2, <1>3 DEF KeptReport

LEMMA NextKept == IInv /\ [Next]_vars => KeptReport'
<1> SUFFICES ASSUME IInv, [Next]_vars PROVE KeptReport'
  OBVIOUS
<1>0. /\ ListTypeOK /\ TxqTypeOK /\ EventsTypeOK /\ FlagsTypeOK
      /\ NeverStranded /\ KeptReport
  BY TypeParts DEF IInv
<1>1. CASE UNCHANGED <<promise, link, txq, events, hostMode, hostReport, live, m_in_boot_mode>>
  BY <1>0, <1>1 DEF KeptReport, Occurs, ActiveChar
<1>2. CASE promise' = "none"
  BY <1>2 DEF KeptReport
<1>3. CASE promise' = "pending" /\ link' # "down"
  BY <1>3 DEF KeptReport
<1>4. ASSUME NEW res, res \in SendResults, promise' = PromiseAfterRefusal(res), link' = link
      PROVE  KeptReport'
  BY <1>2, <1>3, <1>4, SendOutcome DEF PromiseAfterRefusal
<1>5. ASSUME NEW e, Take(e), e \notin ModeWrites, link' = link \/ link' # "down",
             UNCHANGED <<promise, txq, m_in_boot_mode>>
      PROVE  KeptReport'
  <2>1. \A c \in Chars : Occurs(ModeWrite[c]) => Occurs(ModeWrite[c])'
    BY <1>0, <1>5, TakeOccurs, ModeWriteEvents
  <2>2. UNCHANGED <<live, hostMode, hostReport, ActiveChar>>
    BY <1>5 DEF Take, hostVars, ActiveChar
  <2>3. QED
    BY <1>0, <1>5, <2>1, <2>2 DEF KeptReport
<1>6. ASSUME NEW e \in EventTypes, Record(e), UNCHANGED <<live, m_in_boot_mode, hostReport, promise, txq>>,
             link' = link, hostMode' = hostMode \/ e \in {ModeWrite[c] : c \in Chars}
      PROVE  KeptReport'
  <2>1. \A x : Occurs(x)' <=> (x = e \/ Occurs(x))
    BY <1>0, <1>6, RecordOccurs
  <2>2. ActiveChar' = ActiveChar
    BY <1>6 DEF ActiveChar
  <2>3. QED
    BY <1>0, <1>6, <2>1, <2>2 DEF KeptReport
<1>7. ASSUME NEW r \in Reports, KeyEvent(r) PROVE KeptReport'
  <2>1. CASE KeySent(r)
    BY <1>0, <1>7, <2>1, AcceptKeeps DEF KeyEvent, KeySent, appVars, sdVars
  <2>2. CASE KeyQueued
    BY <1>4, <1>7, <2>2 DEF KeyEvent, KeyQueued, sdVars
  <2>3. CASE KeyDropped
    BY <1>4, <1>7, <2>3 DEF KeyEvent, KeyDropped, sdVars
  <2>4. QED
    BY <1>7, <2>1, <2>2, <2>3 DEF KeyEvent, keys_send
<1>8. CASE HandleEvent
  <2>1. CASE HandleConnected \/ HandleDisconnected \/ HandleMtuRequest \/ HandlePhyRequest
             \/ HandleGattTimeout
    BY <1>5, <2>1
    DEF HandleConnected, HandleDisconnected, HandleMtuRequest, HandlePhyRequest,
        HandleGattTimeout, sdVars, appVars, ModeWrites
  <2>2. ASSUME NEW c \in Chars, HandleModeWrite(c) PROVE KeptReport'
    BY <1>2, <2>2 DEF HandleModeWrite
  <2>3. CASE HandleTxComplete
    <3>1. CASE DequeueNothing \/ DequeueKept
      BY <1>5, <2>3, <3>1 DEF HandleTxComplete, DequeueNothing, DequeueKept, sdVars, appVars, ModeWrites
    <3>2. CASE DequeueSent
      BY <1>0, <2>3, <3>2, AcceptKeeps
      DEF HandleTxComplete, Take, DequeueSent, sdVars, appVars, FlagsTypeOK
    <3>3. CASE DequeueDropped
      <4>1. CASE promise = "kept"
        BY <1>5, <2>3, <3>3, <4>1 DEF HandleTxComplete, DequeueDropped, sdVars, appVars, ModeWrites
      <4>2. CASE promise # "kept"
        <5>1. PICK res \in IF buffer[rp] = "null" THEN {"NULL"} ELSE SendResults :
                promise' = PromiseAfterRefusal(res)
          BY <3>3, <4>2 DEF DequeueDropped
        <5>2. CASE buffer[rp] = "null"
          BY <1>2, <5>1, <5>2 DEF PromiseAfterRefusal
        <5>3. CASE buffer[rp] # "null"
          BY <1>4, <2>3, <5>1, <5>3 DEF HandleTxComplete, sdVars
        <5>4. QED
          BY <5>2, <5>3
      <4>3. QED
        BY <4>1, <4>2
    <3>4. QED
      BY <2>3, <3>1, <3>2, <3>3 DEF HandleTxComplete, buffer_dequeue_tx
  <2>4. QED
    BY <1>8, <2>1, <2>2, <2>3 DEF HandleEvent
<1>9. CASE Restart
  BY <1>2, <1>9 DEF Restart
<1>10. CASE Environment
  <2> USE DEF firmware, appVars, sdVars, hostVars
  <2>1. CASE Connect
    BY <1>0, <1>2, <2>1 DEF Connect, KeptReport
  <2>2. CASE LinkLost
    BY <1>2, <2>2 DEF LinkLost
  <2>3. CASE Encrypt \/ \E c \in Chars : WriteCccd(c)
    BY <1>1, <2>3 DEF Encrypt, WriteCccd
  <2>4. ASSUME NEW c \in Chars, WriteProtocolMode(c) PROVE KeptReport'
    BY <1>6, <2>4, ModeWriteEvents DEF WriteProtocolMode, EventTypes
  <2>5. CASE GattTimeout \/ \E e \in {"MTU_REQUEST", "PHY_REQUEST"} : RequestFromHost(e)
    BY <1>6, <2>5 DEF GattTimeout, RequestFromHost, EventTypes
  <2>6. CASE Transmit
    <3>1. /\ txq \in Seq(Notifications)
          /\ txq # <<>>
          /\ txq' = Tail(txq)
          /\ UNCHANGED <<live, link, promise, hostMode, ActiveChar>>
      BY <1>0, <2>6 DEF Transmit, TxqTypeOK, ActiveChar
    <3>2. CASE promise = "kept" /\ Tail(txq) # <<>>
      BY <1>0, <3>1, <3>2, TailKeepsLast DEF KeptReport
    <3>3. CASE promise = "kept" /\ Tail(txq) = <<>>
      <4>1. Head(txq) = [char |-> ActiveChar, report |-> live]
        BY <1>0, <3>1, <3>3, TailKeepsLast DEF KeptReport
      <4>2. hostMode = ActiveChar => hostReport' = live
        BY <2>6, <4>1 DEF Transmit
      <4>3. QED
        BY <1>0, <3>1, <3>3, <4>2 DEF KeptReport
    <3>4. CASE promise # "kept"
      BY <1>0, <3>1, <3>4 DEF KeptReport
    <3>5. QED
      BY <3>2, <3>3, <3>4
  <2>7. QED
    BY <1>10, <2>1, <2>2, <2>3, <2>4, <2>5, <2>6 DEF Environment
<1>11. CASE PollBegin \/ PollEnd \/ UNCHANGED vars
  BY <1>1, <1>11 DEF PollBegin, PollEnd, appVars, sdVars, hostVars, vars
<1>12. QED
  BY <1>7, <1>8, <1>9, <1>10, <1>11, NextCases

(***************************************************************************)
(* The theorems.                                                           *)
(***************************************************************************)
LEMMA InitInv == Init => IInv
<1> SUFFICES ASSUME Init PROVE IInv
  OBVIOUS
<1>1. TypeOK
  BY InitType
<1>2. ListConsistent
  BY DEF Init, ListConsistent
<1>3. ~Occurs("DISCONNECTED")
  BY DEF Init, Occurs
<1>4. QED
  BY <1>1, <1>2, <1>3 DEF IInv, Init, DisconnectMeansDown, NeverStranded, KeptReport

LEMMA NextInv == IInv /\ [Next]_vars => IInv'
  BY NextType, NextList, NextDisconnect, NextNeverStranded, NextKept DEF IInv

LEMMA InvariantHolds == Spec => []IInv
  BY InitInv, NextInv, PTL DEF Spec

\* The read index, the write index and the count of the list always agree and a
\* free slot holds no pointer, for every number of slots and also after the list
\* took the one element too many that BUFFER_LIST_FULL lets in.
THEOREM ListStaysConsistent == Spec => []ListConsistent
<1>1. IInv => ListConsistent
  BY DEF IInv
<1>2. QED
  BY <1>1, InvariantHolds, PTL

\* A report that waits in the list always has a notification or a completion
\* ahead of it that makes the firmware dequeue again.
THEOREM WaitingReportIsNeverStranded == Spec => []NeverStranded
<1>1. IInv => NeverStranded
  BY DEF IInv
<1>2. QED
  BY <1>1, InvariantHolds, PTL

\* When everything accepted has arrived, the host acts on the present report.
THEOREM HostAgreesWhenQuiet == Spec => []HostConverges
<1>1. IInv => HostConverges
  <2> SUFFICES ASSUME IInv, promise # "none", txq = <<>>, events = <<>>,
                      hostMode = ActiveChar
               PROVE  hostReport = live
    BY DEF HostConverges
  <2>1. \A x : ~Occurs(x)
    BY DEF Occurs
  <2>2. promise = "kept"
    BY <2>1 DEF IInv, TypeOK, Promises, NeverStranded
  <2>3. QED
    BY <2>1, <2>2 DEF IInv, KeptReport
<1>2. QED
  BY <1>1, InvariantHolds, PTL

\* Whatever the order of keys, completions, mode changes and link events, the
\* firmware calls its error handler on a link that is up, encrypted and has seen no
\* GATT timeout only when sd_ble_gap_phy_update is refused as busy.
THEOREM OnlyBusyRestartsHealthyLink == Spec => HealthyLinkRestartsOnlyWhenBusy
<1> DEFINE Excused == \/ link # "up" \/ ~secure \/ timedOut
                      \/ HandlePhyRequest /\ "BUSY" \in PhyUpdateResults
<1>1. [Next]_vars => [fault' /\ ~fault => Excused]_vars
  <2> SUFFICES ASSUME Next, fault', ~fault
               PROVE  Excused
    OBVIOUS
  <2>1. ASSUME NEW r \in Reports, KeyEvent(r)
        PROVE  Excused
    BY <2>1, SevereRefusal DEF KeyEvent, keys_send, KeySent, KeyQueued, KeyDropped
  <2>2. CASE HandlePhyRequest
    BY <2>2 DEF PhyUpdateResults
  <2>3. CASE HandleEvent /\ ~HandlePhyRequest
    BY <2>3
    DEF HandleEvent, HandleConnected, HandleDisconnected, HandleModeWrite,
        HandleTxComplete, HandleMtuRequest, HandleGattTimeout
  <2>4. CASE PollBegin \/ PollEnd \/ Restart
    BY <2>4 DEF PollBegin, PollEnd, Restart
  <2>5. CASE Environment
    BY <2>5
    DEF Environment, Connect, LinkLost, Encrypt, WriteCccd, WriteProtocolMode,
        RequestFromHost, GattTimeout, Transmit, firmware
  <2>6. QED
    BY <2>1, <2>2, <2>3, <2>4, <2>5, NextCases
<1>2. QED
  BY <1>1, PTL DEF Spec, HealthyLinkRestartsOnlyWhenBusy

\* A report enters the list only while the transmit queue of an existing link is
\* full.
THEOREM ListGrowsOnlyForRoom == Spec => BufferedOnlyForRoom
<1> DEFINE Room == /\ m_conn_handle
                   /\ link # "down"
                   /\ Len(txq) = TxQueueSize
<1>1. TypeOK /\ [Next]_vars => [count' > count => Room]_vars
  <2> SUFFICES ASSUME TypeOK, Next, count' > count
               PROVE  Room
    OBVIOUS
  <2>1. count \in Nat
    BY DEF TypeOK
  <2>2. CASE UNCHANGED listVars \/ RemoveOldest
    BY <2>1, <2>2 DEF listVars, RemoveOldest
  <2>3. ASSUME NEW r \in Reports, KeyEvent(r)
        PROVE  Room
    BY <2>2, <2>3, SendOutcome DEF KeyEvent, keys_send, KeySent, KeyQueued, KeyDropped
  <2>4. CASE HandleEvent
    BY <2>2, <2>4
    DEF HandleEvent, HandleConnected, HandleDisconnected, HandleModeWrite,
        HandleTxComplete, buffer_dequeue_tx, DequeueNothing, DequeueSent, DequeueKept,
        DequeueDropped, HandleMtuRequest, HandlePhyRequest, HandleGattTimeout
  <2>5. CASE PollBegin \/ PollEnd
    BY <2>2, <2>5 DEF PollBegin, PollEnd
  <2>6. CASE Restart
    BY <2>1, <2>6 DEF Restart
  <2>7. CASE Environment
    BY <2>2, <2>7
    DEF Environment, Connect, LinkLost, Encrypt, WriteCccd, WriteProtocolMode,
        RequestFromHost, GattTimeout, Transmit, firmware, listVars
  <2>8. QED
    BY <2>3, <2>4, <2>5, <2>6, <2>7, NextCases
<1>2. QED
  BY <1>1, TypeCorrect, PTL DEF Spec, BufferedOnlyForRoom

(***************************************************************************)
(* The report path implements the report channel.                          *)
(***************************************************************************)
Reported(q) == [i \in 1 .. Len(q) |-> q[i].report]

LEMMA ReportedSeq ==
  ASSUME NEW q \in Seq(Notifications)
  PROVE  /\ Reported(q) \in Seq(Reports)
         /\ Len(Reported(q)) = Len(q)
         /\ \A i \in 1 .. Len(q) : Reported(q)[i] = q[i].report
         /\ q # <<>> => Reported(q) # <<>> /\ Head(Reported(q)) = Head(q).report
<1>1. Len(q) \in Nat /\ \A i \in 1 .. Len(q) : q[i].report \in Reports
  <2>1. Len(q) \in Nat /\ \A i \in 1 .. Len(q) : q[i] \in Notifications
    OBVIOUS
  <2>2. QED
    BY <2>1 DEF Notifications
<1>2. Reported(q) \in Seq(Reports) /\ Len(Reported(q)) = Len(q)
  BY <1>1 DEF Reported
<1>3. \A i \in 1 .. Len(q) : Reported(q)[i] = q[i].report
  BY DEF Reported
<1>4. CASE q # <<>>
  <2>1. Len(q) # 0
    BY <1>4
  <2>2. Reported(q) # <<>>
    BY <1>2, <2>1
  <2>3. 1 \in 1 .. Len(q) /\ Head(q) = q[1] /\ Head(Reported(q)) = Reported(q)[1]
    BY <1>1, <1>2, <2>1
  <2>4. QED
    BY <1>2, <1>3, <2>2, <2>3
<1>5. QED
  BY <1>2, <1>3, <1>4

LEMMA ReportedAppend ==
  ASSUME NEW q \in Seq(Notifications), NEW n \in Notifications
  PROVE  Reported(Append(q, n)) = Append(Reported(q), n.report)
<1>1. /\ Append(q, n) \in Seq(Notifications)
      /\ Len(Append(q, n)) = Len(q) + 1
      /\ Len(q) \in Nat
      /\ \A i \in 1 .. Len(q) : Append(q, n)[i] = q[i]
      /\ Append(q, n)[Len(q) + 1] = n
  OBVIOUS
<1>2. n.report \in Reports
  BY DEF Notifications
<1> DEFINE mid   == Reported(q)
           left  == Reported(Append(q, n))
           right == Append(mid, n.report)
<1>3. /\ mid \in Seq(Reports)
      /\ Len(mid) = Len(q)
      /\ \A i \in 1 .. Len(q) : mid[i] = q[i].report
  BY ReportedSeq
<1>4. /\ left \in Seq(Reports)
      /\ Len(left) = Len(q) + 1
      /\ \A i \in 1 .. Len(q) + 1 : left[i] = Append(q, n)[i].report
  BY <1>1, ReportedSeq
<1> HIDE DEF mid, left
<1>5. /\ right \in Seq(Reports)
      /\ Len(right) = Len(q) + 1
      /\ \A i \in 1 .. Len(q) : right[i] = mid[i]
      /\ right[Len(q) + 1] = n.report
  BY <1>1, <1>2, <1>3
<1> HIDE DEF right
<1>6. \A i \in 1 .. Len(q) + 1 : left[i] = right[i]
  <2> SUFFICES ASSUME NEW i \in 1 .. Len(q) + 1 PROVE left[i] = right[i]
    OBVIOUS
  <2>1. CASE i = Len(q) + 1
    BY <1>1, <1>4, <1>5, <2>1
  <2>2. CASE i \in 1 .. Len(q)
    BY <1>1, <1>3, <1>4, <1>5, <2>2
  <2>3. QED
    BY <1>1, <2>1, <2>2
<1>7. left = right
  BY <1>4, <1>5, <1>6, SeqEqual
<1>8. QED
  BY <1>7 DEF left, right, mid

LEMMA ReportedTail ==
  ASSUME NEW q \in Seq(Notifications), q # <<>>
  PROVE  Reported(Tail(q)) = Tail(Reported(q))
<1>1. /\ Tail(q) \in Seq(Notifications)
      /\ Len(Tail(q)) = Len(q) - 1
      /\ Len(q) \in Nat
      /\ Len(q) # 0
      /\ \A i \in 1 .. Len(q) - 1 : Tail(q)[i] = q[i + 1]
  OBVIOUS
<1> DEFINE left  == Reported(Tail(q))
           mid   == Reported(q)
<1>2. /\ left \in Seq(Reports)
      /\ Len(left) = Len(q) - 1
      /\ \A i \in 1 .. Len(q) - 1 : left[i] = q[i + 1].report
  BY <1>1, ReportedSeq
<1>3. /\ mid \in Seq(Reports)
      /\ mid # <<>>
      /\ Len(mid) = Len(q)
      /\ \A i \in 1 .. Len(q) : mid[i] = q[i].report
  BY <1>1, ReportedSeq
<1> HIDE DEF left, mid
<1>4. /\ Tail(mid) \in Seq(Reports)
      /\ Len(Tail(mid)) = Len(q) - 1
      /\ \A i \in 1 .. Len(q) - 1 : Tail(mid)[i] = q[i + 1].report
  BY <1>1, <1>3
<1>5. left = Tail(mid)
  BY <1>1, <1>2, <1>4, SeqEqual
<1>6. QED
  BY <1>5 DEF left, mid

\* A notification the SoftDevice accepts is a report appended to the channel.
LEMMA AcceptSubmits ==
  ASSUME TypeOK, NEW r \in Reports, Accept(r), "SUCCESS" \in SendResults
  PROVE  Reported(txq') = Append(Reported(txq), r) /\ Len(Reported(txq)) < TxQueueSize
<1>1. txq \in Seq(Notifications) /\ Len(txq) <= TxQueueSize
  BY DEF TypeOK
<1>2. Len(Reported(txq)) = Len(txq) /\ Len(txq) \in Nat
  BY <1>1, ReportedSeq
<1>3. Len(txq) < TxQueueSize
  BY <1>1, <1>2, SendOutcome, HidLinkAssumption
<1>4. Reported(Append(txq, [char |-> ActiveChar, report |-> r])) = Append(Reported(txq), r)
  BY <1>1, AcceptedNotification, ReportedAppend
<1>5. QED
  BY <1>2, <1>3, <1>4 DEF Accept

LEMMA ChannelInit == Init => Channel!ChanInit
<1> SUFFICES ASSUME Init PROVE Channel!ChanInit
  OBVIOUS
<1>1. txq \in Seq(Notifications) /\ Len(txq) = 0
  BY DEF Init
<1>2. Reported(txq) \in Seq(Reports) /\ Len(Reported(txq)) = 0
  BY <1>1, ReportedSeq
<1>3. Reported(txq) = <<>>
  BY <1>2
<1>4. QED
  BY <1>3 DEF Init, Channel!ChanInit, Reported

LEMMA ChannelStep == TypeOK /\ [Next]_vars => [Channel!ChanNext]_(Channel!chanVars)
<1> SUFFICES ASSUME TypeOK, [Next]_vars
             PROVE  Channel!ChanNext \/ UNCHANGED <<live, Reported(txq), hostReport>>
  BY DEF Channel!chanVars, Reported
<1>1. CASE UNCHANGED <<live, txq, hostReport>>
  BY <1>1
<1>2. CASE txq' = <<>> /\ hostReport' = NoKeys /\ live' \in {live, NoKeys}
  <2>1. txq' \in Seq(Notifications) /\ Len(txq') = 0
    BY <1>2
  <2>2. Reported(txq') \in Seq(Reports) /\ Len(Reported(txq')) = 0
    BY <2>1, ReportedSeq
  <2>3. Reported(txq') = <<>>
    BY <2>2
  <2>4. Channel!Lose
    BY <1>2, <2>3 DEF Channel!Lose, Reported
  <2>5. QED
    BY <2>4 DEF Channel!ChanNext
<1>3. ASSUME NEW r \in Reports, KeyEvent(r) PROVE Channel!ChanNext
  <2>1. live' = r /\ hostReport' = hostReport
    BY <1>3 DEF KeyEvent, hostVars
  <2>2. CASE txq' = txq
    BY <2>1, <2>2 DEF Channel!ChanNext, Channel!Press
  <2>3. CASE KeySent(r)
    <3>1. Reported(txq)' = Append(Reported(txq), r) /\ Len(Reported(txq)) < TxQueueSize
      BY <2>3, AcceptSubmits DEF KeySent
    <3>2. QED
      BY <2>1, <3>1 DEF Channel!ChanNext, Channel!Press, Reported
  <2>4. QED
    BY <1>3, <2>2, <2>3 DEF KeyEvent, keys_send, KeyQueued, KeyDropped
<1>4. CASE HandleEvent
  <2>1. CASE DequeueSent /\ UNCHANGED <<live, hostReport>>
    <3>1. live \in Reports
      BY DEF TypeOK
    <3>2. Reported(txq)' = Append(Reported(txq), live) /\ Len(Reported(txq)) < TxQueueSize
      BY <2>1, <3>1, AcceptSubmits DEF DequeueSent
    <3>3. QED
      BY <2>1, <3>2 DEF Channel!ChanNext, Channel!Submit, Reported
  <2>2. QED
    BY <1>1, <1>4, <2>1
    DEF HandleEvent, HandleConnected, HandleDisconnected, HandleModeWrite,
        HandleTxComplete, buffer_dequeue_tx, DequeueNothing, DequeueKept,
        DequeueDropped, HandleMtuRequest, HandlePhyRequest, HandleGattTimeout,
        Take, hostVars
<1>5. CASE Restart
  BY <1>2, <1>5 DEF Restart
<1>6. CASE Environment
  <2>1. CASE LinkLost
    BY <1>2, <2>1 DEF LinkLost, firmware
  <2>2. CASE Transmit
    <3>1. txq \in Seq(Notifications) /\ txq # <<>> /\ txq' = Tail(txq)
      BY <2>2 DEF Transmit, TypeOK
    <3>2. /\ Reported(txq) # <<>>
          /\ Head(Reported(txq)) = Head(txq).report
          /\ Reported(txq') = Tail(Reported(txq))
      BY <3>1, ReportedSeq, ReportedTail
    <3>3. live' = live /\ hostReport' \in {hostReport, Head(txq).report}
      BY <2>2 DEF Transmit, firmware
    <3>4. Channel!Receive
      BY <3>2, <3>3 DEF Channel!Receive, Reported
    <3>5. QED
      BY <3>4 DEF Channel!ChanNext
  <2>3. QED
    BY <1>1, <1>6, <2>1, <2>2
    DEF Environment, Connect, Encrypt, WriteCccd, WriteProtocolMode,
        RequestFromHost, GattTimeout, firmware, hostVars
<1>7. CASE PollBegin \/ PollEnd \/ UNCHANGED vars
  BY <1>1, <1>7 DEF PollBegin, PollEnd, hostVars, vars
<1>8. QED
  BY <1>3, <1>4, <1>5, <1>6, <1>7, NextCases

\* The firmware's two ways of sending (keys_send at once, buffer_dequeue later),
\* its list and its handlers implement the report channel: every behaviour of
\* HidLink, seen through the reports in the transmit queue, is one of
\* ReportChannel.
THEOREM LinkImplementsChannel == Spec => ImplementsChannel
<1>1. Spec => Channel!ChanInit
  BY ChannelInit DEF Spec
<1>2. QED
  BY <1>1, ChannelStep, TypeCorrect, PTL DEF Spec, ImplementsChannel, Channel!ChanSpec
=============================================================================
