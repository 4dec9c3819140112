------------------------------ MODULE HidLink ------------------------------
(***************************************************************************)
(* The path of a keyboard report from keys_send to the host: the circular  *)
(* list of reports that could not be sent (ble_service.c), the protocol    *)
(* mode as the HID service and the application each keep it (ble_hids.c,   *)
(* ble_service.c), and the SoftDevice's notification queue and event queue *)
(* around them.                                                            *)
(*                                                                         *)
(* Every handler of the firmware here runs to completion in the main loop, *)
(* so a handler is one action.  The SoftDevice runs beside it: it sends,   *)
(* loses the link and records events at any time, and the events wait      *)
(* until the main loop polls them (nrf_sdh_ble_evts_poll).                 *)
(***************************************************************************)
EXTENDS Integers, Sequences

CONSTANTS
  Reports,            \* the values of the 8-byte keyboard report
  NoKeys,             \* the report with no key in it
  MAX_BUFFER_ENTRIES, \* slots of the list; 5 in the code
  TxQueueSize,        \* hvn_tx_queue_size of the SoftDevice; default 1
  MaxEvents           \* bound: events the SoftDevice holds at a time

ASSUME HidLinkAssumption ==
  /\ NoKeys \in Reports
  /\ MAX_BUFFER_ENTRIES \in Nat \ {0}
  /\ TxQueueSize \in Nat \ {0}
  /\ MaxEvents \in Nat \ {0}

VARIABLES
  \* the firmware
  live,            \* *keyboard_report, the one report buffer of the keyboard
  buffer,          \* the p_data of each element of buffer_list.buffer
  rp, wp, count,   \* buffer_list.rp, .wp and .count
  m_conn_handle,   \* whether the application holds a connection handle
  m_in_boot_mode,  \* the application's idea of the protocol mode
  protocol_mode,   \* the HID service's protocol mode of the client
  polling,         \* the main loop is inside nrf_sdh_ble_evts_poll
  fault,           \* an error handler was called: the device restarts
  \* the SoftDevice
  link,            \* "down", "up", or "closing" after sd_ble_gap_disconnect
  secure,          \* the link is encrypted
  cccd,            \* notifications enabled, per input characteristic
  timedOut,        \* a GATT procedure timed out on this link
  txq,             \* notifications accepted and not yet sent
  events,          \* BLE events recorded and not yet polled
  \* the host
  hostMode,        \* the protocol mode the host last set
  hostReport,      \* the keyboard report the host acts on
  \* history
  promise          \* what has become of the present report: see Promises

listVars    == <<buffer, rp, wp, count>>
appVars     == <<m_conn_handle, m_in_boot_mode, protocol_mode>>
sdVars      == <<link, secure, cccd, timedOut>>
hostVars    == <<hostMode, hostReport>>
vars == <<live, buffer, rp, wp, count, m_conn_handle, m_in_boot_mode,
          protocol_mode, polling, fault, link, secure, cccd, timedOut, txq,
          events, hostMode, hostReport, promise>>

(***************************************************************************)
(* Values.                                                                 *)
(***************************************************************************)
Slots == 0 .. MAX_BUFFER_ENTRIES - 1

\* The two input characteristics, named by the protocol mode they serve.
Chars == {"report", "boot"}

\* p_data of a list element is null or points to the one live report: no copy
\* of a report is ever made.
Pointers == {"null", "live"}

Notifications == [char : Chars, report : Reports]

\* The Protocol Mode write events carry the mode that was written.
ModeWrite == [c \in Chars |-> IF c = "boot" THEN "BOOT_WRITE" ELSE "REPORT_WRITE"]
ModeWrites == {"BOOT_WRITE", "REPORT_WRITE"}

EventTypes == {"CONNECTED", "DISCONNECTED", "HVN_TX_COMPLETE", "MTU_REQUEST",
               "PHY_REQUEST", "GATT_TIMEOUT"} \cup ModeWrites

\* "kept": the SoftDevice has accepted the report as it stands, on this link.
\* "pending": an element of the list will carry it at a TX complete event.
\* "none": it was dropped, or nothing was sent on this link yet.
Promises == {"kept", "pending", "none"}

Occurs(e) == \E i \in 1 .. Len(events) : events[i] = e

(***************************************************************************)
(* Sending.  HvxErrors are the documented refusals of sd_ble_gatts_hvx; the *)
(* order in which it checks is unknown, so any that applies may come back. *)
(* INVALID_STATE stands for SYS_ATTR_MISSING too: keys_send lets both pass. *)
(***************************************************************************)
ActiveChar == IF m_in_boot_mode THEN "boot" ELSE "report"

HvxErrors(c) ==
  {e \in {"INVALID_STATE", "FORBIDDEN", "TIMEOUT", "RESOURCES"} :
     \/ e = "INVALID_STATE" /\ (link = "closing" \/ ~cccd[c] \/ Occurs("MTU_REQUEST"))
     \/ e = "FORBIDDEN" /\ ~secure
     \/ e = "TIMEOUT" /\ timedOut
     \/ e = "RESOURCES" /\ Len(txq) = TxQueueSize}

Hvx(c) ==
  IF link = "down" THEN {"INVALID_CONN_HANDLE"}
  ELSE IF HvxErrors(c) = {} THEN {"SUCCESS"} ELSE HvxErrors(c)

\* ble_hids_inp_rep_send and ble_hids_boot_kb_inp_rep_send on a non-null pattern:
\* one notification on the characteristic of the application's protocol mode.
SendResults == IF m_conn_handle THEN Hvx(ActiveChar) ELSE {"INVALID_STATE"}

\* Faulty: a link that is not ready is taken for a severe error.
ToleratedWithoutState == {"SUCCESS", "RESOURCES"}

\* The errors keys_send lets pass; any other calls the error handler.
Tolerated == {"SUCCESS", "INVALID_STATE", "RESOURCES"}

Accept(report) == txq' = Append(txq, [char |-> ActiveChar, report |-> report])

(***************************************************************************)
(* The list.                                                               *)
(***************************************************************************)
\* Faulty: the index is compared before it is advanced.
NextSlotLate(i) == IF i = MAX_BUFFER_ENTRIES THEN 0 ELSE i + 1

NextSlot(i) == IF i + 1 = MAX_BUFFER_ENTRIES THEN 0 ELSE i + 1

BUFFER_LIST_FULL == MAX_BUFFER_ENTRIES = count - 1

\* buffer_enqueue: a full list leaves everything as it is.
buffer_enqueue ==
  IF BUFFER_LIST_FULL
  THEN UNCHANGED listVars
  ELSE /\ buffer' = [buffer EXCEPT ![wp] = "live"]
       /\ count' = count + 1
       /\ wp' = NextSlot(wp)
       /\ UNCHANGED rp

\* Faulty: the element that is left is not cleared.
RemoveOldestUncleared ==
  /\ rp' = NextSlot(rp)
  /\ count' = count - 1
  /\ UNCHANGED <<buffer, wp>>

\* The removal of the oldest element at the end of buffer_dequeue.
RemoveOldest ==
  /\ buffer' = [buffer EXCEPT ![rp] = "null"]
  /\ rp' = NextSlot(rp)
  /\ count' = count - 1
  /\ UNCHANGED wp

\* History: while the transmit queue is full a TX complete event is certain,
\* and it makes the next element of the list carry the report.
PromiseAfterRefusal(res) ==
  IF res = "RESOURCES" /\ count' > 0 THEN "pending" ELSE "none"

(***************************************************************************)
(* keys_send(8, keyboard_report->raw), called when the scan handler has     *)
(* made the report r.  actual_len is never written by the send function:   *)
(* the comparison of the uninitialised value goes either way.              *)
(***************************************************************************)
\* Faulty: the report is sent before the key is added to it.
KeySentTooEarly(r) ==
  /\ "SUCCESS" \in SendResults
  /\ Accept(live)
  /\ promise' = "kept"
  /\ UNCHANGED <<listVars, fault>>

KeySent(r) ==
  /\ "SUCCESS" \in SendResults
  /\ Accept(r)
  /\ promise' = "kept"
  /\ UNCHANGED <<listVars, fault>>

\* Faulty: a report that the link is not ready for is buffered as well.
KeyQueuedUnready ==
  /\ SendResults \cap {"RESOURCES", "INVALID_STATE"} # {}
  /\ buffer_enqueue
  /\ promise' = PromiseAfterRefusal("RESOURCES")
  /\ UNCHANGED <<txq, fault>>

KeyQueued ==
  /\ "RESOURCES" \in SendResults
  /\ buffer_enqueue
  /\ promise' = PromiseAfterRefusal("RESOURCES")
  /\ UNCHANGED <<txq, fault>>

KeyDropped ==
  /\ UNCHANGED <<listVars, txq>>
  /\ \E res \in SendResults :
       /\ res # "SUCCESS"
       /\ promise' = PromiseAfterRefusal(res)
       /\ fault' = (res \notin Tolerated)

keys_send(r) == KeySent(r) \/ KeyQueued \/ KeyDropped

KeyEvent(r) ==
  /\ ~fault
  /\ ~polling
  /\ live' = r
  /\ keys_send(r)
  /\ UNCHANGED <<appVars, polling, sdVars, events, hostVars>>

(***************************************************************************)
(* The event poll of the main loop: it takes events until there is none.   *)
(***************************************************************************)
PollBegin ==
  /\ ~fault
  /\ ~polling
  /\ events # <<>>
  /\ polling' = TRUE
  /\ UNCHANGED <<live, listVars, appVars, fault, sdVars, txq, events, hostVars, promise>>

PollEnd ==
  /\ ~fault
  /\ polling
  /\ events = <<>>
  /\ polling' = FALSE
  /\ UNCHANGED <<live, listVars, appVars, fault, sdVars, txq, events, hostVars, promise>>

\* The poll takes the oldest event, one of type e.
Take(e) ==
  /\ ~fault
  /\ polling
  /\ events # <<>>
  /\ Head(events) = e
  /\ events' = Tail(events)
  /\ UNCHANGED <<live, polling, hostVars>>

\* The HID service resets its protocol mode without an event to the
\* application, then the application stores the connection handle.
HandleConnected ==
  /\ Take("CONNECTED")
  /\ protocol_mode' = "report"
  /\ m_conn_handle' = TRUE
  /\ UNCHANGED <<m_in_boot_mode, listVars, fault, sdVars, txq, promise>>

\* buffer_dequeue(false), once; an empty list is left alone.
HandleDisconnected ==
  /\ Take("DISCONNECTED")
  /\ IF count = 0 THEN UNCHANGED listVars ELSE RemoveOldest
  /\ m_conn_handle' = FALSE
  /\ UNCHANGED <<m_in_boot_mode, protocol_mode, fault, sdVars, txq, promise>>

\* The HID service stores the mode and its event makes the application store it.
HandleModeWrite(c) ==
  /\ Take(ModeWrite[c])
  /\ protocol_mode' = c
  /\ m_in_boot_mode' = (c = "boot")
  /\ promise' = "none"
  /\ UNCHANGED <<m_conn_handle, listVars, fault, sdVars, txq>>

(***************************************************************************)
(* BLE_GATTS_EVT_HVN_TX_COMPLETE: buffer_dequeue(true).  The element's      *)
(* pointer leads to the report as it is now.                               *)
(***************************************************************************)
DequeueNothing ==
  /\ count = 0
  /\ UNCHANGED <<listVars, txq, promise>>

DequeueSent ==
  /\ count > 0
  /\ buffer[rp] # "null"
  /\ "SUCCESS" \in SendResults
  /\ Accept(live)
  /\ RemoveOldest
  /\ promise' = "kept"

DequeueKept ==
  /\ count > 0
  /\ buffer[rp] # "null"
  /\ "RESOURCES" \in SendResults
  /\ UNCHANGED <<listVars, txq, promise>>

\* A null pointer is refused before anything else (VERIFY_PARAM_NOT_NULL); the
\* uninitialised actual_len can make a RESOURCES refusal remove the element.
DequeueDropped ==
  /\ count > 0
  /\ RemoveOldest
  /\ \E res \in IF buffer[rp] = "null" THEN {"NULL"} ELSE SendResults :
       /\ res # "SUCCESS"
       /\ promise' = IF promise = "kept" THEN "kept" ELSE PromiseAfterRefusal(res)
  /\ UNCHANGED txq

buffer_dequeue_tx == DequeueNothing \/ DequeueSent \/ DequeueKept \/ DequeueDropped

\* Faulty: the completion sends nothing that waits.
HandleTxCompleteIdle ==
  /\ Take("HVN_TX_COMPLETE")
  /\ UNCHANGED <<listVars, txq, promise, appVars, fault, sdVars>>

HandleTxComplete ==
  /\ Take("HVN_TX_COMPLETE")
  /\ buffer_dequeue_tx
  /\ UNCHANGED <<appVars, fault, sdVars>>

\* The GATT module answers the request in its handler.
HandleMtuRequest ==
  /\ Take("MTU_REQUEST")
  /\ UNCHANGED <<listVars, appVars, fault, sdVars, txq, promise>>

\* sd_ble_gap_phy_update, by its documented results.  When a link that is there
\* makes it busy is unknown: "procedure is already in progress or not allowed".
PhyUpdateResults ==
  IF link = "down" THEN {"INVALID_CONN_HANDLE"}
  ELSE {"SUCCESS", "BUSY"} \cup {e \in {"INVALID_STATE"} : link = "closing"}

\* Any refusal, also of a busy link, fails the APP_ERROR_CHECK; nothing is retried.
HandlePhyRequest ==
  /\ Take("PHY_REQUEST")
  /\ \E res \in PhyUpdateResults : fault' = (res # "SUCCESS")
  /\ UNCHANGED <<listVars, appVars, sdVars, txq, promise>>

\* sd_ble_gap_disconnect, with APP_ERROR_CHECK on a link that is gone.
HandleGattTimeout ==
  /\ Take("GATT_TIMEOUT")
  /\ fault' = (link # "up")
  /\ link' = IF link = "up" THEN "closing" ELSE link
  /\ UNCHANGED <<listVars, appVars, secure, cccd, timedOut, txq, promise>>

HandleEvent ==
  \/ HandleConnected
  \/ HandleDisconnected
  \/ \E c \in Chars : HandleModeWrite(c)
  \/ HandleTxComplete
  \/ HandleMtuRequest
  \/ HandlePhyRequest
  \/ HandleGattTimeout

\* The error handler restarts the chip (app_error_fault_handler of a build
\* without DEBUG; with DEBUG it stops there): main runs again from the start,
\* and the host sees the link time out.
Restart ==
  /\ fault
  /\ live' = NoKeys
  /\ buffer' = [i \in Slots |-> "null"]
  /\ rp' = 0 /\ wp' = 0 /\ count' = 0
  /\ m_conn_handle' = FALSE
  /\ m_in_boot_mode' = FALSE
  /\ protocol_mode' = "report"
  /\ polling' = FALSE
  /\ fault' = FALSE
  /\ link' = "down"
  /\ secure' = FALSE
  /\ cccd' = [c \in Chars |-> FALSE]
  /\ timedOut' = FALSE
  /\ txq' = <<>>
  /\ events' = <<>>
  /\ hostMode' = "report"
  /\ hostReport' = NoKeys
  /\ promise' = "none"

(***************************************************************************)
(* The SoftDevice and the host: external, from how the code uses them.     *)
(***************************************************************************)
Record(e) ==
  /\ ~fault
  /\ Len(events) < MaxEvents
  /\ events' = Append(events, e)

firmware == <<live, listVars, appVars, polling, fault>>

\* Advertising restarts when DISCONNECTED is handled, so a new link is made
\* only then; on it the Protocol Mode value is the default (see LinkLost).
Connect ==
  /\ link = "down"
  /\ ~m_conn_handle
  /\ events = <<>>
  /\ Record("CONNECTED")
  /\ link' = "up"
  /\ UNCHANGED <<firmware, secure, cccd, timedOut, txq, hostVars, promise>>

\* The link is lost, or the disconnection that was asked for completes.
LinkLost ==
  /\ link # "down"
  /\ Record("DISCONNECTED")
  /\ link' = "down"
  /\ secure' = FALSE
  /\ cccd' = [c \in Chars |-> FALSE]
  /\ timedOut' = FALSE
  /\ txq' = <<>>
  /\ hostMode' = "report"
  /\ hostReport' = NoKeys
  /\ promise' = "none"
  /\ UNCHANGED firmware

Encrypt ==
  /\ ~fault
  /\ link = "up"
  /\ secure' = TRUE
  /\ UNCHANGED <<firmware, link, cccd, timedOut, txq, events, hostVars, promise>>

\* The host, or the Peer Manager from the bond, sets a CCCD.
WriteCccd(c) ==
  /\ ~fault
  /\ link = "up"
  /\ secure
  /\ cccd' = [cccd EXCEPT ![c] = ~@]
  /\ UNCHANGED <<firmware, link, secure, timedOut, txq, events, hostVars, promise>>

WriteProtocolMode(c) ==
  /\ link = "up"
  /\ secure
  /\ Record(ModeWrite[c])
  /\ hostMode' = c
  /\ UNCHANGED <<firmware, sdVars, txq, hostReport, promise>>

RequestFromHost(e) ==
  /\ link = "up"
  /\ Record(e)
  /\ UNCHANGED <<firmware, sdVars, txq, hostVars, promise>>

GattTimeout ==
  /\ link = "up"
  /\ ~timedOut
  /\ Record("GATT_TIMEOUT")
  /\ timedOut' = TRUE
  /\ UNCHANGED <<firmware, link, secure, cccd, txq, hostVars, promise>>

\* The oldest notification reaches the host, which ignores one that is not of
\* its protocol mode.  The completion is a new event, or is counted in the
\* HVN_TX_COMPLETE event that is already the last one.
Transmit ==
  /\ ~fault
  /\ txq # <<>>
  /\ txq' = Tail(txq)
  /\ hostReport' = IF Head(txq).char = hostMode THEN Head(txq).report ELSE hostReport
  /\ \/ Record("HVN_TX_COMPLETE")
     \/ /\ events # <<>>
        /\ events[Len(events)] = "HVN_TX_COMPLETE"
        /\ UNCHANGED events
  /\ UNCHANGED <<firmware, sdVars, hostMode, promise>>

Init ==
  /\ live = NoKeys
  /\ buffer = [i \in Slots |-> "null"]
  /\ rp = 0 /\ wp = 0 /\ count = 0
  /\ m_conn_handle = FALSE
  /\ m_in_boot_mode = FALSE
  /\ protocol_mode = "report"
  /\ polling = FALSE
  /\ fault = FALSE
  /\ link = "down"
  /\ secure = FALSE
  /\ cccd = [c \in Chars |-> FALSE]
  /\ timedOut = FALSE
  /\ txq = <<>>
  /\ events = <<>>
  /\ hostMode = "report"
  /\ hostReport = NoKeys
  /\ promise = "none"

Next ==
  \/ \E r \in Reports : KeyEvent(r)
  \/ PollBegin
  \/ HandleEvent
  \/ PollEnd
  \/ Restart
  \/ Connect
  \/ LinkLost
  \/ Encrypt
  \/ \E c \in Chars : WriteCccd(c) \/ WriteProtocolMode(c)
  \/ \E e \in {"MTU_REQUEST", "PHY_REQUEST"} : RequestFromHost(e)
  \/ GattTimeout
  \/ Transmit

\* What the radio owes while a notification is on its way.
Radio == txq # <<>> /\ (Transmit \/ LinkLost)

\* The main loop polls and handles what was recorded; a notification on its way
\* is sent or the supervision timeout ends the link.  That last fairness is strong
\* since only the model's bound on recorded events makes the radio wait.  An idle
\* link, keys and the host owe nothing.
Fairness ==
  /\ WF_vars(PollBegin)
  /\ WF_vars(HandleEvent)
  /\ WF_vars(PollEnd)
  /\ WF_vars(Restart)
  /\ SF_vars(Radio)

Spec == Init /\ [][Next]_vars
FairSpec == Spec /\ Fairness

(***************************************************************************)
(* Properties.                                                             *)
(***************************************************************************)

\* The type of every variable; the list holds at most one element more than it
\* has slots, which is what BUFFER_LIST_FULL lets in.
TypeOK ==
  /\ live \in Reports
  /\ buffer \in [Slots -> Pointers]
  /\ rp \in Slots /\ wp \in Slots
  /\ count \in 0 .. MAX_BUFFER_ENTRIES + 1
  /\ m_conn_handle \in BOOLEAN
  /\ m_in_boot_mode \in BOOLEAN
  /\ protocol_mode \in Chars
  /\ polling \in BOOLEAN
  /\ fault \in BOOLEAN
  /\ link \in {"down", "up", "closing"}
  /\ secure \in BOOLEAN
  /\ cccd \in [Chars -> BOOLEAN]
  /\ timedOut \in BOOLEAN
  /\ txq \in Seq(Notifications) /\ Len(txq) <= TxQueueSize
  /\ events \in Seq(EventTypes) /\ Len(events) <= MaxEvents
  /\ hostMode \in Chars
  /\ hostReport \in Reports
  /\ promise \in Promises

\* How many elements lie before slot i, counted from the read index.
Offset(i) == IF i >= rp THEN i - rp ELSE i + MAX_BUFFER_ENTRIES - rp

\* The read index, the write index and the count of the list agree, through
\* every wrap and also when the list has taken one element too many, and a
\* slot outside the elements counted never holds a pointer (buffer_enqueue,
\* buffer_dequeue).
ListConsistent ==
  /\ \/ rp + count = wp
     \/ rp + count = wp + MAX_BUFFER_ENTRIES
     \/ rp + count = wp + 2 * MAX_BUFFER_ENTRIES
  /\ \A i \in Slots : buffer[i] # "null" => Offset(i) < count

\* A report that waits in the list is never stranded there: while one is owed,
\* a notification is on its way or its completion is recorded, so buffer_dequeue
\* will be called again.  Only a TX complete event ever drains the list.
NeverStranded ==
  promise = "pending" =>
    /\ count > 0
    /\ txq # <<>> \/ Occurs("HVN_TX_COMPLETE")

\* Whatever was sent directly, buffered, overtaken or resent: once a report was
\* accepted or buffered on this link and nothing is on its way any more, the
\* host acts on the keyboard's present report (keys_send, buffer_dequeue).
HostConverges ==
  /\ promise # "none"
  /\ txq = <<>>
  /\ events = <<>>
  /\ hostMode = ActiveChar
  => hostReport = live

\* Whatever the order of keys, completions, mode changes and link events, an
\* encrypted link that is up and has seen no GATT timeout makes keys_send and
\* ble_evt_handler restart the device in one way only: the host asks for another
\* PHY and the SoftDevice answers sd_ble_gap_phy_update with NRF_ERROR_BUSY.
HealthyLinkRestartsOnlyWhenBusy ==
  [][fault' /\ ~fault =>
       \/ link # "up" \/ ~secure \/ timedOut
       \/ HandlePhyRequest /\ "BUSY" \in PhyUpdateResults]_vars

\* The list grows only because the transmit queue of the link is full: reports
\* of an unconnected or lost link never enter it, and those of a closing link only
\* while a notification of it waits to be sent (keys_send, buffer_enqueue).
BufferedOnlyForRoom ==
  [][count' > count => /\ m_conn_handle
                       /\ link # "down"
                       /\ Len(txq) = TxQueueSize]_vars

\* The report path implements the report channel: the host gets the reports in
\* the order they were accepted, each as it stood at that moment, and none of
\* an earlier link.
Channel == INSTANCE ReportChannel WITH
  Capacity <- TxQueueSize,
  chan <- [i \in 1 .. Len(txq) |-> txq[i].report],
  view <- hostReport
ImplementsChannel == Channel!ChanSpec

\* A report that waits in the list does not wait for ever: it is accepted, or
\* given up with an error, or the link ends.
PendingIsResolved == promise = "pending" ~> promise # "pending"

(***************************************************************************)
(* What the repository says and the code does not do.                      *)
(***************************************************************************)

\* "Maximum number of entries that can enqueued in the list" is the size of the
\* array (ble_service.c, buffer_list_t).
ListWithinCapacity == count <= MAX_BUFFER_ENTRIES

\* "Dequeue all keys without transmission." (ble_evt_handler, disconnection).
DisconnectEmptiesList == ~m_conn_handle => count = 0

\* m_in_boot_mode is the "Current protocol mode.": while connected it is the
\* mode the HID service keeps for the client.
BootModeIsCurrent == m_conn_handle => m_in_boot_mode = (protocol_mode = "boot")

\* "Make entry of buffer element and copy data.": the data of a queued element
\* stays what it was when it was queued.
QueuedDataIsACopy ==
  [][\A i \in Slots : buffer[i] = "live" /\ buffer'[i] = "live" => live' = live]_vars

\* "Provides actual length of Key Pattern transmitted, making buffering of rest
\* possible if needed": the key event of a healthy link that finds the transmit
\* queue full and room in the list is buffered.
RefusedReportIsBuffered ==
  [][\A r \in Reports :
       /\ KeyEvent(r)
       /\ m_conn_handle
       /\ SendResults = {"RESOURCES"}
       /\ ~BUFFER_LIST_FULL
       => count' = count + 1]_vars
=============================================================================
