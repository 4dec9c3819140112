# Verification of the BLEKeyboard firmware

BLEKeyboard is the firmware of a Bluetooth keyboard: the TMK keyboard core
(`src/firmware/tmk_core`) on a Nordic nRF52832, above the nRF5 SDK 17 and the
S112 SoftDevice (`src/SDK`, vendored).  The project's own code is
`src/firmware`.  This directory holds TLA+ modules that model it, TLC
configurations that check them on small instances, and proofs for TLAPS.

    tlc -config HidLink.cfg MCHidLink.tla      # a run
    tlapm HidLinkProofs.tla                    # a proof module

## 1. The system

Everything the firmware does starts from the main loop of `main.c`
(`app_sched_execute`, then sleep) or from an interrupt:

    switches -> matrix_scan -> keyboard_task -> action_exec -> action_tapping_process
             -> process_action -> add_key/del_key -> send_keyboard_report
             -> host_keyboard_send -> kb_send_report -> keys_send
             -> ble_hids_inp_rep_send -> sd_ble_gatts_hvx ~~> host
                   ^ on NRF_ERROR_RESOURCES: buffer_enqueue
    SoftDevice ~~events~~> nrf_sdh_ble_evts_poll -> HID service, ble_evt_handler
             -> buffer_dequeue on each TX complete event

| component | state | operations | what makes it correct |
|---|---|---|---|
| matrix (`kb_nrf_matrix.c`) | `matrix`, `matrix_debouncing`, one counter `debouncing` | `matrix_scan` | only states read steadily are taken over; a key that is held gets through |
| keyboard task (`keyboard.c`) | `matrix_prev` | `keyboard_task` | one event per change |
| actions and report (`action.c`, `action_util.c`) | `keyboard_report`, `real_mods`, weak and one-shot modifiers | `process_action`, `register_code`, `unregister_code`, `add_key`, `del_key`, `send_keyboard_report` | no key sticks, none is lost, six slots |
| tap keys (`action_tapping.c`) | `tapping_key`, ring of 8 waiting events | `process_tapping` | every press has its release, in an order that makes sense; overflow clears all |
| report path (`ble_service.c`) | `buffer_list`, `m_conn_handle`, `m_in_boot_mode` | `keys_send`, `buffer_enqueue`, `buffer_dequeue`, `on_hids_evt`, `ble_evt_handler` | the host ends up with the present report; the list is never corrupted; no key and no event but a busy PHY update restarts the device on a good link |
| HID service (SDK `ble_hids.c`) | protocol mode per client | connection, mode write, sends | the mode both sides think they are in |
| event dispatch (SDK `nrf_sdh_ble.c`, `app_scheduler.c`, `app_timer2.c`) | SoftDevice events, ring of scheduled events | poll; put, execute | FIFO, nothing overwritten or lost silently |
| advertising and bonds (`ble_service.c`, SDK `ble_advertising.c` and Peer Manager) | `m_peer_id`, whitelist, mode, bonds in flash | `advertising_start`, `pm_evt_handler`, `whitelist_set`, `identities_set`, `on_adv_evt`, `sleep_mode_enter` | a bonded host can come back and no other comes in; never silent; sleep only when idle |
| battery (`powermgr.c`, SDK `nrfx_saadc.c`) | `saadc_initialized`, the driver's state, `percentage` | timer handler, conversion interrupt | the converter is open when sampled |
| timer (`timer.c`) | RTC counter | `timer_read` | differences survive the wrap |

What is hard to test here: the SoftDevice records events, loses the link and
sends notifications while the main loop is anywhere (its events wait, so the
application's idea of the link is always late); a report is kept in the list
only as a pointer to a buffer that goes on changing; errors of calls on a link
that is gone restart the device; switches move between the reads of two rows
and one counter debounces all of them; interrupts fill scheduler entries while
others are being filled; a bond is made, written and reported at three different moments,
with the link going and coming in between; a tap is settled by a key, by time or
by a full buffer.  `PROJECT.json` lists these hazards at their lines,
with the properties that cover them.

Things noticed in the code that shape the model:

- `config.h` selects no N-key rollover, no circular 6KRO buffer, no ghost
  detection, no mouse keys; the build defines `NO_ACTION_LAYER`.
- `keymap_plain.c` has plain keys and modifiers only.  Its `fn_actions` (two
  layer taps) are on no key; `KEYMAP` of `keymap_common.h` drops its parameter
  `K57`, so the right Alt key of the keymap has no position.
- With `DEBOUNCE` 1, as configured, the first scan that reads a new state takes
  it over: the debouncing is the 10 ms scan interval.  With `DEBOUNCE` 0, which
  `config.h:36` offers "if debouncing isn't needed", no key ever gets through
  (theorem `NoDebounceNoKeys`).
- Nothing in the firmware arms a wake-up before System OFF
  (`sleep_mode_enter`): only a reset brings the keyboard back.
- `main.c:53` says the device accepts pairing requests from any peer; from the
  first bond on the whitelist keeps every other host out (`OneBond`).
- The percentage of the battery is read by nobody (todo at `powermgr.c:58`).

## 2. Modules

| module | models | status |
|---|---|---|
| `HidLink` | the report path, HID service mode, SoftDevice queues, link, host | checked, proved |
| `ReportChannel` | abstract specification of the report path | implemented by `HidLink` |
| `MCHidLink` | the instance for TLC | |
| `HidLinkProofs` | theorems about `HidLink` | proved |
| `Keyboard` | matrix scan, keyboard task, actions and report | checked, proved |
| `MCKeyboard` | the instance for TLC | |
| `KeyboardProofs` | theorems about `Keyboard` | proved |
| `Scheduler` | event ring, interrupt handlers that put, main loop and sleep | checked, proved |
| `EventQueue` | abstract specification of the event ring | implemented by `Scheduler` |
| `MCScheduler` | the instance for TLC | |
| `SchedulerProofs` | theorems about `Scheduler` | proved |
| `Firmware` | `Keyboard` and `HidLink` composed, from the switches to the host | checked, proved |
| `MCFirmware` | the instance for TLC | |
| `FirmwareProofs` | theorems about `Firmware` | proved |
| `Tapping` | tap keys, their waiting buffer, and the clock | checked, proved |
| `MCTapping` | the instance for TLC | |
| `TappingProofs` | theorems about `Tapping`: types, the buffer | proved |
| `TappingReportProofs` | theorems about `Tapping`: what the host is shown | proved |
| `Advertising` | advertising modes, whitelist, bonds, sleep, restart | checked in `Device`, proved |
| `Battery` | the measurement, the ADC driver and its interrupt | checked in `Device`, proved |
| `Device` | `Advertising` and `Battery` in one main loop | checked, proved |
| `MCDevice` | the instance for TLC | |
| `AdvertisingProofs` | theorems about `Advertising` | proved |
| `DeviceProofs` | theorems about `Device` | proved |

Definitions whose comment begins "Faulty:" are single-mistake variants of the
definition that follows them; no specification uses them.  `PROJECT.json` names,
for each property of a passing run, one that makes the property fail, which
shows that the property says something about the code.

### HidLink

One action is one handler, since every handler runs to completion in the main
loop.  `KeyEvent(r)` is a key event that has changed `*keyboard_report` to `r`,
up to the return of `keys_send`.  `PollBegin`, `HandleEvent` and `PollEnd` are
`nrf_sdh_ble_evts_poll`: key events cannot come between, but SoftDevice actions
can, before and after each event.  `HandleConnected` and `HandleModeWrite` are
the HID service's handler followed by the application's, `HandleTxComplete` is
`buffer_dequeue(true)` and `HandleDisconnected` is `buffer_dequeue(false)`.
`Restart` is the reset that every error handler ends in (a build without
`DEBUG`; with it the device stops there, which has fewer behaviours).

- `buffer`, `rp`, `wp`, `count` are `buffer_list`.  The data of an element is a
  pointer, null or to the one live report (`"live"`); length, offset and
  instance are the same in all elements or unused.
- `live` is `*keyboard_report`; a report is an opaque value.
- `link`, `secure`, `cccd`, `timedOut`, `txq`, `events` are the SoftDevice, and
  external.  `sd_ble_gatts_hvx` may return any of the errors its header
  documents for that state (`HvxErrors`); NRF_ERROR_INVALID_STATE stands for
  BLE_ERROR_GATTS_SYS_ATTR_MISSING too, and NRF_ERROR_BUSY (the attribute is
  being written) is not produced: keys_send treats the three alike.
- `sd_ble_gap_phy_update` may return any result its header documents for the
  state of the link (`PhyUpdateResults`): NRF_ERROR_BUSY on any link that is
  there.  The header asks to wait for the pending procedure and retry
  (`ble_gap.h:2109` of S112); `ble_evt_handler` restarts the device
  (`ble_service.c:1056`), also on a good link.  When the SoftDevice is busy
  cannot be told from the code, so the model allows it at any request, and
  `HealthyLinkRestartsOnlyWhenBusy` says that this is the only refusal by which
  `keys_send` and `ble_evt_handler` restart on a good link.
- The comparison with `actual_len`, never written, goes either way: `KeyQueued`
  and `KeyDropped`, `DequeueKept` and `DequeueDropped` are all possible after
  NRF_ERROR_RESOURCES.
- `promise` is history: whether the present report was accepted (`"kept"`), is
  owed by an element of the list (`"pending"`), or was given up (`"none"`).
  `"none"` is what the code promises nothing about: no link, notifications off,
  an MTU exchange, a mode change, the dropped element of the line above.

What is left out: indications and other notifications (battery level), the
output report, queued writes, the negotiation of connection parameters
(`ble_conn_params.c`: its error handler restarts the device when
`sd_ble_gap_conn_param_update` is refused, except as busy, which a timer that
expires after the link is gone or a SoftDevice without memory can bring about),
the advertising between two links (a new link is made once DISCONNECTED has been
handled, which is when advertising restarts).

### ReportChannel

What the report path promises: a FIFO of bounded capacity into which the
report is put as it stands, at the key event or later; the host sees what comes
out or ignores it; a lost link empties it and releases all keys.  `HidLink`
implements it with `chan` the reports of the transmit queue and `view` the
report the host acts on.

### Keyboard

`keyboard_task` runs to its end, but the world moves meanwhile, so it is cut
where the outside matters: `ScanRow` reads one row, `EndScan` counts down and
takes over, `KeyEvent(p)` is one event with everything it calls, up to the report
handed to the driver, and `EndTask` is the tick.  `Toggle(p)` is a switch that
opens or closes at any moment, a bounce included.  `process_action` is what the
actions of the keymap need: `ACT_LMODS` with no modifiers, a key or a modifier
code.  `action_tapping_process` passes every such event on at once
(`action_tapping.c:274-284`): the tapping state is never entered, which is the
theorem `PlainKeymapNeverWaits` of `TappingProofs`.

`lastScan`, `steady` (what whole scans read) and `overflowed` (a key found no
slot) are history.

`Keyboard` ends where `HidLink` begins: `reported` is the value `live` takes.

### Firmware

`HidLink` extended with an instance `K` of `Keyboard`.  `PassOn` is
`host_keyboard_send` and `kb_send_report`: a key event of the keyboard is in the
same step a `KeyEvent` of the link.  `ScanTask` and the poll share the main loop:
a poll is a scheduled event of its own and runs between two tasks only
(`BetweenTasks`), while SoftDevice and fingers (`Outside`, `Fingers`) act at any
time, in the middle of a task too.  `FwRestart` resets both parts; the switches
stay, so keys held over a restart are pressed again.

### Tapping

`action_tapping_process` offers the new record to `process_tapping` and then the
waiting ones in order, until one has to wait on.  Each branch of
`process_tapping` is an action, and what it returns is `Consumed` (true) or
`Retained` (false), which also enqueue, clear a full buffer, and go on or stop.
`Record` is the record being offered, `event` or the head of `waiting_buffer`.
A report is a pair of sets; its slots are in `Keyboard`.

- `KeyEvent(k)` is a changed key of a scan, in the order of the scan and at most
  once in each; `Tick` is the event that ends every `keyboard_task`.
- `PassTime` is a period of the scan timer.  The task it puts into the
  scheduler's queue may run late: `wait_ms(100)` at `action.c:171` holds the main
  loop up for ten periods.
- `timer_read` is taken modulo 0xFFFF and compared by a 16-bit difference
  (`Within`), above a counter that wraps on its own: `TIME_RANGE` and
  `COUNTER_RANGE` keep both wraps.  Times are in scan periods, so bit 0, which
  the code sets to have no time 0, is not there.
- `forgotten` (held when the buffer overflowed) and `overtaken` are history.  A key is
  overtaken when an event of it is settled before an earlier one, which waits: a
  new event is acted on first (point 6 of section 3), or the scan of the buffer
  (`waiting_buffer_scan_tap`) settles a release as a tap while an earlier release
  of the key is ahead of it (`SettledAhead`).
- `SettledAhead` needs a clock that jumps inside a term.  When the counter below
  wraps, `timer_read` steps back by 16 ms (2^20 modulo 65,535), and a key's own
  release can seem to lie before its press, hence further away than the term; the
  scan then takes the release of a later press of the key.  The first release is
  acted on as a tap's and lets go of the code; the second press, whose release is
  out of its term, is settled as held and shows the modifier; and the second
  release, which carries a count, takes back the code instead of the modifier,
  which sticks.  TLC finds it with two tap keys, a term of two
  periods, `TIME_RANGE` 5, `COUNTER_RANGE` 6 and the buffer of the code: there
  `SettledAhead(waiting_buffer) = {}` is violated.  In the instance of the run it
  holds, which is too small for it; the theorems cover both cases.

Layers, one-shot modifiers and the branch for `TAPPING_TERM >= 500` are compiled
out or reached from no key.  No key of `keymap_plain.c` is a tap key: the
module is about what the compiled code does under a keymap that has some.

### Advertising

One action is one handler of the main loop: `OnConnected`, `OnBonded`, `OnPaired`,
`OnEncrypted`, `OnDisconnected`, `OnTerminated` for BLE events, `OnBondStored` for
the Peer Manager's report that a bond is in flash, which sets the whitelist.
`Boot` is `main` up to `advertising_start`.  A refused call whose result goes to
`APP_ERROR_CHECK` is `Fail`: the device restarts.  `HostConnects`, `LinkEnds`,
`AdvertisingTimesOut`, `HostPairs`, `HostEncrypts`, `FlashWrite` are the SoftDevice, the
hosts and the flash, and external, as is `Reset`.

- A bond is in `owner` when made, in `stored` when written, and leaves `unreported`
  when its write has been reported.  A restart keeps what is in `stored`.
- `m_peer_id` is the peer of the link that was last secured, 0 at the start.
- Directed advertising is tried first, then fast, then slow, then System OFF.
  Low duty directed advertising is disabled in `advertising_init`.
- `resolvable` (peers with central address resolution data) is any subset of
  the stored peers.
- `early` and `raced` are history: a host connected through unfiltered advertising
  that began while a bond had not been reported.  The firmware does not prevent
  that: the link is lost after the bond was made and before it is reported, so
  there is no whitelist yet.  What follows is in the model and excluded from
  `OneBond` and `NoFault`: a second host can bond; `pm_whitelist_set` is refused
  while the whitelist is in use, and the device restarts; the same host, not
  recognised, can bond twice, and with two bonds of one identity in flash
  `identities_set` is refused at every start, so `Boot` ends in `"restarting"`
  again and again.

### Battery

`TimerHandler`, `Sample` and `Trigger` are `battery_level_meas_timeout_handler` cut
where the ADC's interrupt can come: after the test of `saadc_initialized`, and
between `nrfx_saadc_sample`'s test of the state and its task.  `ConversionEnds` is
the ADC, `Interrupt` its handler with `adc_evt_cb`, which closes the driver and
clears the flag.  The driver runs in its normal mode (`SAADC_CONFIG_LP_MODE` 0);
its state and `adc_state` are one variable.  `Tick` is the one-second timer; a
sample takes microseconds, so none is under way when it comes.  `late` is
history: a timeout came before the previous one was dealt with.  Only then can
a call be refused (`Refused`), which restarts the keyboard.

### Device

`Advertising` and `Battery` share the main loop, which runs one handler at a
time, and the restart: a refused call of either takes the other with it, and
System OFF ends the measurement (`BatteryFollows`, `ResetPin`).

### Scheduler

Timer expirations (`timer_expire` of `app_timer2.c`) and SoftDevice events
(`SD_EVT_IRQHandler` of `nrf_sdh.c`, as `NRF_SDH_DISPATCH_MODEL` selects) reach the
main loop through the ring of `app_scheduler.c`.  `Interrupt(l, e)` is an
interrupt handler of priority `l` that calls `app_sched_event_put`; `Reserve(l)`
is the critical region and `Fill(l)` the writing of the entry and the return.  A
more urgent handler may begin before, between and after.  `ExecuteBegin` and
`ExecuteEnd` are an iteration of `app_sched_execute` before and after the call of
the event handler, `Idle` and `Wake` the rest of `idle_state_handle`.  The main
loop moves only when no interrupt handler runs.  An entry stands for the header
and the data.  All callers hand `NRF_ERROR_NO_MEM` to `APP_ERROR_CHECK`, which
restarts the device (`fault`, `Restart`); `NRF_ERROR_INVALID_LENGTH` cannot occur,
the largest event being what `SCHED_MAX_EVENT_DATA_SIZE` is defined as.

In this firmware both interrupts that put have priority 6
(`APP_TIMER_CONFIG_IRQ_PRIORITY`, and the SoftDevice's event interrupt), so they do
not nest; `Levels` with more than one element is the module's own contract.

### EventQueue

What the scheduler promises: a FIFO of bounded capacity; the main loop begins
the first event, and the event leaves when its handler has returned.
`Scheduler` implements it with the queue of the entries between the indices,
where a reserved entry counts as holding the event it is about to be given.

## 3. Runs

| run | checks | result |
|---|---|---|
| `HidLink` | type, `ListConsistent`, `NeverStranded`, `HostConverges`, `HealthyLinkRestartsOnlyWhenBusy`, `BufferedOnlyForRoom`, `ImplementsChannel`, `PendingIsResolved` | hold, 631,176 states |
| `Keyboard` | type, `NoStuckKey`, `NoLostKey`, `TakenOverSteady`, `Settles` | hold, 579,168 states |
| `Firmware` | type, `HostShowsHeld`, `ReachesHost` | hold, 637,916 states |
| `Scheduler` | type, `RunningEntryIntact`, `SleepsOnlyWhenDone`, `RefusesOnlyWhenFull`, `ImplementsEventQueue`, `EveryEventRuns` | hold, 131,306 states |
| `Tapping` | type, `NoStuckKey`, `NoLostKey`, `FirstTapIsLetGo`, `TapSettles` | hold, some 436,000 states |
| `Device` | type, `NeverSilent`, `KnownHostsAdmitted`, `DirectedAtBonded`, `OneBond`, `NoFault`, `AdcRefusedOnlyWhenLate`, `SleepsOnlyAfterSlow`, `FindsHostOrSleeps`, `Measures` | hold, 329,510 states |
| `ListOverflow` | `ListWithinCapacity` | violated |
| `DisconnectKeeps` | `DisconnectEmptiesList` | violated |
| `StaleBootMode` | `BootModeIsCurrent` | violated |
| `QueuedPointer` | `QueuedDataIsACopy` | violated |
| `UnwrittenLength` | `RefusedReportIsBuffered` | violated |
| `TapRepeats` | `NoUnexpectedRepeat` | violated |

Bounds.  `HidLink`: two reports, a list of two slots, a transmit queue of one
(the SoftDevice's default), two recorded events.  Two slots are enough for every
wrap, for the element too many and for a slot overwritten; with three elements in
two slots both indices have gone round.  Two reports suffice because the code
never looks into one.  `MaxEvents` is the only artificial bound: it delays the
SoftDevice, which the fairness takes into account.  `Keyboard`: two rows, two
columns, three keys for two slots and a modifier in the second row; `DEBOUNCE` 2
is the least for which a scan can be interrupted by a bounce.  `Scheduler`: three
priorities, so that two puts can be preempted at a time, and a queue of three
events, which those three puts can fill; two events suffice to tell orders apart
and a stale entry from a filled one.  There is no artificial bound.  `Firmware`: one
key, one recorded event, and a list of two slots, since the two parts have been
checked with more on their own; two keys for one slot of the report and a
list of one slot keep `HostShowsHeld` as well (3,827,264 states, without the
temporal property), and the proof is for every size.  `Tapping`: two
tap keys around a plain key, so that each of them can be scanned before and
after the other kind; a term of one period, clocks that wrap at four periods,
which is more than twice the term as in the code (200 ms of 65 s); a buffer that
holds four records and overflows; a count that reaches its limit of two; and
one task waiting behind the one that runs (`MAX_TASKS`, the only artificial
bound).  With `MAX_TASKS` 1 `NoUnexpectedRepeat`
was not violated in any instance tried.  `TapRepeats` has a modifier as well and
the buffer of the code.  `Device`: two hosts, since all others are alike; two peer
ids, which `MAX_PEERS` bounds and a bond of each host, or two of one host, use up
(`Advertising` with three, 227,030 states, behaves alike); a buffer of two samples,
the least for which no single timeout fills it; two waiting timeouts, the least
that can be late.  The run may stop (`CHECK_DEADLOCK FALSE`): after System OFF
nothing need happen, and two bonds of one host restart for ever.

Fairness.  `HidLink`: the main loop is woken by every event and polls until
none is left (`WF` of `PollBegin`, `HandleEvent`, `PollEnd`), a reset restarts
(`WF` of `Restart`), and a notification on its way is either transmitted or the
supervision timeout ends the link (`SF` of `Radio`; strong because the bound on
events disables it again and again, which the real SoftDevice's queue does not).
Nothing is assumed of keys, of the host, or of a link that is idle.  `Keyboard`:
the scan timer repeats and the task does not wait (`WF` of `Task`); nothing is
assumed of the switches.  `Settles` is about runs in which they come to rest.
`Scheduler`: the processor does not stop in an interrupt handler or in the main
loop (`WF` of `InterruptHandlers` and `MainLoop`); interrupts that put fill the
queue if they never let the main loop run, so no strong fairness is needed.
Nothing is assumed of interrupts: the device may sleep for ever.
`Firmware`: as its parts; the poll needs strong fairness (`SF` of its `PollBegin`)
because the task takes the main loop from it again and again, and gets it
because the scheduler's queue is first in, first out.  `ReachesHost` is about
runs in which the fingers come to rest and the link stays in order.  `Tapping`:
the records are worked off and tasks end (`WF` of `process_tapping`, `Tick`), and
time goes on whatever the main loop does (`SF` of `PassTime`, strong because
`MAX_TASKS` disables it).  `Device`: every advertising mode has a duration (`WF` of
`AdvertisingTimesOut`), the timer repeats, the ADC converts and interrupts, a
reset restarts (`WF`), and a BLE handler gets its turn although battery handlers
come between (`SF` of `MainLoopHandler`, again the queue).  Nothing is assumed of
hosts, links, the flash and resets.

What the violations show:

1. `BUFFER_LIST_FULL` (`ble_service.c:114`) compares with `count - 1`: a list of
   five accepts six.  `ListConsistent` and the proofs show how far the damage
   goes: the sixth overwrites the pointer of the oldest slot, all pointers are
   equal anyway, and the last element removed finds its slot null, is refused
   and dropped.  The host still converges.
2. A disconnection removes one element of the list (`ble_service.c:1038`), the
   others are sent to the next host, as the report then is.
3. `m_in_boot_mode` survives the link that set it.
4. The list keeps pointers, not copies: what was pressed and released while
   waiting is never shown.  This is also why `HostConverges` holds at all: an
   element sent late carries the present report.
5. `actual_len` is never written; a refused report may be dropped.
6. The loop over the waiting buffer stops at a record for which
   `process_tapping` returns false, also when that record has just ended the
   tapping (the term has run out).  It stays in the buffer, although nothing is
   undecided any more, until the tick at the end of the task; a new event of its
   key overtakes it, so a release is acted on before its press and the host
   repeats the key, against the comment at `action_tapping.c:112`.  It takes a
   main loop that is late by a period.  The next press and release of the key
   clear it: `NoStuckKey` says that no other key can stick.

## 4. Proofs

All theorems hold for every value of the constants under the assumptions in the
modules (`HidLinkAssumption`: `NoKeys` is a report, the three sizes are positive;
`KeyboardAssumption`: sizes positive, `DEBOUNCE` a natural number, modifiers are
codes; `KeymapAssumption`: no code has two positions, which is so in
`keymap_plain.c`; `SchedulerAssumption`: priorities are natural numbers, the
queue size is positive and its indices fit a `uint8_t`; `TappingAssumption`: tap
keys, modifiers and plain keys are disjoint, sizes and the term positive, a time
can be further away than the term; `KeymapAssumption` of `Tapping`: no code has two
positions and no modifier has, not even that of a tap key and a plain one, since
the release of one would take back what the other shows; `AdvertisingAssumption` and
`BatteryAssumption`: sizes positive; `ReportAssumption` of `Firmware`: the reports of the
link are those of the keyboard).  No assumption restricts the behaviour.

`HidLinkProofs`.  The inductive invariant is `TypeOK`, `ListConsistent`,
`NeverStranded` and two more facts.  `DisconnectMeansDown`: while DISCONNECTED
waits there is no link; without it the handler could run on a later link.
`KeptReport` is what makes `HostConverges` inductive: if the present report was
accepted, the last notification on its way is that report on the application's
characteristic, and if none is on its way the host has it, unless it changed the
mode.  `ListConsistent` needs the three cases of `rp + count - wp` (none, one or
two times the size) because of the element too many.  Theorems: `TypeCorrect`,
`ListStaysConsistent`, `WaitingReportIsNeverStranded`, `HostAgreesWhenQuiet`,
`OnlyBusyRestartsHealthyLink`, `ListGrowsOnlyForRoom`, and `LinkImplementsChannel`:
each step maps to a step of the channel or to a stutter.

`KeyboardProofs`.  The invariant is `TypeOK` with `ScanCounted` (rows not yet
reached are as the last scan read them, and as long as no row differs
`debouncing + steady = DEBOUNCE`), `SlotsHeld` (the driver has the present
report; modifiers are exactly those held; each slot has a held key, no key two
slots) and `HeldHasSlot` (until one found none, each held key has a slot).
`NoStuckKey` alone is not inductive: it does not say that the report and the
slots are the same.  Theorems: `TypeCorrect`, `NoKeySticks`, `NoKeyIsLost`,
`BouncesAreFiltered`, and `NoDebounceNoKeys`.

`SchedulerProofs`.  The invariant is `TypeOK` with `ReservedOnce` (a reserved entry
lies between the indices and belongs to one handler), `FilledElsewhere` (the
other entries between them are filled), `RunsFirst` (the event handler that runs
is that of the first entry, which is not reserved), `WokenUp` and `RefusedFull`.
`RunningEntryIntact` alone is not inductive: it needs that no reserved entry is
the first.  The lemmas on the ring say what advancing an index does to the
entries between, to the length and to each place.  `EventsKnown` gets around
the `CHOOSE` of the refinement mapping.  Theorems: `TypeCorrect`,
`RunningEntryStays`, `NoMissedWakeUp`, `RefusedWhenFull`, and
`SchedulerImplementsQueue`: `Reserve` is the put, `Fill` and `Interrupt` stutter.

`FirmwareProofs`.  The invariant is that of `HidLink`, that of `Keyboard` and `Joined`
(the link's report is the keyboard's, and no poll finds a task half done).  The
lemmas of `KeyboardProofs` are used through an instance, with its assumptions
discharged; only the restart is new for the keyboard.  Every step is then a
step of `HidLink` or a stutter (`FirmwareIsLink`), so all that is proved of the
link holds of the firmware, and `HostShowsWhatIsHeld` joins `HostConverges` to what
the slots of the report hold.  `FwTypeCorrect` is the third theorem.

`TappingProofs`.  The invariant is `TypeOK`, `FirstTapIsLetGo` and `PressesAreFresh`: no
press that is offered or waits carries a tap count, so that a first tap can only come
from a release, which then waits.  `ConsumedKeeps` and `RetainedKeeps` do the
two results once, for the branches to cite.  Theorems: `TypeCorrect`, `FirstTapLetGo`,
and `PlainKeymapNeverWaits`: without tap keys nothing ever waits, on which `Keyboard`
relies.

`TappingReportProofs`.  `NoStuckKey` and `NoLostKey` say nothing of what waits, so the
invariant, `KeysInv`, follows the events of each key through the `Queue`: the waiting
buffer and the event that is offered.  For a plain key or a modifier (`PlainInv`)
the last event in the queue is what the scan found last, the key is shown only if
it is held or its release is in the queue, and it is shown if it is held and nothing
of it is in the queue.  For a tap key (`TapKeyInv`) presses and releases take turns
(`Alternate`), only the next event can be a release settled as a tap
(`OnlyNextSettled`), and `Shows` ties the report to what comes next: nothing is shown of
a key that is let up (`LetUp`: its next event is a press, or it has none and is not
held); if its next event is a release settled as a tap (`TapNext`) its modifier is not
shown, otherwise its code is not, unless it is the key that is tapped.  So the release takes back
what the press has put there, which is what `process_action` decides from `count`.
The proof has three layers.  Lemmas on sequences say what taking out a
record, changing counts and appending do to `First`, `Alternate`, `EndsWith`, `LetUp` and
`TapNext`; that there is a first event at all comes from the well-foundedness of the order of
the places.  `ConsumedKeys` and `RetainedKeys` say once what a branch of
`process_tapping` has to show (`PlainConsumed`, `TapConsumed`, `TapRetained`), and a lemma
for each branch shows it.  Keys that were overtaken are exempt; a plain key is
exempt until its next press.  TLC has checked `KeysInv` on the instance of the run,
on one with a modifier, and in part on the one of the clock jump.  Theorems: `NoKeySticks`,
`NoPlainKeyIsLost`, and `PlainKeymapShowsHeldKeys`: without tap keys nothing is overtaken
or forgotten, and between two events the report shows exactly what is held.

`AdvertisingProofs`.  The invariant is `AdvTypeOK`, `Shape`, `ListInv` and `BondInv`.
`Shape` says which events can wait beside which state of link and advertising; without
it a handler could start advertising on a live link.  `ListInv` says which bonds the
whitelist holds and what the parameters of the advertising under way are.  `BondInv` says
that short of a race one peer id at most is in use, that a host no bond
belongs to is connected or about to be only if there is no bond, and that nothing
has been refused; `OneBond` alone does not exclude that a second host is
already on its way to bond.  Theorems: `AdvTypeCorrect`, `NeverFallsSilent`,
`KnownHostsLetIn`, `DirectedToBond`, `OneBondOnly`, `NothingRefused`, `SleepIsLast`.

`DeviceProofs`.  `DeviceAdvertises`: the device implements `Advertising`, the battery's
steps being stutters or resets, so all of the above holds of it (`DeviceSafe`).  The
battery's invariant is `BatteryTypeOK`, `Agree` (flag and driver), `Room` (a full buffer
has raised its interrupt) and `InTime` (unless a timeout was late, no conversion is
under way while one waits); `AdcInTime` and `TypeCorrect` follow.

Only model-checked: `PendingIsResolved`, `Settles`, `EveryEventRuns`, `ReachesHost`,
`TapSettles`, `FindsHostOrSleeps` and `Measures`, being liveness under fairness, which is
out of the prover's reach; and the six violations.  Every invariant and every
action property that a passing run checks is a theorem.

## 5. Not modelled

- `command.c`, `bootmagic.c`, `mousekey.c`, `backlight.c`, `action_macro.c`: not
  compiled, or reached by no key of the keymap.  LED, bootloader and log: empty
  functions and output.
- Of the Peer Manager: deletion of bonds (`erase_bonds` is always `false`), the
  cleaning of a full flash, an interrupted garbage collection, ranks, GATT caches, more than eight
  bonds, hosts without an identity address.
  `advertising_start` without the whitelist (`ble_advertising_restart_without_whitelist`)
  is called by nobody.
- The voltage and the percentage of the battery.
- The output report (Caps Lock), which is only logged, and battery notifications.
- Set-up functions, beyond the state they leave.
- The vendored SDK, beyond what the modules take from it step by step.  It is
  all but a few thousand of the repository's 718,574 lines, most of them
  register definitions, configuration headers and drivers this firmware does
  not use: the definitions of this project cover a small share of the lines of the
  repository, and nearly all of the firmware's own that keep state.
