CONSTANTS
  keyboard_scan_handler = keyboard_scan_handler
  appsh_events_poll = appsh_events_poll
  Events <- MCEvents
  NoEvent = NoEvent
  Levels = {5, 6, 7}
  m_queue_size = 3
SPECIFICATION FairSpec
INVARIANTS TypeOK RunningEntryIntact SleepsOnlyWhenDone RefusesOnlyWhenFull
PROPERTIES ImplementsEventQueue EveryEventRuns
