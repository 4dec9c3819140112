CONSTANTS
  idle = idle
  a = a
  NoKeys = idle
  Reports <- MCReports
  MAX_BUFFER_ENTRIES = 2
  TxQueueSize = 1
  MaxEvents = 2
SPECIFICATION Spec
INVARIANT ListWithinCapacity
