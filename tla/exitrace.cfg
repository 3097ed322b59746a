SPECIFICATION ExitSpec
CONSTANTS
  MaxThread = 3
  MaxMutex = 0
  Calls = {"Create","Activate","MutexCreate","AcquireForever","Release"}
  Priorities = {2}
  Timeouts = {1}
  FreshFlags = {FALSE}
  MaxEntries = 1
  MaxWaiters = 1
  MaxListed = 4
  MaxPending = 1
INVARIANTS FreeMutexHasNoWaiters
