SPECIFICATION ReleasingSpec
CONSTANTS
  MaxThread = 3
  MaxMutex = 0
  Calls = {"Create","Activate","Yield","MutexCreate","AcquireForever","Release"}
  Priorities = {2}
  Timeouts = {1}
  FreshFlags = {FALSE}
  MaxEntries = 1
  MaxWaiters = 2
  MaxListed = 4
  MaxPending = 1
PROPERTIES WaiterIsServed
