SPECIFICATION Spec
CONSTANTS
  MaxThread = 2
  MaxMutex = 0
  Calls = {"Create","Activate","TerminateOther","MutexCreate","AcquireForever","Release"}
  Priorities = {2}
  Timeouts = {1}
  FreshFlags = {FALSE}
  MaxEntries = 2
  MaxWaiters = 3
  MaxListed = 3
  MaxPending = 1
INVARIANTS MutualExclusion

