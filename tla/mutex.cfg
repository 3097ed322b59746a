SPECIFICATION Spec
CONSTANTS
  MaxThread = 3
  MaxMutex = 1
  Calls = {"Create","Activate","Yield","MutexCreate","MutexDelete","AcquireForever","AcquireNow","Release"}
  Priorities = {1, 3}
  Timeouts = {1}
  FreshFlags = {FALSE}
  MaxEntries = 3
  MaxWaiters = 3
  MaxListed = 4
  MaxPending = 1
INVARIANTS FreeMutexHasNoWaiters EntryHasOwner ThreadsPlaced MutualExclusion ForeverSleeperIsQueued InfiniteAcquireSucceeds
PROPERTIES ImplementsLock
