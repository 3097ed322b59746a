SPECIFICATION Spec
CONSTANTS
  MaxThread = 2
  MaxMutex = 1
  Calls = {"Create","Activate","Sleep","MutexCreate","AcquireForever","AcquireTimed","Reacquire","Release","ReleaseUnowned"}
  Priorities = {1, 3}
  Timeouts = {1}
  FreshFlags = {FALSE}
  MaxEntries = 2
  MaxWaiters = 3
  MaxListed = 3
  MaxPending = 1
INVARIANTS EntryHasOwner ThreadsPlaced ForeverSleeperIsQueued InfiniteAcquireUnlessStale SleepCutOnlyByMutex

