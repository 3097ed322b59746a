SPECIFICATION Spec
CONSTANTS
  MaxThread = 2
  MaxMutex = 0
  Calls = {"Create","Activate","TerminateSelf","TerminateOther","File","MutexCreate","AcquireForever","AcquireTimed","Release"}
  Priorities = {3}
  Timeouts = {1}
  FreshFlags = {FALSE, TRUE}
  MaxEntries = 2
  MaxWaiters = 2
  MaxListed = 2
  MaxPending = 1
INVARIANTS FreeMutexHasNoWaiters EntryHasOwner
PROPERTIES SwitchPicksHighest UnlistedDeadStayDead OwnerLosesOnlyByRelease
