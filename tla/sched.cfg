SPECIFICATION Spec
CONSTANTS
  MaxThread = 3
  MaxMutex = 0
  Calls = {"Create","Activate","Delete","TerminateSelf","Sleep","Yield","File"}
  Priorities = {1, 2, 3}
  Timeouts = {1, 2}
  FreshFlags = {FALSE}
  MaxEntries = 2
  MaxWaiters = 2
  MaxListed = 4
  MaxPending = 1
INVARIANTS TypeOK ThreadsPlaced FileResultHasArrived SleepIsNotCutShort ApplicationIsPreemptible
PROPERTIES UsesFileService SwitchPicksHighest DeadUntilActivated
