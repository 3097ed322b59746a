SPECIFICATION FinishingSpec
CONSTANTS
  MaxThread = 3
  MaxMutex = 0
  Calls = {"Create","Activate","Sleep","File"}
  Priorities = {2}
  Timeouts = {1}
  FreshFlags = {FALSE}
  MaxEntries = 1
  MaxWaiters = 1
  MaxListed = 4
  MaxPending = 1
PROPERTIES FileCallerWakes
