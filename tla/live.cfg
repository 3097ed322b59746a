SPECIFICATION FairSpec
CONSTANTS
  MaxThread = 3
  MaxMutex = 0
  Calls = {"Create","Activate","TerminateSelf","Sleep","File"}
  Priorities = {3}
  Timeouts = {1}
  FreshFlags = {FALSE}
  MaxEntries = 1
  MaxWaiters = 1
  MaxListed = 4
  MaxPending = 1
PROPERTIES SleeperWakes AnsweredFileCallerWakes HighThreadRuns MachineStops
