SPECIFICATION FairSpec
CONSTANTS
  Thread = {main, idle, t1}
  Main = main
  Idle = idle
  None = None
  Null = Null
  File = {"tty"}
  Requests = {"now", "tty"}
  QueueBound = 2
  IdModulus = 3
  Endings = {"Terminate", "Crash"}
INVARIANTS NoCopyToNull EachRequestInOnePlace NoReplyForgotten NoRequestForgotten
PROPERTIES ImplementsFileService RequestAnswered ChildExits
CHECK_DEADLOCK FALSE
