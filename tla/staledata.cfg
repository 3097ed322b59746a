SPECIFICATION Spec
CONSTANTS
  Thread = {main, idle, t1}
  Main = main
  Idle = idle
  None = None
  Null = Null
  File = {"tty"}
  Requests = {"now", "tty"}
  QueueBound = 2
  IdModulus = 3
  Endings = {}
INVARIANTS ReadDataIsCopied
CHECK_DEADLOCK FALSE
