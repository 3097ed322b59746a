SPECIFICATION Spec
CONSTANTS
  Thread = {main, idle, t1, t2}
  Main = main
  Idle = idle
  None = None
  Null = Null
  File = {"tty"}
  Requests = {"now", "tty"}
  QueueBound = 1
  IdModulus = 5
  Endings = {}
INVARIANTS TypeOK NeverBothBlocked
SYMMETRY Callers
