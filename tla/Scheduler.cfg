SPECIFICATION FairSpec
CONSTANTS
  Runners = {r1, r2}
  Posters = {p}
  task_operation_ = task_operation_
  NoOp = NoOp
  Invoker = Invoker
  Timers = {timerA, timerB}
  Write = Write
  Lambdas = {x1, x2, x3}
  Limit = 2
INVARIANTS StrandHasOneHolder QueuedOpIsSeen ReturnsWhenDone CountIsExact
PROPERTIES HandlersGetDone ImplementsPool
CHECK_DEADLOCK FALSE
