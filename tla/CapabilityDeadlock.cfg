SPECIFICATION LSpec
CONSTANTS
  Workers = {w1, w2}
  MainLoop = main
  Commands <- AllCommands
  Free = Free
  Idle = Idle
INVARIANT EngineIsReleased
CHECK_DEADLOCK FALSE
