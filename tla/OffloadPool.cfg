SPECIFICATION Spec
CONSTANTS
  main = main
  child = child
  join1 = join1
  join2 = join2
  call = call
  Actors = {main, child}
  Children = {child}
  Jobs = {join1, join2, call}
  Owner <- MCOwner
  Target <- MCTarget
  Panicky = {call}
  Cap = 3
  MaxSpurious = 1
INVARIANTS
  SurplusHasAWorker
  NobodySleepsThroughNews
  OneJoinGetsTheOutcome
PROPERTIES
  ImplementsJobService
