SPECIFICATION Spec
CONSTANTS
  PROCS_MAX = 4
  NumImages = 4
  Vals = {0, 1}
  r1 = r1
  r2 = r2
  Rest = {r1, r2}
  Traps <- MCTraps
  MaxInput = 1
INVARIANTS
  TypeOK
  ResumeIntact
  RunsAsItself
  StackBounded
  ExitIsFinal
  HaltsOnlyWhenDone
PROPERTIES
  NoOvertaking
  EveryoneGetsATurn
