\* Boards of three subtasks under twelve settings; a run ends for good.
CONSTANTS
  Size = 3
  Id = {1, 2, 3, 4}
  t1 = t1
  t2 = t2
  NoTest = NoTest
  Test <- Tests
  OwnTest <- Owned
  Boards <- TellingBoards
  Configs <- AllConfigs
SPECIFICATION FairSpec
CHECK_DEADLOCK FALSE
INVARIANTS
  TypeOK
  DepsHonoured
  HonestEnd
PROPERTIES
  DoneIsGreen
  WorkShrinks
  ImplementsScheduler
  Termination
