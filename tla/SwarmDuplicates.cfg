\* Two subtasks of one id.
CONSTANTS
  Size = 3
  Id = {1, 2, 3, 4}
  t1 = t1
  t2 = t2
  NoTest = NoTest
  Test <- Tests
  OwnTest <- Owned
  Boards <- DuplicateBoards
  Configs <- PlainConfig
SPECIFICATION FairSpec
CHECK_DEADLOCK FALSE
PROPERTIES
  Termination
