\* A retry that review asked for and that lands with the tests failing, in a
\* suite that builds throughout.
CONSTANTS
  Size = 3
  Id = {1, 2, 3, 4}
  t1 = t1
  t2 = t2
  NoTest = NoTest
  Test <- Tests
  OwnTest <- Owned
  Boards <- TellingBoards
  Configs <- OneConfig
SPECIFICATION Spec
CONSTRAINT Builds
CHECK_DEADLOCK FALSE
PROPERTIES
  KeptIsGreen
