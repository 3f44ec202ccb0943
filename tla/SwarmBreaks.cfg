\* A merge that stops the suite from building.
CONSTANTS
  Size = 3
  Id = {1, 2, 3, 4}
  t1 = t1
  t2 = t2
  NoTest = NoTest
  Test <- Tests
  OwnTest <- Owned
  Boards <- TellingBoards
  Configs <- PlainConfig
SPECIFICATION Spec
CHECK_DEADLOCK FALSE
PROPERTIES
  BreakageNeverLands
