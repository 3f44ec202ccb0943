\* Two requests of one repository against a budget of one.
CONSTANTS
  RequestId = {1, 2}
  Repo = {r1}
  Label = {d1}
  Filer = {ann}
  SpecText = {s1}
  NoRepo = NoRepo
  NoOne = NoOne
  NoSpec = NoSpec
  NoPage = NoPage
  NotHeld = NotHeld
  ClaimTimeout = 2
  Window = 2
  MaxDailyFilings = 2
  MaxDailyDrafts = 1
  ScreenBatch = 1
  MaxClock = 2
  ClockSteps = {1}
  MayRestart = FALSE
  MayToggle = FALSE
SPECIFICATION CountingSpec
CHECK_DEADLOCK FALSE
INVARIANTS
  ReadmissionsWithinCap
