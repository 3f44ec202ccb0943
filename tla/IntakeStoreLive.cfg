\* Progress: screening stays configured and the server is up for good.
CONSTANTS
  RequestId = {1, 2}
  Repo = {r1}
  Label = {d1}
  Filer = {ann}
  SpecText = {s1}
  NoRepo = NoRepo
  NoOne = NoOne
  NoSpec = NoSpec
  NoPage = NoPage
  NotHeld = NotHeld
  ClaimTimeout = 2
  Window = 2
  MaxDailyFilings = 2
  MaxDailyDrafts = 1
  ScreenBatch = 1
  MaxClock = 2
  ClockSteps <- Forward
  MayRestart = FALSE
  MayToggle = FALSE
SPECIFICATION FairSpec
CHECK_DEADLOCK FALSE
PROPERTIES
  EveryClaimEnds
  ScreeningEnds
