\* A discard against the screening thread.
CONSTANTS
  RequestId = {1}
  Repo = {r1}
  Label = {d1}
  Filer = {ann}
  SpecText = {s1}
  NoRepo = NoRepo
  NoOne = NoOne
  NoSpec = NoSpec
  NoPage = NoPage
  NotHeld = NotHeld
  ClaimTimeout = 2
  Window = 3
  MaxDailyFilings = 2
  MaxDailyDrafts = 1
  ScreenBatch = 1
  MaxClock = 1
  ClockSteps <- Forward
  MayRestart = FALSE
  MayToggle = FALSE
SPECIFICATION Spec
CHECK_DEADLOCK FALSE
PROPERTIES
  DiscardIsFinal
