\* Two requests, two repositories, two daemons, a clock that only moves forward.
CONSTANTS
  RequestId = {1, 2}
  Repo = {r1, r2}
  Label = {d1, d2}
  Filer = {ann}
  SpecText = {s1, s2}
  NoRepo = NoRepo
  NoOne = NoOne
  NoSpec = NoSpec
  NoPage = NoPage
  NotHeld = NotHeld
  ClaimTimeout = 2
  Window = 1
  MaxDailyFilings = 1
  MaxDailyDrafts = 1
  ScreenBatch = 1
  MaxClock = 2
  ClockSteps <- Forward
  MayRestart = TRUE
  MayToggle = TRUE
SPECIFICATION Spec
SYMMETRY Interchangeable
INVARIANTS
  TypeOK
  OneClaimPerRepo
  RecordsCoherent
  VerdictIsCurrent
  FilingCap
PROPERTIES
  Lifecycle
  ImplementsWorkQueue
  AcceptedIsSettled
  AcceptedWasShown
  ImplementsLease
CHECK_DEADLOCK FALSE
