\* Two runs, three phases, two texts of the first, any pause and any crash.
CONSTANTS
  Runs = {r1, r2}
  x = x
  y = y
  other = other
  Tasks = {x, y, other}
  Alike <- TwoAlike
  Needs <- AllBefore
  Modes <- BothModes
  Last = 3
  Breakdown = 2
  this = this
  that = that
  Text = {this, that}
  Says <- TwoSpecs
  Plans = {that}
  Expiry = 0
  MaxSaves = 5
  NoRun = NoRun
  NoTask = NoTask
  NoText = NoText
SPECIFICATION Spec
CONSTRAINT Bounds
SYMMETRY Symmetric
INVARIANTS
  TypeOK
  OneFreshHolder
  StaleSavesRefused
  PlanCoherent
PROPERTIES
  OnlyGateApproves
  ImplementsPlan
