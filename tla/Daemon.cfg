\* Two requests of one directory, of alike first lines or not, one from afar.
CONSTANTS
  Requests = {1, 2}
  Remote = {1}
  l = l
  k = k
  m = m
  Lines = {l, k, m}
  Alike <- Continues
  Layouts <- OneOrTwo
  Text = {a, b}
  Serve = serve
  Run = run
  OtherRepos = TRUE
  MaxFaults = 1
  MaxSendBacks = 1
  NoOne = NoOne
  NoRequest = NoRequest
  NoLine = NoLine
  NoText = NoText
SPECIFICATION FairSpec
CONSTRAINT FewerOfTwoLines
INVARIANTS
  TypeOK
  OwnSpec
PROPERTIES
  OnlyHumanApproves
  DraftKept
  SettledKept
  ImplementsWorkQueue
  RepoFreed
  Answered
