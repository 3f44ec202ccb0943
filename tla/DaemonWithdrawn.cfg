\* A daemon whose only repository turns out to be none.
CONSTANTS
  Requests = {1, 2}
  Remote = {1}
  l = l
  k = k
  m = m
  Lines = {l, k, m}
  Alike <- Continues
  Layouts <- OneOrTwo
  Text = {a, b}
  Serve = serve
  Run = run
  OtherRepos = FALSE
  MaxFaults = 1
  MaxSendBacks = 1
  NoOne = NoOne
  NoRequest = NoRequest
  NoLine = NoLine
  NoText = NoText
SPECIFICATION Spec
PROPERTY
  WithdrawnNotTaken
