\* Two runs, two commands, two prompts in all.
CONSTANTS
  Runs = {1, 2}
  Commands = {c, d}
  MaxPrompts = 2
  NoCommand = NoCommand
SPECIFICATION FairSpec
INVARIANTS
  TypeOK
  RunsWhatWasApproved
  ToldOnce
  NobodyStranded
PROPERTY
  RunEnds
