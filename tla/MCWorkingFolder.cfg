\* Three paths, one of them in a directory another may be, two runs of an update
\* and a person who changes the folder once; and a file, a person and three
\* commands within four ticks of the clock.
CONSTANTS
  Parts = {"folder", "working"}
  Order <- MCOrder
  Inside <- MCInside
  Texts = {"page", "draft"}
  Payloads = {"photo"}
  Spellings = {"here", "there"}
  Recorded <- MCRecorded
  Modes = {FALSE}
  MaxRuns = 2
  MaxEdits = 1
  Versions = {"head", "undone", "draft", "note"}
  Known = {"head", "undone"}
  Short = {"undone"}
  AtHead = "head"
  Undone = "undone"
  MaxTick = 4
  MaxWrites = 2
  MaxCommands = 3
  Tracked = {"page", "alias"}
  Places = {p, q}
  Passages = {top, end}
  Wordings = {one, two}
  Kinds <- MCKinds
  FileModes = {"plain", "runs"}
  MaxRevisions = 3
SPECIFICATION MCSpec
CHECK_DEADLOCK FALSE
INVARIANTS
  UpdatesLoseNothing
  
  SurveysAreBelievedRightly
