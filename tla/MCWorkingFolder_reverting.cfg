\* Three revisions of a file of lines and a link over two paths.
CONSTANTS
  Parts = {"reverting"}
  Order <- MCOrder
  Inside <- MCInside
  Texts = {"page", "draft"}
  Payloads = {"photo"}
  Spellings = {"here", "there"}
  Recorded <- MCRecorded
  Modes = {FALSE}
  MaxRuns = 2
  MaxEdits = 1
  Versions = {"head", "undone", "draft", "note"}
  Known = {"head", "undone"}
  Short = {"undone"}
  AtHead = "head"
  Undone = "undone"
  MaxTick = 4
  MaxWrites = 2
  MaxCommands = 3
  Tracked = {"page", "alias"}
  Places = {p, q}
  Passages = {top, end}
  Wordings = {one, two}
  Kinds <- MCKinds
  FileModes = {"plain", "runs"}
  MaxRevisions = 3
SPECIFICATION MCSpec
SYMMETRY Alike
CHECK_DEADLOCK FALSE
INVARIANTS
  RevertsTakeTheirOwn
