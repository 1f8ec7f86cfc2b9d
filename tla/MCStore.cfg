\* Every history of three revisions over two contents and a stand-in, held in
\* part or whole; two commands over a catalogue of two contents; and two readers
\* of two paths that others write.
CONSTANTS
  Parts = {"prune", "cataloguing", "opening"}
  Documents = {"o", "s", "sb"}
  Payloads = {"b", "d"}
  Stands <- MCStands
  Top <- MCTop
  Beside <- MCBeside
  Arranged <- MCArranged
  Spots <- MCSpots
  Scenes <- MCScenes
  Commands = {a, b}
  RevisionTexts = {"t", "u", "x"}
  Unparsable = {"x"}
  Paths = {"x", "y"}
  DirOf <- MCDirOf
  Names = {"main"}
  Readers = {a, b}
  MaxRuns = 2
  MaxActs = 2
  MaxOpens = 2
  MaxClock = 2
  MaxId = 3
  Writer <- MCWriter
  Followed <- MCWriter
  Content <- MCContent
  StandIn <- MCStandIn
  Forgets <- MCForgets
SPECIFICATION MCSpec
SYMMETRY Alike
CHECK_DEADLOCK FALSE
INVARIANTS
  TypeOK
  PlanKeepsTips
  PruneLosesNoWork
  NamedContentAnswered
  ContentsAreFound
  OpeningReadsWhatStands

  
