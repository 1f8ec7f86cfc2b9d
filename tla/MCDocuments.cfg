\* One command at a time over a store that a sync writes into, stopped anywhere
\* but between the catalogue and the cached texts, and over one that no sync
\* does, stopped anywhere; and two recorders, a stop, a cut of the power
\* and a prune.
CONSTANTS
  Parts = {"syncing", "forgetting", "landing"}
  Item <- Items3
  Adds <- Adds3
  Drops <- Drops3
  Command = {"p"}
  Kinds = {"read", "record", "forget", "sync"}
  Stops <- ButClearing
  Recorders = {"x", "y"}
  Documents = {"d"}
  Payloads = {"p"}
  None = "none"
  Jobs <- MCJobs
  Faults <- MCFaults
SPECIFICATION MCSpec
CHECK_DEADLOCK FALSE
INVARIANTS
  RevisionsAnswered
  ForgettingHolds
  NothingGoesByHalves
