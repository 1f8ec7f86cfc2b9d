\* Two copies, two keys and two commands at the claims; five acts on statements.
\* A command may be stopped once anywhere.
CONSTANTS
  Parts = {"vouching", "stating"}
  Procs = {p, q}
  MaxStops = 1
  MaxDays = 2
  Sites = {"here", "there"}
  Keys = {x, y}
  Roles = {"author"}
  Nobody = nobody
  Vouchings = {"sign", "hand", "arrange", "receive", "sync", "trust", "revoke"}
  MaxVouchings = 3
  Copies = {x, y}
  Statings = {"record", "amend", "prune", "receive", "state", "witness", "revoke", "backup", "restore"}
  MaxStatings = 5
  MaxRevs = 3
SPECIFICATION MCSpec
SYMMETRY Alike
CHECK_DEADLOCK FALSE
INVARIANTS
  VouchesAreRead
  StatementsAreJudged
PROPERTIES
  TrustOnlyTightens
