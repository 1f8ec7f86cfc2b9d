\* Two revisions, one forgetting, two pages after the base, and one stop of either
\* side or one content the reader was asked to leave elsewhere; or both of one.
CONSTANTS
  MaxForgets = 1
  MostPages = 2
  Tries = 1
  Budgets <- MCBudgets
SPECIFICATION Spec
CHECK_DEADLOCK FALSE
INVARIANTS
  FetchingMissesNothing
PROPERTIES
  ForgottenStaysForgotten
  CatchesUp
