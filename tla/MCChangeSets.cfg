\* Two copies and three scenes: how many processes run at once in each.
CONSTANTS
  Copies = {"here", "there"}
  Scenes <- MCScenes
SPECIFICATION Spec
CHECK_DEADLOCK FALSE
INVARIANTS
  AcceptedHoldsTheReviewed
PROPERTIES
  NamesMoveForward
  CopiesSettle
