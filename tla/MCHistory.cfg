\* Every history of four revisions by two writers, one of them followed, each
\* superseding at most one other, delivered in every order; and every act on a
\* chain of three, by one copy that may stop anywhere or two that exchange files.
CONSTANTS
  Parts = {"following", "one copy", "two copies"}
  MaxId = 4
  MaxParents = 2
  MaxSupersedes = 1
  Writer <- MCWriter
  Followed <- MCFollowed
SPECIFICATION MCSpec
CHECK_DEADLOCK FALSE
INVARIANTS
  TypeOK
  FollowedIsAncestry
  NothingCurrentIsHidden
  FollowedHasAHead
  RewritesConverge
PROPERTIES
  StrangersMoveNoHead
  CarryResumes
