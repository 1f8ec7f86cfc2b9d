\* Exports alone, with three acts: is one turned away from what one before left?
CONSTANTS
  Parts = {"exporting"}
  Arriving <- OneForgotten
  Acts = 3
  Nobody = nobody
  Revision = {1, 2, 3, 4, 5}
  Parents <- MCParents
  Supersedes <- MCSupersedes
  Content = {"a", "b", "c"}
  Names <- MCNames
  Quotes <- MCQuotes
  Path = {"page", "side"}
  TreeOf <- MCTreeOf
  Mark = {"main"}
  Forgettable = {"a", "b"}
  Ruled = {"side"}
  SkipPath <- MCSkipPath
  SkipRule <- MCRules
  StoreName <- MCStoreName
  HeaderName <- MCHeaderName
  MaxRules = 1
SPECIFICATION MCSpec
CHECK_DEADLOCK FALSE
INVARIANTS TheNextRunFinishesTheJob
