\* Four acts of an origin and of people at a copy, and exports stopped anywhere;
\* eight revisions, six documents and a stand-in that arrive in every order; one
\* rule at a time, and seven paths; and two lines of git's ignore files.
CONSTANTS
  Parts = {"exporting", "checking", "skipping", "ignoring"}
  Arriving <- OneForgotten
  Acts = 4
  Nobody = nobody
  Revision = {1, 2, 3, 4, 5}
  Parents <- MCParents
  Supersedes <- MCSupersedes
  Content = {"a", "b", "c"}
  Names <- MCNames
  Quotes <- MCQuotes
  Path = {"page", "side"}
  TreeOf <- MCTreeOf
  Mark = {"main"}
  Forgettable = {"a", "b"}
  Ruled = {"side"}
  SkipPath <- MCSkipPath
  SkipRule <- MCRules
  StoreName <- MCStoreName
  HeaderName <- MCHeaderName
  MaxRules = 1
SPECIFICATION MCSpec
CHECK_DEADLOCK FALSE
INVARIANTS
  NoRevisionOutlivesItsDocuments
  AnEndedExportIsTheSet
  ChecksAreRight
  RulesKeepTheirWord
PROPERTIES
  RecordsDropWhatIsGone
