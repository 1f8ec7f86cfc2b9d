---------------------------- MODULE MCPublishing -----------------------------
(* What leaves a store and what stays out of one: exports, the check of a   *)
(* store that is arriving, the rules for what is not recorded, and the      *)
(* rules made of what git ignores. Each behaviour is of one component, and  *)
(* the others' variables stand still.                                       *)
EXTENDS Exporting, Sequences, TLC

CONSTANTS
  Parts,      \* the components this run takes
  Arriving,   \* what has been forgotten of the history that arrives
  \* Skipping's paths, rules and names, and how many rules a store states
  SkipPath, SkipRule, StoreName, HeaderName, MaxRules

\* A path is a sequence of names, and has one.
ASSUME PathsAssumption ==
  \A path \in SkipPath : path \in Seq({path[n] : n \in DOMAIN path}) /\ Len(path) > 0

\* Exporting: 1 adds a page and 2 one beside it; 3 amends 2, and 4 amends 3 and
\* drops it; 5 is recorded in the copy.
MCParents == << {}, {1}, {1}, {1}, {1} >>
MCSupersedes == << {}, {}, {2}, {3}, {} >>
MCNames == << {"a"}, {"b"}, {"c"}, {}, {} >>
MCQuotes == "a" :> {} @@ "b" :> {} @@ "c" :> {"a"}
MCTreeOf == << "page" :> "a", "page" :> "a" @@ "side" :> "b", "page" :> "a" @@ "side" :> "c", "page" :> "a", "page" :> "a" >>

\* Checking: 2 and 3 change one line and 4 resolves it; 5 is 2 picked onto 1
\* again, so that 6 and 7 join sides that agree, 6 stating nothing and 7 an edit.
CheckedParents == << {}, {1}, {1}, {2, 3}, {1}, {2, 5}, {2, 5}, {6} >>
MCStates == << "d1", "d2", "d3", "d4", "d2", "nobody", "d7", "d8" >>
MCKind == "d1" :> "payload" @@ "d2" :> "operations" @@ "d3" :> "operations"
          @@ "d4" :> "resolution" @@ "d7" :> "operations" @@ "d8" :> "operations"
MCInserts == "d1" :> {"one", "two"} @@ "d2" :> {"mine"} @@ "d3" :> {"theirs"} @@ "d4" :> {} @@ "d7" :> {"three"}
             @@ "d8" :> {"four"}
MCDeletes == "d1" :> {} @@ "d2" :> {"one"} @@ "d3" :> {"one"} @@ "d4" :> {} @@ "d7" :> {"two"} @@ "d8" :> {"two"}
MCKeeps == "d1" :> {} @@ "d2" :> {} @@ "d3" :> {} @@ "d4" :> {"mine", "two"} @@ "d7" :> {} @@ "d8" :> {}
MCWrittenIn == "one" :> "d1" @@ "two" :> "d1" @@ "mine" :> "d2" @@ "theirs" :> "d3" @@ "three" :> "d7" @@ "four" :> "d8"
MCPlace == "one" :> 1 @@ "two" :> 2 @@ "mine" :> 1 @@ "theirs" :> 1 @@ "three" :> 2 @@ "four" :> 2
MCSays == [i \in {"one", "two", "mine", "theirs", "three", "four"} |-> i]
OneForgotten == "d2" :> {"mine"}
BothForgotten == "d2" :> {"mine"} @@ "d3" :> {"theirs"}

\* Skipping: paths of the names x, xy and xyx, and a store further down.
MCStoreName == <<"h">>
MCHeaderName == <<"t">>
X == <<"x">>
Y == <<"y">>
XY == <<"x", "y">>
AnyDepth == << {}, {} >>
MCSkipPath == {<<X>>, <<X, XY>>, <<X, X, XY>>, <<XY, X>>, <<X, <<"h">>, <<"t">>>>, <<X, <<"h">>, X>>, <<<<"x", "y", "x">>>>}
Ruling(kind, what) == [kind |-> kind, what |-> what, except |-> {}]
Globs == {<<AnyDepth, <<{"x"}, {}>>>>, <<<<{}, {"x"}>>>>, <<AnyDepth, <<{"x"}, {"y"}>>>>, <<<<{"x"}>>, AnyDepth>>,
          <<AnyDepth, <<{"x"}>>, AnyDepth>>, <<<<{"x"}>>, <<{"x", "y"}, {"y"}>>>>, <<<<{"x"}, {}, {"y"}, {}, {"x"}>>>>,
          <<<<{"x"}>>, <<{"x"}>>>>}
MCRules ==
  {Ruling("Path", <<X>>), Ruling("Path", <<X, XY>>), Ruling("Under", <<X>>), Ruling("Under", <<X, X>>)}
  \cup {Ruling(kind, what) : kind \in {"Name", "NameUnder"},
          what \in {<<X>>, <<X, <<>>>>, <<<<>>, <<"y">>>>, <<X, X>>, <<X, <<"y">>, X>>, <<XY, <<"y", "x">>>>}}
  \cup {Ruling(kind, what) : kind \in {"Glob", "GlobUnder"}, what \in Globs}
  \cup {[Ruling(kind, <<AnyDepth, <<{}>>>>) EXCEPT !.except = {<<AnyDepth, <<{}, {"y"}>>>>}] :
          kind \in {"Glob", "GlobUnder"}}

\* Ignoring: lines at the top, and lines in a file beneath y.
IgnorePath == {<<X>>, <<Y, X>>, <<Y, Y>>, <<Y, X, Y>>}
MCLines ==
  {[negated |-> n, lead |-> l, directory |-> d, parts |-> v] : n, l, d \in BOOLEAN,
     v \in {<<<<{"x"}>>>>, <<<<{"x"}, {}>>>>, <<<<{"y"}>>, <<{"x"}>>>>, <<AnyDepth, <<{"x"}>>>>, <<<<{"y"}>>, AnyDepth>>,
            <<<<{"x", "y"}>>>>, <<AnyDepth>>, <<<<{}>>>>, <<<<{"y"}>>, <<{}>>>>, <<<<{"y"}>>>>}}

VARIABLES
  part,   \* which component this behaviour is of
  revisions, documents, standins, stated, stands, tracked, lines, nested,
  indexed

Checks == INSTANCE Checking
  WITH Revision <- 1..8, Parents <- CheckedParents,
       Document <- {"d1", "d2", "d3", "d4", "d7", "d8"}, States <- MCStates,
       Nothing <- "nobody", Kind <- MCKind,
       Line <- {"one", "two", "mine", "theirs", "three", "four"}, Inserts <- MCInserts,
       Deletes <- MCDeletes, Keeps <- MCKeeps, WrittenIn <- MCWrittenIn,
       Place <- MCPlace, Says <- MCSays, Hidden <- "hidden",
       Forgotten <- Arriving
Skips == INSTANCE Skipping
  WITH Path <- SkipPath, Rules <- SkipRule, rules <- stated, folder <- stands
Ignores == INSTANCE Ignoring
  WITH Path <- IgnorePath, Lines <- MCLines, Nest <- <<Y>>, MaxLines <- 2,
       tracked <- indexed

checksVars == <<revisions, documents, standins>>
skipsVars == <<stated, stands, tracked>>
ignoresVars == <<lines, nested, indexed>>

MCInit ==
  /\ part \in Parts
  /\ Init
  /\ Checks!Init
  /\ Skips!Init
  /\ Ignores!Init

MCNext ==
  /\ part' = part
  /\ \/ /\ part = "exporting" /\ Next
        /\ UNCHANGED <<checksVars, skipsVars, ignoresVars>>
     \/ /\ part = "checking" /\ Checks!Next
        /\ UNCHANGED <<vars, skipsVars, ignoresVars>>
     \/ /\ part = "skipping" /\ Skips!Next
        /\ UNCHANGED <<vars, checksVars, ignoresVars>>
     \/ /\ part = "ignoring" /\ Ignores!Next
        /\ UNCHANGED <<vars, checksVars, skipsVars>>

MCSpec == MCInit /\ [][MCNext]_<<part, vars, checksVars, skipsVars, ignoresVars>>
------------------------------------------------------------------------------
\* A store a transport has half filled contradicts nothing, whatever came first;
\* and a head `check' calls complete is produced as its author left it, by the
\* rule and by the walk (store/check.rs).
ChecksAreRight ==
  part = "checking" => Checks!TypeOK /\ Checks!PartialDeliveryIsNoFault /\ Checks!CompleteHeadsAreRead

\* A rule takes the paths its value names; the walk, which asks about whole
\* directories, leaves out those and no others; and a rule made of git's lines
\* keeps out nothing git would commit (working/mod.rs, glob.rs, git/src/ignored.rs).
RulesKeepTheirWord ==
  /\ part = "skipping" => Skips!TypeOK /\ Skips!RulesCoverWhatTheySay /\ Skips!WalkTakesTheRest
  /\ part = "ignoring" => Ignores!TypeOK /\ Ignores!NothingGitKeepsIsSkipped /\ Ignores!CarriedWholeIsExact
\* A record drops no file that stands in the folder (record/mod.rs).
RecordsDropWhatIsGone == Skips!RecordsDropWhatIsGone

\* What the documents say besides, which the code does not do.
ArrivedStoresAreSound == part = "checking" => Checks!ArrivedStoresAreSound
RecordsDropOnlyWhatIsGone == Skips!RecordsDropOnlyWhatIsGone
==============================================================================
