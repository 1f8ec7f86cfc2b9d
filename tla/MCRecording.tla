----------------------------- MODULE MCRecording -----------------------------
(* What becomes history: the folder a person records, and the commits the   *)
(* bridge brings from git and sends there. Each behaviour is of one         *)
(* component, and the others' variables stand still.                        *)
EXTENDS TLC

CONSTANTS
  Parts,      \* the components this run takes
  TheScenes,  \* what a behaviour of Surveying is about
  Doing,      \* what the two sides of the bridge may do
  MaxDeeds, MaxBreaks,
  Checkouts,  \* the branches HEAD may be on, where the two share a directory
  a, b, apart, p, q, photo, out, fenced

Scene(does, records, changes) == [does |-> does, revs |-> records, touches |-> changes]
MCScenes == {Scene({"links", "rename", "some"}, 3, 2),
             Scene({"bytes", "evict", "some", "kinds"}, 3, 2),
             Scene({"links", "amend", "chmod", "kinds", "bytes"}, 3, 2),
             Scene({"update", "links", "chmod"}, 4, 3),
             Scene({"update", "rename", "bytes"}, 4, 2)}
AllDeeds == {"bridge", "commit", "branch", "delete", "gc", "record", "amend", "carry", "receive", "name", "unname"}
StoreDeeds == {"bridge", "record", "carry", "receive", "name"}

\* Two texts, and two names, are interchangeable.
Alike == Permutations({a, b})

VARIABLES
  part,   \* which component this behaviour is of
  rev, at, folder, lacks, touched, touches, scene, revs, bm, commit, held,
  ref, rec, left, job, acts, stops, torn, meant, binned, head

Surveys == INSTANCE Surveying
  WITH Paths <- {p, q}, Texts <- {a, b}, Blobs <- {photo}, Out <- out,
       Marked <- fenced, MaxRevs <- 5, Scenes <- TheScenes
Git == INSTANCE Bridge
  WITH Names <- {a, b}, Apart <- apart, Heads <- Checkouts, MaxActs <- MaxDeeds, MaxStops <- MaxBreaks,
       rev <- revs, Deeds <- Doing

surveysVars == <<rev, at, folder, lacks, touched, touches, scene>>
gitVars == <<revs, bm, commit, held, ref, rec, left, job, acts, stops, torn,
             meant, binned, head>>

MCInit ==
  /\ part \in Parts
  /\ Surveys!Init /\ (part # "surveying" => scene = CHOOSE s \in TheScenes : TRUE)
  /\ Git!Init

MCNext ==
  /\ part' = part
  \* (a bound: no command is stopped in a directory both share)
  /\ head = apart \/ stops' = stops
  /\ \/ /\ part = "surveying" /\ Surveys!Next
        /\ UNCHANGED gitVars
     \/ /\ part = "bridge" /\ Git!Next
        /\ UNCHANGED surveysVars

MCSpec == MCInit /\ [][MCNext]_<<part, surveysVars, gitVars>>
------------------------------------------------------------------------------
\* A record takes of the folder what its survey observed and drops nothing for
\* want of bytes, leaves the paths it was not given, and can itself be surveyed
\* clean; an amendment restates; only a name that would dangle slips from a tree
\* (record/mod.rs, working/mod.rs).
RecordsTheFolder ==
  part = "surveying" =>
    /\ Surveys!TypeOK /\ Surveys!TreesAreWhole /\ Surveys!OnlyTheNamedSlipAway
    /\ Surveys!RecordedIsSettled /\ Surveys!AmendingRestates
    /\ Surveys!NothingLeavesForWantOfBytes /\ Surveys!RestIsLeftAlone
\* Each commit is one revision and each revision one commit, but where a write of
\* the record of them was torn; a name goes back only where a run was stopped; and
\* an export that has sent leaves every childless revision reachable by a ref
\* (src/git).
BridgeKeepsTrack ==
  part = "bridge" => Git!TypeOK /\ Git!OnlyATornWriteDoubles /\ Git!OnlyAStopDragsAName /\ Git!HeadsAreReachable
\* Recording a merge nobody touched takes out nothing that either side kept
\* (cli/src/cli/record.rs); apart, neither side's bookmark leaves work that
\* side made alone; and a branch that was deleted stays so until it is named again.
OthersWorkIsKept ==
  Surveys!MergesUndoNothing /\ Git!GitsWorkIsKept /\ Git!StoresWorkIsKept /\ Git!DeletionsStand

WorkIsReachable == part = "bridge" => Git!WorkIsReachable
NothingIsDraggedBack == Git!NothingIsDraggedBack
==============================================================================
