------------------------------- MODULE MCStore -------------------------------
(* What one store keeps and reads back: pruning it, the catalogue of its    *)
(* contents, and opening it while others write. Each behaviour is of one    *)
(* component, and the others' variables stand still.                        *)
EXTENDS Prune, TLC

CONSTANTS
  Parts,      \* the components this run takes
  \* Cataloguing's digests, where each is, and the commands
  Documents, Payloads, Stands, Top, Beside, Arranged, Spots, Scenes, Commands,
  \* Opening's revisions, paths, names and readers
  RevisionTexts, Unparsable, Paths, DirOf, Names, Readers,
  MaxRuns, MaxActs, MaxOpens, MaxClock   \* bounds

\* What the program's naming gives Cataloguing: a file at the top is named by its
\* own digest, and a payload's stand-in beside it by the payload's place.
ASSUME DigestsNameTheTop ==
  /\ \A s \in Documents : \A t \in Documents : Top[s] = Top[t] => s = t
  /\ DOMAIN Top = Documents
  /\ \A id \in Documents \cup Payloads : \A s \in Documents :
        /\ Top[s] \in Spots[id] => s = id
        /\ id \in DOMAIN Arranged => Arranged[id] # Top[s]
ASSUME PayloadsHavePlaces ==
  /\ Documents \cap Payloads = {}
  /\ Payloads \subseteq DOMAIN Arranged
  /\ \A s \in Documents : Top[s] \notin DOMAIN Beside
  /\ \A id \in Documents \cup Payloads :
        /\ \A p \in Spots[id] : p \in DOMAIN Beside <=> id \in Payloads
        /\ id \in DOMAIN Arranged => (Arranged[id] \in DOMAIN Beside <=> id \in Payloads)
ASSUME DocumentsStandIn ==
  /\ DOMAIN Stands \subseteq Documents
  /\ "nobody" \notin Commands
  /\ \A scenery \in Scenes : scenery \subseteq Documents \cup Payloads
\* Each path is in a directory.
ASSUME PathsHaveDirectories == Paths \subseteq DOMAIN DirOf

\* One writer, and one forgetting document for one content, or no contents.
MCWriter == {"mine"}
MCContent == {"c1", "c2", "f1"}
MCStandIn == {"f1"}
MCForgets == [f \in MCStandIn |-> "c1"]

\* The catalogue: an operation document and what forgets it, a payload and what
\* forgets that, or two payloads; where each is filed and where arranging puts it.
MCStands == ("s" :> "o") @@ ("sb" :> "b")
MCTop == ("o" :> "top o") @@ ("s" :> "top s") @@ ("sb" :> "top sb")
MCBeside == ("x" :> "x.ops") @@ ("y" :> "y.ops")
MCArranged == ("o" :> "dir") @@ ("b" :> "x") @@ ("d" :> "y")
MCSpots == ("o" :> {"top o", "dir"}) @@ ("s" :> {"top s", "dir"}) @@ ("sb" :> {"x.ops", "y.ops"})
             @@ ("b" :> {"x", "y"}) @@ ("d" :> {"x", "y"})
MCScenes == {{"o", "s"}, {"b", "sb"}, {"b", "d"}}

MCDirOf == ("x" :> "X") @@ ("y" :> "Y")

\* Two commands and two readers are interchangeable.
Alike == Permutations(Commands)

VARIABLES
  part,   \* which component this behaviour is of
  filed, cached, cmd, runs, acts,
  scene, strayed, texts, names, cache, clock, pending, opening, opens, tries,
  unseen

Finds == INSTANCE Cataloguing
  WITH Forgets <- Stands, files <- filed, cache <- cached
Opens == INSTANCE Opening
  WITH files <- texts, acts <- tries

\* A command of Cataloguing seen from outside: what it was asked and said, whether
\* it is past the step that files or destroys, and what others moved meanwhile.
Progress(r) ==
  IF r.stage \in {"idle", "done"} THEN r.stage
  ELSE IF r.stage = "keep" \/ (r.stage = "let go" /\ r.does = "drop") THEN "acted"
  ELSE "asked"
Seen(r) ==
  LET stage == Progress(r)
  IN  [does |-> r.does, id |-> r.id, stage |-> stage, said |-> r.said,
       stirred |-> IF stage = "asked" THEN r.moved ELSE {}]
Asking == [c \in Commands |-> Seen(cmd[c])]
Promises == INSTANCE Contents
  WITH Forgets <- Stands, here <- Finds!Here, ask <- Asking

findsVars == <<filed, cached, cmd, runs, acts, scene, strayed>>
opensVars == <<texts, names, cache, clock, pending, opening, opens, tries,
               unseen>>

\* What is said by a revision this store does not hold changes nothing.
Unheld == [parents |-> {}, supersedes |-> {}, writer |-> "mine", names |-> {}]

MCInit ==
  /\ part \in Parts
  /\ IF part = "prune"
     THEN Init /\ \A x \in RevisionId \ files : doc[x] = Unheld
     ELSE /\ doc = [x \in RevisionId |-> Unheld]
          /\ files = {} /\ bodies = {} /\ documents = {} /\ kept = {} /\ dropped = {} /\ phase = "idle"
  /\ Finds!Init /\ (part # "cataloguing" => scene = CHOOSE any \in Scenes : TRUE)
  /\ Opens!Init

MCNext ==
  /\ part' = part
  /\ \/ /\ part = "prune" /\ Next
        /\ UNCHANGED <<findsVars, opensVars>>
     \/ /\ part = "cataloguing" /\ Finds!Next
        /\ UNCHANGED <<vars, opensVars>>
     \/ /\ part = "opening" /\ Opens!Next
        /\ UNCHANGED <<vars, findsVars>>

MCSpec == MCInit /\ [][MCNext]_<<part, vars, findsVars, opensVars>>
------------------------------------------------------------------------------
\* A content that stays where it is is found, however many commands read, file and
\* rewrite the catalogue at once; what a command filed is there when it ends; what
\* was forgotten is not answered again; and only a path used anew hides bytes
\* (store/mod.rs, store/catalogue.rs).
ContentsAreFound ==
  part = "cataloguing" =>
    /\ Finds!TypeOK /\ Finds!NothingHereIsMissed /\ Finds!FiledIsHere /\ Finds!OnlyReuseHidesBytes
    /\ Finds!LinesStayForgotten /\ Finds!BytesStayForgotten
\* Seen from outside the directory is a set of contents: what a command says of one
\* was so at some moment while it ran, and one that stood where it was all along is
\* found; one that files or destroys does that to one content at one moment; and
\* arranging, cataloguing and reading change no content (store/arrange.rs,
\* store/catalogue.rs, store/mod.rs).
ContentsAreKept == Promises!Spec

\* A store opened beside writers, prunes, renames and hands holds every revision
\* that stood throughout, at what its cache of parsed files says only while the
\* stamp vouches; and a name it shows leads to a revision it has, or it refuses
\* (store/mod.rs, store/revisions.rs).
OpeningReadsWhatStands ==
  part = "opening" =>
    /\ Opens!TypeOK /\ Opens!StaleOnlyUnderAnOldTime /\ Opens!StandingRevisionsAreRead
    /\ Opens!NamesFindTheirRevisions /\ Opens!RefusedForAReason
==============================================================================
