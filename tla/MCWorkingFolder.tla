--------------------------- MODULE MCWorkingFolder ---------------------------
(* The folder a person works in: the update that writes it, the survey that *)
(* believes what it knows of it, and the undoing of a revision in it. Each  *)
(* behaviour is of one component, and the others' variables stand still.    *)
EXTENDS Folder, TLC

CONSTANTS
  Parts,  \* the components this run takes
  \* Working's versions of one file, its clock and its bounds
  Versions, Known, Short, AtHead, Undone, MaxTick, MaxWrites, MaxCommands,
  \* Reverting's files and where they may be, what they hold, and its bound
  Tracked, Places, Passages, Wordings, Kinds, FileModes, MaxRevisions

ASSUME VersionsAssumption ==
  AtHead \in Versions \cap Known /\ Undone \in Versions /\ "none" \notin Versions
ASSUME BoundsAssumption ==
  MaxTick \in Nat \ {0} /\ MaxWrites \in Nat /\ MaxCommands \in Nat
ASSUME PlacesAssumption == "none" \notin Places
ASSUME KindsAssumption == Kinds \in [Tracked -> {"lines", "whole", "link"}]
ASSUME MaxRevisionsAssumption == MaxRevisions \in Nat

\* A path, and a directory with one path in it.
MCOrder  == <<"a", "d", "x">>
MCInside == {<<"x", "d">>}
\* A payload recorded at both, a link at one and a text at the other.
MCRecorded == {<<"a", "photo">>, <<"a", "here">>, <<"d", "page">>, <<"d", "photo">>}
MCLinks    == {<<"a", "here">>, <<"x", "photo">>}

\* A file of lines and a link.
MCKinds == ("page" :> "lines") @@ ("alias" :> "link")
\* Two paths, two passages, and two wordings of a passage, are interchangeable.
Alike ==
  {f @@ g @@ h : f \in Permutations(Places), g \in Permutations(Passages), h \in Permutations(Wordings)}

VARIABLES
  part,   \* which component this behaviour is of
  clock, file, again, catalogue, command, step, stamp, known, learned, guard,
  fresh, amid, overwritten, writes, commands, trees, payloads

Surveys == INSTANCE Working WITH Recorded <- Known, lost <- overwritten
Line == INSTANCE Reverting WITH Files <- Tracked, Versions <- Wordings, Modes <- FileModes

surveysVars == <<clock, file, again, catalogue, command, step, stamp, known, learned,
                 guard, fresh, amid, overwritten, writes, commands>>
lineVars == <<trees, payloads>>

MCInit ==
  /\ part \in Parts
  /\ IF part = "folder" THEN Init
     ELSE /\ disk = <<>> /\ target = <<>> /\ payload = <<>> /\ phase = "idle" /\ offered = <<>>
          /\ unread = {} /\ unplanned = {} /\ refused = {} /\ todo = {} /\ hand = {} /\ removed = {}
          /\ left = {} /\ ended = "not yet" /\ unseen = {} /\ raced = {} /\ lost = {}
          /\ runs = 0 /\ edits = 0
  /\ Surveys!Init /\ (part # "working" => file.holds = AtHead)
  /\ Line!Init /\ (part # "reverting" => payloads = {})

MCNext ==
  /\ part' = part
  /\ \/ /\ part = "folder" /\ Next
        /\ UNCHANGED <<surveysVars, lineVars>>
     \/ /\ part = "working" /\ Surveys!Next
        /\ UNCHANGED <<vars, lineVars>>
     \/ /\ part = "reverting" /\ Line!Next
        /\ UNCHANGED <<vars, surveysVars>>

MCSpec == MCInit /\ [][MCNext]_<<part, vars, surveysVars, lineVars>>
------------------------------------------------------------------------------
\* An update loses only what was written where it had already looked; one that
\* ends well leaves the head in the folder; one that refuses has a reason, and
\* the next finds the way the first left (update.rs).
UpdatesLoseNothing ==
  part = "folder" =>
    TypeOK /\ LosesOnlyWhatItNeverSaw /\ DoneHoldsTheHead /\ RefusesForAReason

\* An update that says it is done has told of every path it left without the
\* head, whatever the person changed while it planned and wrote, except what
\* they changed after the last look at it (update.rs, apply).
UpdatesTellWhatTheyLeft == part = "folder" => DoneTellsWhatItLeft

\* A survey is wrong about a file, and a command loses what a person wrote
\* before it, only where the person wrote while a survey was between looking
\* and acting (working/mod.rs, working/catalogue.rs).
SurveysAreBelievedRightly == part = "working" => Surveys!SurveysAreBelievedRightly

\* Undoing a revision leaves a tree, takes out what the revision said and nothing
\* another said, leaves unrecorded work in the folder, and the head can be undone
\* (revert.rs).
RevertsTakeTheirOwn == part = "reverting" => Line!RevertsTakeTheirOwn
==============================================================================
