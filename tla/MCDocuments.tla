----------------------------- MODULE MCDocuments -----------------------------
(* The documents of a store: how they are forgotten, and how they land on   *)
(* the disk. Each behaviour is of one component, and the others' variables  *)
(* stand still.                                                             *)
EXTENDS Redaction, TLC

CONSTANTS
  Parts,  \* the components this run takes
  \* Landing's recorders, contents, jobs and faults
  Recorders, Documents, Payloads, None, Jobs, Faults

\* Revisions, documents and payloads have names of their own.
ASSUME NamesAreApart ==
  /\ Recorders \cap Documents = {} /\ Recorders \cap Payloads = {} /\ Documents \cap Payloads = {}
  /\ None \notin Recorders \cup Documents \cup Payloads \cup {"part", "whole"}
ASSUME JobsAssumption ==
  /\ Jobs \subseteq [Recorders -> SUBSET (Documents \cup Payloads)]
  /\ Faults \subseteq [stops : Nat, cuts : Nat, prunes : Nat]

\* A line is added beside another, that one is dropped, and a third is added:
\* the last revision shows an item of the first and quotes none of it.
Adds3  == <<{"i", "j"}, {}, {"k"}>>
Drops3 == <<{}, {"i"}, {}>>
Items3 == {"i", "j", "k"}
\* Everywhere but between writing the catalogue and clearing the texts.
ButClearing == Step \ {"clearing"}

\* Two recorders of one document, and of one payload after a document.
MCJobs == {("x" :> {"d"}) @@ ("y" :> {"d"}), ("x" :> {"d", "p"}) @@ ("y" :> {"p"})}
\* A fault, and over one document a stop and a cut.
MCFaults == {[stops |-> 1, cuts |-> 0, prunes |-> 0], [stops |-> 0, cuts |-> 1, prunes |-> 0],
             [stops |-> 1, cuts |-> 1, prunes |-> 0], [stops |-> 0, cuts |-> 0, prunes |-> 1]}

VARIABLES
  part,   \* which component this behaviour is of
  needs, file, loose, drive, recorder, prune, raced, faults

Lands == INSTANCE Landing

landsVars == <<needs, file, loose, drive, recorder, prune, raced, faults>>

\* Where no sync copies files in, and a command may be stopped anywhere.
Unsynced == Acts({"record", "forget", "receive"}, Step)

MCInit ==
  /\ part \in Parts
  /\ Init
  /\ IF part = "landing"
     THEN /\ Lands!Init
          /\ faults.stops + faults.cuts > 1 => \A r \in Recorders : needs[r] \subseteq Documents
     ELSE /\ needs = <<>> /\ file = <<>> /\ loose = <<>> /\ drive = <<>>
          /\ recorder = <<>> /\ prune = {} /\ raced = {} /\ faults = 0

MCNext ==
  /\ part' = part
  /\ \/ /\ part = "syncing" /\ Next
        /\ UNCHANGED landsVars
     \/ /\ part = "forgetting" /\ Unsynced
        /\ UNCHANGED landsVars
     \/ /\ part = "landing" /\ Lands!Next
        /\ UNCHANGED vars

MCSpec == MCInit /\ [][MCNext]_<<part, vars, landsVars>>
------------------------------------------------------------------------------
\* Where no sync copies files in, a forget that ended destroyed every original
\* with a quote, wherever one was stopped before (store/forget.rs); and a content
\* that a landed revision names is lost only where a prune raced the recorder or
\* the disk was cut under it, a name leads to a durable revision, and two commands
\* that write one payload never read each other's half (fs.rs).
NothingGoesByHalves ==
  /\ TypeOK
  /\ part = "forgetting" => ForgetDestroysOriginals
  /\ part = "landing" => Lands!TypeOK /\ Lands!OnlyRacesLoseContent
                         /\ Lands!NamedIsDurable /\ Lands!PayloadsDoNotMeet
==============================================================================
