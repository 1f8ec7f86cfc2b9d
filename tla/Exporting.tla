----------------------------- MODULE Exporting -----------------------------
(***************************************************************************)
(* A published copy, brought up to date again and again                    *)
(* (src/store/export.rs).                                                  *)
(*                                                                         *)
(* An origin exports one revision's ancestry into a directory: a store and *)
(* the folder beside it.  A later export onto the same directory writes    *)
(* what the copy lacks, destroys what has been forgotten since, and        *)
(* withdraws what the set no longer names.  It writes one file after       *)
(* another and may be stopped between any two of them.  Between exports    *)
(* the origin records, forgets, prunes, states rules and moves a bookmark, *)
(* and somebody may work in the copy.                                      *)
(*                                                                         *)
(* Every file of the folder is one of lines.  The folder is laid out in    *)
(* one step here: `Folder' is about how that is done.                      *)
(***************************************************************************)
EXTENDS Naturals, FiniteSets

CONSTANTS
  Revision, Parents, Supersedes,  \* the graph, which hashes fix beforehand
  Content,    \* the documents revisions name
  Names,      \* Names[r]: the documents r names
  Quotes,     \* Quotes[c]: the documents c keeps items of
  Path, TreeOf, \* TreeOf[r]: the text at each path r's tree holds
  Mark,       \* bookmarks
  Forgettable, Ruled, Acts, \* what the origin may do, and how often
  Nobody      \* no revision

ASSUME GraphAssumption ==
  /\ Parents \in [Revision -> SUBSET Revision]
  /\ Supersedes \in [Revision -> SUBSET Revision]
  /\ Nobody \notin Revision
ASSUME DocumentsAssumption ==
  /\ Names \in [Revision -> SUBSET Content]
  /\ Quotes \in [Content -> SUBSET Content]
ASSUME ActsAssumption == Acts \in Nat

VARIABLES
  held,       \* revisions of the origin
  gone,       \* documents the origin has forgotten
  rules,      \* rules[p]: "none", or the travel axis of the rule that covers p
  marks,      \* marks[m]: what the origin's bookmark points at, and whether it travels
  dir,        \* the destination: "empty", "bare" of a header, or "made"
  copy,       \* the store there
  folder,     \* the folder there
  run,        \* the export that is running
  answer,     \* how the last one ended
  touched,    \* somebody other than the export has written at the destination
  acts

vars == <<held, gone, rules, marks, dir, copy, folder, run, answer, touched, acts>>
origin == <<held, gone, rules, marks>>
-----------------------------------------------------------------------------
\* What a text reads as: itself, or with the forgotten part marked.
Text(c, forgotten) == IF c \in forgotten THEN <<c, "forgotten">> ELSE <<c>>
Missing == << >>
ByHand == <<"by hand">>

Unpointed == [at |-> Nobody, private |-> FALSE]
NoCopy == [revisions |-> {}, documents |-> {}, standins |-> {}, rules |-> {},
           marks |-> [m \in Mark |-> Nobody]]
Idle == [step |-> "idle", target |-> Nobody, wholesale |-> FALSE]

Init ==
  /\ held = {r \in Revision : Parents[r] = {} /\ Supersedes[r] = {}}
  /\ gone = {}
  /\ rules = [p \in Path |-> "none"]
  /\ marks = [m \in Mark |-> Unpointed]
  /\ dir = "empty" /\ copy = NoCopy
  /\ folder = [p \in Path |-> Missing]
  /\ run = Idle /\ answer = "none" /\ touched = FALSE /\ acts = 0

FileText == {Missing, ByHand} \cup {Text(c, forgotten) : c \in Content, forgotten \in {{}, Content}}

Store == [revisions : SUBSET Revision, documents : SUBSET Content, standins : SUBSET Content,
          rules : SUBSET Path, marks : [Mark -> Revision \cup {Nobody}]]

TypeOK ==
  /\ held \subseteq Revision /\ gone \subseteq Content
  /\ rules \in [Path -> {"none", "shared", "private"}]
  /\ marks \in [Mark -> [at : Revision \cup {Nobody}, private : BOOLEAN]]
  /\ dir \in {"empty", "bare", "made"}
  /\ copy \in Store
  /\ folder \in [Path -> FileText]
  /\ run \in [step : {"idle", "init", "writing", "laid"},
              target : Revision \cup {Nobody}, wholesale : BOOLEAN]
  /\ answer \in {"none", "done", "stopped", "occupied", "broken", "unrelated",
                 "recorded", "refused"}
  /\ touched \in BOOLEAN /\ acts \in 0..Acts
-----------------------------------------------------------------------------
Childless(R) == {r \in R : \A s \in R : r \notin Parents[s]}
Named(R) == UNION {Names[r] : r \in R}

\* `reachable': the target's ancestry, by parents alone.
Reachable == [t \in Revision |->
  {r \in Revision : \A S \in SUBSET Revision :
     t \in S /\ (\A s \in S : Parents[s] \subseteq S) => r \in S}]
Ancestry(t) == Reachable[t]

\* What a tree holds is stated by documents its ancestry names.
ASSUME TreesAssumption ==
  \A r \in Revision : \A p \in DOMAIN TreeOf[r] : TreeOf[r][p] \in Named(Reachable[r])

\* A document the ancestry names, or one that a document still held quotes.
Followed == [t \in Revision |-> [forgotten \in SUBSET Content |->
  {c \in Content : \A S \in SUBSET Content :
     Named(Reachable[t]) \subseteq S /\ (\A d \in S \ forgotten : Quotes[d] \subseteq S) => c \in S}]]
Closure(t) == Followed[t][gone]

\* The set an export writes.
Documents(t) == Closure(t) \ gone
Forgetting(t) == Closure(t) \cap gone
Travelling == {p \in Path : rules[p] = "shared"}
Pointing(t, m) == ~marks[m].private /\ marks[m].at \in Ancestry(t)
MarksOf(t) == [m \in Mark |-> IF Pointing(t, m) THEN marks[m].at ELSE Nobody]

\* Slip: what the copy itself has forgotten is not asked.
ForgottenBy_OriginAlone(t) == Forgetting(t)

\* What either side has forgotten, which neither may be handed back.
ForgottenBy(t) == Forgetting(t) \cup copy.standins

\* Slip: the stand-in goes with the original it replaced.
Spared_NoStandIns(t) == Forgetting(t)

\* The stand-ins the copy keeps: the origin's, and its own for what the set names.
Spared(t) == Forgetting(t) \cup (copy.standins \cap Documents(t))

Destroys(t) == ForgottenBy(t) \cap copy.documents
Withdraws(t) ==
  \/ ~(copy.revisions \subseteq Ancestry(t))
  \/ ~(copy.documents \subseteq Documents(t) \cup ForgottenBy(t))
  \/ ~(copy.standins \subseteq Spared(t))
  \/ ~(copy.rules \subseteq Travelling)
  \/ \E m \in Mark : copy.marks[m] # Nobody /\ ~Pointing(t, m)
-----------------------------------------------------------------------------
\* The folder as the copy's own history reads it.
Readable(r) == Ancestry(r) \subseteq copy.revisions
               /\ Named(Ancestry(r)) \subseteq copy.documents \cup copy.standins
Tracks(r, p) == p \in DOMAIN TreeOf[r]
Shows(r, p) == IF Tracks(r, p) THEN Text(TreeOf[r][p], copy.standins) ELSE Missing

\* `RecordedBytes::standing': some revision of the copy records what stands at p.
Recorded(p) == \E r \in copy.revisions : Readable(r) /\ Tracks(r, p) /\ folder[p] = Shows(r, p)

\* A path the walk of the folder offers.
Seen(p) == folder[p] # Missing /\ p \notin copy.rules

\* `update::plan_at' has to refuse: a rule covers what the target holds, or
\* what would be written over is nowhere else.
Refuses(t, wholesale) ==
  \E p \in Path : Tracks(t, p)
    /\ \/ p \in copy.rules
       \/ Seen(p) /\ folder[p] # Shows(t, p) /\ ~wholesale /\ ~Recorded(p)

Settled(t) == \A p \in Path :
  /\ Tracks(t, p) => p \notin copy.rules /\ folder[p] = Shows(t, p)
  /\ ~Tracks(t, p) => ~(Seen(p) /\ Recorded(p))

\* `update::undisturbed': the copy has one tip and the folder is at it.
Undisturbed ==
  LET tips == {r \in Childless(copy.revisions) :
                 \A s \in copy.revisions : r \notin Supersedes[s]}
  IN  \E r \in tips : tips = {r} /\ Settled(r)

\* `check' calls a store broken over a rule that covers what a childless
\* revision of it holds; what is missing is only noted.
Broken(R, covered) == \E r \in Childless(R), p \in covered : Tracks(r, p)

Related == \/ copy.revisions = {} \/ held \cap copy.revisions # {}
           \/ \E r \in copy.revisions : (Parents[r] \cup Supersedes[r]) \cap held # {}
           \/ \E r \in held : (Parents[r] \cup Supersedes[r]) \cap copy.revisions # {}

\* The copy holds a revision the origin neither holds nor names.
Stranger == ~(copy.revisions \subseteq
                held \cup UNION {Parents[r] \cup Supersedes[r] : r \in held})
-----------------------------------------------------------------------------
\* The origin's other commands, and what people do at the destination.
Act == /\ run = Idle /\ acts < Acts /\ acts' = acts + 1 /\ answer' = "none"
       /\ UNCHANGED run
AtTheOrigin == Act /\ UNCHANGED <<dir, copy, folder, touched>>
AtTheCopy == Act /\ dir = "made" /\ touched' = TRUE /\ UNCHANGED <<origin, dir>>

Record(r) ==
  /\ AtTheOrigin
  /\ r \notin held /\ Parents[r] \cup Supersedes[r] \subseteq held
  /\ ~Broken({r}, {p \in Path : rules[p] # "none"})
  /\ held' = held \cup {r}
  /\ UNCHANGED <<gone, rules, marks>>

Forget(c) ==
  /\ AtTheOrigin
  /\ c \in (Forgettable \cap Named(held)) \ gone
  /\ gone' = gone \cup {c}
  /\ UNCHANGED <<held, rules, marks>>

\* `prune' lets go of a superseded revision nothing stands on and that is no
\* evidence itself, one after another.
PruneOne(x) ==
  /\ AtTheOrigin
  /\ x \in Childless(held) /\ Supersedes[x] \cap held = {}
  /\ \E s \in held : x \in Supersedes[s]
  /\ held' = held \ {x}
  /\ gone' = gone \cap Named(held \ {x})
  /\ UNCHANGED <<rules, marks>>

\* A rule is stated, deleted, or moved to the other axis.
Rule(p, axis) ==
  /\ AtTheOrigin
  /\ p \in Ruled /\ rules[p] # axis
  /\ axis # "none" => ~Broken(held, {p})
  /\ rules' = [rules EXCEPT ![p] = axis]
  /\ UNCHANGED <<held, gone, marks>>

Point(m, r, private) ==
  /\ AtTheOrigin
  /\ marks[m] # [at |-> r, private |-> private]
  /\ marks' = [marks EXCEPT ![m] = [at |-> r, private |-> private]]
  /\ UNCHANGED <<held, gone, rules>>

Edit(p) ==
  /\ AtTheCopy
  /\ folder' = [folder EXCEPT ![p] = ByHand]
  /\ UNCHANGED copy

RecordThere(r) ==
  /\ AtTheCopy
  /\ r \notin held \cup copy.revisions /\ Parents[r] \subseteq copy.revisions
  /\ Supersedes[r] = {} /\ Parents[r] # {}
  /\ copy' = [copy EXCEPT !.revisions = @ \cup {r}, !.documents = @ \cup Names[r]]
  /\ UNCHANGED folder

ForgetThere(c) ==
  /\ AtTheCopy
  /\ c \in Forgettable \cap copy.documents
  /\ copy' = [copy EXCEPT !.documents = @ \ {c}, !.standins = @ \cup {c}]
  /\ UNCHANGED folder
-----------------------------------------------------------------------------
Ends(how) == run' = Idle /\ answer' = how

\* `copy_at', and the questions asked before anything is taken away.
Export(t) ==
  /\ run = Idle /\ t \in held
  /\ IF dir = "bare" THEN Ends("occupied")
     ELSE IF dir = "empty"
       THEN run' = [step |-> "init", target |-> t, wholesale |-> FALSE] /\ answer' = "none"
     ELSE IF Broken(copy.revisions, copy.rules) THEN Ends("broken")
     ELSE IF ~Related THEN Ends("unrelated")
     ELSE IF Stranger THEN Ends("recorded")
     ELSE /\ run' = [step |-> "writing", target |-> t,
                     wholesale |-> (Withdraws(t) \/ Destroys(t) # {}) /\ Undisturbed]
          /\ answer' = "none"
  /\ UNCHANGED <<origin, dir, copy, folder, touched, acts>>

\* `init_on': the directories, and then the header that makes it a store.
Make ==
  /\ run.step = "init"
  /\ dir' = IF dir = "empty" THEN "bare" ELSE "made"
  /\ run' = IF dir = "empty" THEN run ELSE [run EXCEPT !.step = "writing"]
  /\ UNCHANGED <<origin, copy, folder, answer, touched, acts>>

Writes(new) == copy' = new /\ UNCHANGED <<origin, dir, folder, run, answer, touched, acts>>
Writing == run.step = "writing"
RulesKept == copy.rules \subseteq Travelling
MarksKept == \A m \in Mark : copy.marks[m] \in {Nobody} \/ Pointing(run.target, m)
Stated == copy.rules = Travelling /\ copy.marks = MarksOf(run.target)

RemoveSkipped(p) ==
  /\ Writing /\ p \in copy.rules \ Travelling
  /\ Writes([copy EXCEPT !.rules = @ \ {p}])

AddSkipped(p) ==
  /\ Writing /\ RulesKept /\ p \in Travelling \ copy.rules
  /\ Writes([copy EXCEPT !.rules = @ \cup {p}])

RemoveName(m) ==
  /\ Writing /\ copy.rules = Travelling
  /\ copy.marks[m] # Nobody /\ ~Pointing(run.target, m)
  /\ Writes([copy EXCEPT !.marks[m] = Nobody])

SetBookmark(m) ==
  /\ Writing /\ copy.rules = Travelling /\ MarksKept
  /\ Pointing(run.target, m) /\ copy.marks[m] # marks[m].at
  /\ Writes([copy EXCEPT !.marks[m] = marks[m].at])

\* The documents the copy lacks, and has not forgotten.
Lacks(t) == Documents(t) \ (copy.documents \cup ForgottenBy(t))

InsertDocument(c) ==
  /\ Writing /\ Stated /\ c \in Lacks(run.target)
  /\ Writes([copy EXCEPT !.documents = @ \cup {c}])

InsertForgetting(c) ==
  /\ Writing /\ Stated /\ Lacks(run.target) = {}
  /\ c \in Forgetting(run.target) \ copy.standins
  /\ Writes([copy EXCEPT !.standins = @ \cup {c}])

Supplied(t) == Stated /\ Lacks(t) = {} /\ Forgetting(t) \subseteq copy.standins

ComplyWithForgetting(c) ==
  /\ Writing /\ Supplied(run.target) /\ c \in Destroys(run.target)
  /\ Writes([copy EXCEPT !.documents = @ \ {c}])

\* Slip: revisions are written before what they name.
InsertRevision_First(r) ==
  /\ Writing /\ Stated /\ r \in Ancestry(run.target) \ copy.revisions
  /\ Writes([copy EXCEPT !.revisions = @ \cup {r}])

InsertRevision(r) ==
  /\ Writing /\ Supplied(run.target) /\ Destroys(run.target) = {}
  /\ r \in Ancestry(run.target) \ copy.revisions
  /\ Writes([copy EXCEPT !.revisions = @ \cup {r}])

\* The folder, out of the copy's own history and before what explains it goes.
LayOut ==
  /\ Writing /\ Supplied(run.target) /\ Destroys(run.target) = {}
  /\ Ancestry(run.target) \subseteq copy.revisions
  /\ IF Refuses(run.target, run.wholesale)
     THEN Ends("refused") /\ UNCHANGED folder
     ELSE /\ run' = [run EXCEPT !.step = "laid"] /\ UNCHANGED answer
          /\ folder' = [p \in Path |->
               IF Tracks(run.target, p) THEN Shows(run.target, p)
               ELSE IF Seen(p) /\ (run.wholesale \/ Recorded(p)) THEN Missing ELSE folder[p]]
  /\ UNCHANGED <<origin, dir, copy, touched, acts>>

WithdrawRevision(r) ==
  /\ run.step = "laid" /\ r \in copy.revisions \ Ancestry(run.target)
  /\ Writes([copy EXCEPT !.revisions = @ \ {r}])

\* Slip: documents are withdrawn beside the revisions that name them.
WithdrawDocument_Beside(c) ==
  /\ run.step = "laid"
  /\ \/ /\ c \in copy.documents \ Documents(run.target)
        /\ Writes([copy EXCEPT !.documents = @ \ {c}])
     \/ /\ c \in copy.standins \ Spared(run.target)
        /\ Writes([copy EXCEPT !.standins = @ \ {c}])

WithdrawDocument(c) ==
  /\ run.step = "laid" /\ copy.revisions \subseteq Ancestry(run.target)
  /\ \/ /\ c \in copy.documents \ Documents(run.target)
        /\ Writes([copy EXCEPT !.documents = @ \ {c}])
     \/ /\ c \in copy.standins \ Spared(run.target)
        /\ Writes([copy EXCEPT !.standins = @ \ {c}])

Finish ==
  /\ run.step = "laid"
  /\ copy.revisions = Ancestry(run.target)
  /\ copy.documents \subseteq Documents(run.target) /\ copy.standins \subseteq Spared(run.target)
  /\ Ends("done")
  /\ UNCHANGED <<origin, dir, copy, folder, touched, acts>>

\* A crash, or a write the destination refuses.
Stop ==
  /\ run # Idle
  /\ Ends("stopped")
  /\ UNCHANGED <<origin, dir, copy, folder, touched, acts>>

Next ==
  \/ \E r \in Revision : \/ Record(r) \/ PruneOne(r) \/ RecordThere(r) \/ Export(r)
                         \/ InsertRevision(r) \/ WithdrawRevision(r)
  \/ \E c \in Content : \/ Forget(c) \/ ForgetThere(c) \/ InsertDocument(c)
                        \/ InsertForgetting(c) \/ ComplyWithForgetting(c)
                        \/ WithdrawDocument(c)
  \/ \E p \in Path : \/ Edit(p) \/ RemoveSkipped(p) \/ AddSkipped(p)
                     \/ \E axis \in {"none", "shared", "private"} : Rule(p, axis)
  \/ \E m \in Mark : \/ RemoveName(m) \/ SetBookmark(m)
                     \/ \E r \in held, private \in BOOLEAN : Point(m, r, private)
  \/ Make \/ LayOut \/ Finish \/ Stop

Spec == Init /\ [][Next]_vars
-----------------------------------------------------------------------------
\* At every moment, in the middle of an export and wherever one was stopped,
\* the copy holds every document a revision of it names, or what stands in for
\* it: content arrives before revisions and leaves after them (export.rs).
NoRevisionOutlivesItsDocuments ==
  Named(copy.revisions) \subseteq copy.documents \cup copy.standins

\* An export that ended leaves exactly the set, whatever stopped exports, a
\* target that moved, forgettings on either side and prunes left there before:
\* one revision's ancestry and the documents it names, nothing either side has
\* forgotten, the rules and bookmarks that travel, and the folder at it.
AnEndedExportIsTheSet ==
  answer = "done" => \E t \in copy.revisions :
    /\ copy.revisions = Ancestry(t)
    /\ copy.documents = Documents(t) \ copy.standins
    /\ Forgetting(t) \subseteq copy.standins
    /\ copy.rules = Travelling /\ copy.marks = MarksOf(t)
    /\ \A p \in Path : /\ (Tracks(t, p) => folder[p] = Shows(t, p))
                        /\ (~Tracks(t, p) /\ Seen(p) => ~Recorded(p))

\* "An interrupted run understates what is reachable ... and the next run
\* finishes the job" (export.rs): unless somebody wrote at the destination, an
\* export is not turned away from what an earlier one left there.
TheNextRunFinishesTheJob ==
  answer \in {"broken", "recorded", "refused"} => touched
=============================================================================
