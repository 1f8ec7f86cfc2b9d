-------------------------- MODULE PublishingProofs --------------------------
(***************************************************************************)
(* Theorems about what MCPublishing checks of exports and of rules.        *)
(*                                                                         *)
(* Of Exporting, for any graph, any documents and trees, any number of     *)
(* acts and any export stopped anywhere: whatever the set names is of its  *)
(* closure, and the closure is here before the first revision of the set   *)
(* is (Covered).  What an export takes away while it writes has been stood *)
(* in for, and what it takes away at the end is outside the closure; so    *)
(* once the folder is laid out the copy is the set and what is still to be *)
(* withdrawn (AtTheSet), and nothing the origin decides moves while it     *)
(* runs.                                                                   *)
(*                                                                         *)
(* Of Skipping, for any paths and any rules: a file that was recorded and  *)
(* stands, and that the walk leaves out, is left out by a rule that covers *)
(* it, by a rule for the exact path of a directory above it, or by a store *)
(* above it.  Of the stores above it the one nearest the top is one the    *)
(* walk met, so a record that is not refused has none of the three but the *)
(* second.                                                                 *)
(***************************************************************************)
EXTENDS MCPublishing, WellFoundedInduction, TLAPS

\* The copy holds the closure, and a stand-in for what the origin forgot of it.
Covered(t) ==
  /\ Closure(t) \subseteq copy.documents \cup copy.standins
  /\ Forgetting(t) \subseteq copy.standins

\* The folder holds what the set's tree holds, and nothing else that the
\* copy's own history could explain.
FolderAt(t) ==
  \A p \in Path :
    /\ Tracks(t, p) => folder[p] = Shows(t, p)
    /\ ~Tracks(t, p) /\ Seen(p) => ~Recorded(p)

\* The copy is the set, and whatever of an earlier one is still to be withdrawn.
AtTheSet(t) ==
  /\ Covered(t)
  /\ copy.standins \cap copy.documents = {}
  /\ Ancestry(t) \subseteq copy.revisions
  /\ copy.rules = Travelling /\ copy.marks = MarksOf(t)
  /\ FolderAt(t)

\* The inductive invariant.
IInv ==
  /\ TypeOK
  /\ NoRevisionOutlivesItsDocuments
  /\ run # Idle => run.target \in Revision /\ answer # "done"
  /\ run.step = "laid" => AtTheSet(run.target)
  /\ AnEndedExportIsTheSet
-----------------------------------------------------------------------------
(* The graph and the documents.                                            *)

\* An ancestry is of revisions, and the target's own is the first of them.
LEMMA AncestryOf ==
  ASSUME NEW t \in Revision
  PROVE  t \in Ancestry(t) /\ Ancestry(t) \subseteq Revision
BY DEF Ancestry, Reachable

\* The documents revisions name are contents.
LEMMA NamedAreContents ==
  ASSUME NEW R, R \subseteq Revision
  PROVE  Named(R) \subseteq Content
BY DocumentsAssumption DEF Named

\* What an ancestry names is of its closure, whatever has been forgotten.
LEMMA NamedIsClosed ==
  ASSUME NEW t \in Revision, gone \subseteq Content
  PROVE  Named(Ancestry(t)) \subseteq Closure(t) /\ Closure(t) \subseteq Content
<1>1. Named(Reachable[t]) \subseteq Content
  BY AncestryOf, NamedAreContents DEF Ancestry
<1>2. Closure(t) = {c \in Content : \A S \in SUBSET Content :
                      Named(Reachable[t]) \subseteq S /\ (\A d \in S \ gone : Quotes[d] \subseteq S) => c \in S}
  BY DEF Closure, Followed
<1>. QED
  BY <1>1, <1>2 DEF Ancestry

\* A text at a path of a tree is one of the documents its ancestry names.
LEMMA TextsAreNamed ==
  ASSUME NEW r \in Revision, NEW p \in Path, Tracks(r, p)
  PROVE  TreeOf[r][p] \in Named(Ancestry(r)) /\ TreeOf[r][p] \in Content
<1>1. TreeOf[r][p] \in Named(Ancestry(r))
  BY TreesAssumption DEF Tracks, Ancestry
<1>. QED
  BY <1>1, AncestryOf, NamedAreContents

\* What an export writes and what it writes a stand-in for is the closure.
LEMMA ClosureIsWritten ==
  ASSUME NEW t
  PROVE  Documents(t) \cup Forgetting(t) = Closure(t) /\ Documents(t) \cap gone = {}
BY DEF Documents, Forgetting

\* Once everything has been written the closure is here.
LEMMA SuppliedCovers ==
  ASSUME NEW t, Supplied(t)
  PROVE  Covered(t)
BY ClosureIsWritten DEF Supplied, Covered, Lacks, ForgottenBy

\* Names over a set that grows by one revision.
LEMMA NamedGrows ==
  ASSUME NEW R, NEW r
  PROVE  Named(R \cup {r}) = Named(R) \cup Names[r]
BY DEF Named

\* A smaller set names no more.
LEMMA NamedShrinks ==
  ASSUME NEW R, NEW S, S \subseteq R
  PROVE  Named(S) \subseteq Named(R)
BY DEF Named
-----------------------------------------------------------------------------
(* What the kinds of steps have in common.                                 *)

\* Between exports nothing is laid out and no export has ended.
LEMMA ActsKeep ==
  ASSUME IInv, Act, TypeOK', NoRevisionOutlivesItsDocuments'
  PROVE  IInv'
BY DEF IInv, Act, AnEndedExportIsTheSet, Idle

\* A write of a running export ends nothing.
LEMMA WritesKeep ==
  ASSUME IInv, NEW new, Writes(new), run.step \in {"writing", "laid"},
         TypeOK', NoRevisionOutlivesItsDocuments',
         run.step = "laid" => AtTheSet(run.target)'
  PROVE  IInv'
<1>1. run # Idle /\ run' = run /\ answer' = answer
  BY DEF Writes, Idle
<1>. QED
  BY <1>1 DEF IInv, AnEndedExportIsTheSet

\* An export that ends with nothing written ends otherwise than done.
LEMMA EndsKeep ==
  ASSUME IInv, NEW how, how # "done", Ends(how), TypeOK', NoRevisionOutlivesItsDocuments'
  PROVE  IInv'
BY DEF IInv, Ends, AnEndedExportIsTheSet, Idle

\* A copy that takes nothing away of what its revisions name keeps it.
LEMMA DocumentsStay ==
  ASSUME NoRevisionOutlivesItsDocuments, copy'.revisions \subseteq copy.revisions,
         copy.documents \cup copy.standins \subseteq copy'.documents \cup copy'.standins
  PROVE  NoRevisionOutlivesItsDocuments'
BY NamedShrinks DEF NoRevisionOutlivesItsDocuments, Named
-----------------------------------------------------------------------------
(* The origin, and people at the copy.                                     *)

LEMMA OriginKeeps ==
  ASSUME IInv, AtTheOrigin,
         held' \subseteq Revision, gone' \subseteq Content,
         rules' \in [Path -> {"none", "shared", "private"}],
         marks' \in [Mark -> [at : Revision \cup {Nobody}, private : BOOLEAN]]
  PROVE  IInv'
<1>1. TypeOK'
  <2>1. acts' \in 0..Acts
    BY ActsAssumption DEF IInv, TypeOK, AtTheOrigin, Act
  <2>. QED
    BY <2>1 DEF IInv, TypeOK, AtTheOrigin, Act
<1>2. NoRevisionOutlivesItsDocuments'
  BY DEF IInv, AtTheOrigin, NoRevisionOutlivesItsDocuments
<1>. QED
  BY <1>1, <1>2, ActsKeep DEF AtTheOrigin

LEMMA RecordKeeps ==
  ASSUME IInv, NEW r \in Revision, Record(r)
  PROVE  IInv'
BY OriginKeeps DEF Record, IInv, TypeOK

LEMMA ForgetKeeps ==
  ASSUME IInv, NEW c \in Content, Forget(c)
  PROVE  IInv'
BY OriginKeeps DEF Forget, IInv, TypeOK

LEMMA PruneOneKeeps ==
  ASSUME IInv, NEW x \in Revision, PruneOne(x)
  PROVE  IInv'
BY OriginKeeps DEF PruneOne, IInv, TypeOK

LEMMA RuleKeeps ==
  ASSUME IInv, NEW p \in Path, NEW axis \in {"none", "shared", "private"}, Rule(p, axis)
  PROVE  IInv'
BY OriginKeeps DEF Rule, IInv, TypeOK

LEMMA PointKeeps ==
  ASSUME IInv, NEW m \in Mark, NEW r \in held, NEW private \in BOOLEAN, Point(m, r, private)
  PROVE  IInv'
BY OriginKeeps DEF Point, IInv, TypeOK

\* What people write at the copy is a folder and a store.
LEMMA CopyTypes ==
  ASSUME TypeOK, AtTheCopy, folder' \in [Path -> FileText], NEW R \in SUBSET Revision,
         NEW D \in SUBSET Content, NEW S \in SUBSET Content,
         copy' = [copy EXCEPT !.revisions = R, !.documents = D, !.standins = S]
  PROVE  TypeOK'
<1>1. acts' \in 0..Acts
  BY ActsAssumption DEF TypeOK, AtTheCopy, Act
<1>2. copy' \in Store
  BY DEF TypeOK, Store
<1>. QED
  BY <1>1, <1>2 DEF TypeOK, AtTheCopy, Act, origin

LEMMA EditKeeps ==
  ASSUME IInv, NEW p \in Path, Edit(p)
  PROVE  IInv'
<1>1. TypeOK'
  <2>1. copy' = [copy EXCEPT !.revisions = copy.revisions, !.documents = copy.documents,
                             !.standins = copy.standins]
    BY DEF Edit, IInv, TypeOK, Store
  <2>2. folder' \in [Path -> FileText]
    BY DEF Edit, IInv, TypeOK, FileText
  <2>3. copy.revisions \in SUBSET Revision /\ copy.documents \in SUBSET Content /\ copy.standins \in SUBSET Content
    BY DEF IInv, TypeOK, Store
  <2>. QED
    BY <2>1, <2>2, <2>3, CopyTypes DEF IInv, Edit
<1>2. NoRevisionOutlivesItsDocuments'
  BY DEF IInv, Edit, NoRevisionOutlivesItsDocuments
<1>. QED
  BY <1>1, <1>2, ActsKeep DEF Edit, AtTheCopy

LEMMA RecordThereKeeps ==
  ASSUME IInv, NEW r \in Revision, RecordThere(r)
  PROVE  IInv'
<1>1. TypeOK'
  <2>1. copy' = [copy EXCEPT !.revisions = copy.revisions \cup {r}, !.documents = copy.documents \cup Names[r],
                             !.standins = copy.standins]
    BY DEF RecordThere, IInv, TypeOK, Store
  <2>2. copy.revisions \cup {r} \in SUBSET Revision /\ copy.documents \cup Names[r] \in SUBSET Content
        /\ copy.standins \in SUBSET Content /\ folder' \in [Path -> FileText]
    BY DocumentsAssumption DEF IInv, TypeOK, RecordThere, Store
  <2>. QED
    BY <2>1, <2>2, CopyTypes DEF IInv, RecordThere
<1>2. copy'.revisions = copy.revisions \cup {r} /\ copy'.documents = copy.documents \cup Names[r]
      /\ copy'.standins = copy.standins
  BY DEF RecordThere, IInv, TypeOK, Store
<1>3. NoRevisionOutlivesItsDocuments'
  BY <1>2, NamedGrows DEF IInv, NoRevisionOutlivesItsDocuments, Named
<1>. QED
  BY <1>1, <1>3, ActsKeep DEF RecordThere, AtTheCopy

LEMMA ForgetThereKeeps ==
  ASSUME IInv, NEW c \in Content, ForgetThere(c)
  PROVE  IInv'
<1>1. TypeOK'
  <2>1. copy' = [copy EXCEPT !.revisions = copy.revisions, !.documents = copy.documents \ {c},
                             !.standins = copy.standins \cup {c}]
    BY DEF ForgetThere, IInv, TypeOK, Store
  <2>2. copy.revisions \in SUBSET Revision /\ copy.documents \ {c} \in SUBSET Content
        /\ copy.standins \cup {c} \in SUBSET Content /\ folder' \in [Path -> FileText]
    BY DEF IInv, TypeOK, ForgetThere, Store
  <2>. QED
    BY <2>1, <2>2, CopyTypes DEF IInv, ForgetThere
<1>2. copy'.revisions = copy.revisions /\ copy'.documents = copy.documents \ {c}
      /\ copy'.standins = copy.standins \cup {c}
  BY DEF ForgetThere, IInv, TypeOK, Store
<1>3. NoRevisionOutlivesItsDocuments'
  BY <1>2, DocumentsStay DEF IInv
<1>. QED
  BY <1>1, <1>3, ActsKeep DEF ForgetThere, AtTheCopy
-----------------------------------------------------------------------------
(* The writes of an export.                                                *)

\* A write of the copy is all the write there is.
LEMMA WriteTypes ==
  ASSUME TypeOK, NEW new \in Store, Writes(new)
  PROVE  TypeOK'
BY DEF TypeOK, Writes, origin

LEMMA RemoveSkippedKeeps ==
  ASSUME IInv, NEW p \in Path, RemoveSkipped(p)
  PROVE  IInv'
<1>. DEFINE new == [copy EXCEPT !.rules = @ \ {p}]
<1>1. Writes(new) /\ run.step = "writing" /\ copy' = new
  BY DEF RemoveSkipped, Writing, Writes
<1>2. new \in Store /\ new.revisions = copy.revisions /\ new.documents = copy.documents /\ new.standins = copy.standins
  BY DEF IInv, TypeOK, Store
<1>3. NoRevisionOutlivesItsDocuments'
  BY <1>1, <1>2, DocumentsStay DEF IInv
<1>. QED
  BY <1>1, <1>2, <1>3, WriteTypes, WritesKeep DEF IInv

LEMMA AddSkippedKeeps ==
  ASSUME IInv, NEW p \in Path, AddSkipped(p)
  PROVE  IInv'
<1>. DEFINE new == [copy EXCEPT !.rules = @ \cup {p}]
<1>1. Writes(new) /\ run.step = "writing" /\ copy' = new
  BY DEF AddSkipped, Writing, Writes
<1>2. new \in Store /\ new.revisions = copy.revisions /\ new.documents = copy.documents /\ new.standins = copy.standins
  BY DEF IInv, TypeOK, Store
<1>3. NoRevisionOutlivesItsDocuments'
  BY <1>1, <1>2, DocumentsStay DEF IInv
<1>. QED
  BY <1>1, <1>2, <1>3, WriteTypes, WritesKeep DEF IInv

LEMMA RemoveNameKeeps ==
  ASSUME IInv, NEW m \in Mark, RemoveName(m)
  PROVE  IInv'
<1>. DEFINE new == [copy EXCEPT !.marks[m] = Nobody]
<1>1. Writes(new) /\ run.step = "writing" /\ copy' = new
  BY DEF RemoveName, Writing, Writes
<1>2. new \in Store /\ new.revisions = copy.revisions /\ new.documents = copy.documents /\ new.standins = copy.standins
  BY DEF IInv, TypeOK, Store
<1>3. NoRevisionOutlivesItsDocuments'
  BY <1>1, <1>2, DocumentsStay DEF IInv
<1>. QED
  BY <1>1, <1>2, <1>3, WriteTypes, WritesKeep DEF IInv

LEMMA SetBookmarkKeeps ==
  ASSUME IInv, NEW m \in Mark, SetBookmark(m)
  PROVE  IInv'
<1>. DEFINE new == [copy EXCEPT !.marks[m] = marks[m].at]
<1>1. Writes(new) /\ run.step = "writing" /\ copy' = new
  BY DEF SetBookmark, Writing, Writes
<1>2. new \in Store /\ new.revisions = copy.revisions /\ new.documents = copy.documents /\ new.standins = copy.standins
  BY DEF IInv, TypeOK, Store
<1>3. NoRevisionOutlivesItsDocuments'
  BY <1>1, <1>2, DocumentsStay DEF IInv
<1>. QED
  BY <1>1, <1>2, <1>3, WriteTypes, WritesKeep DEF IInv

LEMMA InsertDocumentKeeps ==
  ASSUME IInv, NEW c \in Content, InsertDocument(c)
  PROVE  IInv'
<1>. DEFINE new == [copy EXCEPT !.documents = @ \cup {c}]
<1>1. Writes(new) /\ run.step = "writing" /\ copy' = new
  BY DEF InsertDocument, Writing, Writes
<1>2. new \in Store /\ new.revisions = copy.revisions /\ copy.documents \subseteq new.documents
      /\ new.standins = copy.standins
  BY DEF IInv, TypeOK, Store
<1>3. NoRevisionOutlivesItsDocuments'
  BY <1>1, <1>2, DocumentsStay DEF IInv
<1>. QED
  BY <1>1, <1>2, <1>3, WriteTypes, WritesKeep DEF IInv

LEMMA InsertForgettingKeeps ==
  ASSUME IInv, NEW c \in Content, InsertForgetting(c)
  PROVE  IInv'
<1>. DEFINE new == [copy EXCEPT !.standins = @ \cup {c}]
<1>1. Writes(new) /\ run.step = "writing" /\ copy' = new
  BY DEF InsertForgetting, Writing, Writes
<1>2. new \in Store /\ new.revisions = copy.revisions /\ new.documents = copy.documents
      /\ copy.standins \subseteq new.standins
  BY DEF IInv, TypeOK, Store
<1>3. NoRevisionOutlivesItsDocuments'
  BY <1>1, <1>2, DocumentsStay DEF IInv
<1>. QED
  BY <1>1, <1>2, <1>3, WriteTypes, WritesKeep DEF IInv

\* A document is destroyed only once something stands in for it.
LEMMA ComplyWithForgettingKeeps ==
  ASSUME IInv, NEW c \in Content, ComplyWithForgetting(c)
  PROVE  IInv'
<1>. DEFINE new == [copy EXCEPT !.documents = @ \ {c}]
<1>1. Writes(new) /\ run.step = "writing" /\ copy' = new
  BY DEF ComplyWithForgetting, Writing, Writes
<1>2. new \in Store /\ new.revisions = copy.revisions /\ new.documents = copy.documents \ {c}
      /\ new.standins = copy.standins
  BY DEF IInv, TypeOK, Store
<1>3. c \in copy.standins
  BY DEF ComplyWithForgetting, Supplied, Destroys, ForgottenBy
<1>4. NoRevisionOutlivesItsDocuments'
  BY <1>1, <1>2, <1>3, DocumentsStay DEF IInv
<1>. QED
  BY <1>1, <1>2, <1>4, WriteTypes, WritesKeep DEF IInv

\* A revision arrives after everything it names.
LEMMA InsertRevisionKeeps ==
  ASSUME IInv, NEW r \in Revision, InsertRevision(r)
  PROVE  IInv'
<1>. DEFINE new == [copy EXCEPT !.revisions = @ \cup {r}]
            t == run.target
<1>1. Writes(new) /\ run.step = "writing" /\ copy' = new
  BY DEF InsertRevision, Writing, Writes
<1>2. new \in Store /\ new.revisions = copy.revisions \cup {r} /\ new.documents = copy.documents
      /\ new.standins = copy.standins
  BY DEF IInv, TypeOK, Store
<1>3. t \in Revision /\ gone \subseteq Content
  BY <1>1 DEF IInv, TypeOK, Idle
<1>4. Names[r] \subseteq Closure(t)
  BY <1>3, NamedIsClosed DEF InsertRevision, Named
<1>5. Closure(t) \subseteq copy.documents \cup copy.standins
  BY SuppliedCovers DEF InsertRevision, Covered
<1>6. NoRevisionOutlivesItsDocuments'
  <2>1. copy'.revisions = copy.revisions \cup {r} /\ copy'.documents = copy.documents
        /\ copy'.standins = copy.standins
    BY <1>1, <1>2
  <2>2. Named(copy.revisions) \subseteq copy.documents \cup copy.standins
    BY DEF IInv, NoRevisionOutlivesItsDocuments
  <2>. QED
    BY <2>1, <2>2, <1>4, <1>5 DEF NoRevisionOutlivesItsDocuments, Named
<1>. QED
  BY <1>1, <1>2, <1>6, WriteTypes, WritesKeep DEF IInv
-----------------------------------------------------------------------------
(* The folder, and what is withdrawn.                                      *)

\* Laying out makes the folder the target's, by the copy's own history: what
\* is left standing beside it is what no revision here explains.
LEMMA LayOutKeeps ==
  ASSUME IInv, LayOut
  PROVE  IInv'
<1>. PICK t : t = run.target
  OBVIOUS
<1>1. t \in Revision /\ run.step = "writing" /\ run # Idle /\ Supplied(t) /\ Destroys(t) = {}
      /\ Ancestry(t) \subseteq copy.revisions
  BY DEF IInv, LayOut, Writing, Idle
<1>2. UNCHANGED <<origin, copy, dir, touched, acts>>
  BY DEF LayOut
<1>3. CASE Refuses(t, run.wholesale)
  <2>1. Ends("refused") /\ folder' = folder
    BY <1>3 DEF LayOut
  <2>2. TypeOK'
    BY <1>2, <2>1 DEF IInv, TypeOK, Ends, origin, Idle
  <2>3. NoRevisionOutlivesItsDocuments'
    BY <1>2 DEF IInv, NoRevisionOutlivesItsDocuments
  <2>. QED
    BY <2>1, <2>2, <2>3, EndsKeep
<1>4. CASE ~Refuses(t, run.wholesale)
  <2>. DEFINE laid == [p \in Path |->
                IF Tracks(t, p) THEN Shows(t, p)
                ELSE IF Seen(p) /\ (run.wholesale \/ Recorded(p)) THEN Missing ELSE folder[p]]
  <2>1. run' = [run EXCEPT !.step = "laid"] /\ answer' = answer /\ folder' = laid
    BY <1>4 DEF LayOut
  <2>2. run'.step = "laid" /\ run'.target = t /\ run' # Idle
        /\ run' \in [step : {"idle", "init", "writing", "laid"}, target : Revision \cup {Nobody}, wholesale : BOOLEAN]
    BY <2>1, <1>1 DEF IInv, TypeOK, Idle
  <2>3. laid \in [Path -> FileText]
    <3>1. ASSUME NEW p \in Path, Tracks(t, p)
          PROVE  Shows(t, p) \in FileText
      <4>1. TreeOf[t][p] \in Content
        BY <1>1, <3>1, TextsAreNamed
      <4>2. \A c \in Content : \A S : Text(c, S) \in FileText
        BY DEF FileText, Text
      <4>. QED
        BY <3>1, <4>1, <4>2 DEF Shows
    <3>. QED
      BY <3>1 DEF IInv, TypeOK, FileText
  <2>4. TypeOK'
    BY <1>2, <2>1, <2>2, <2>3 DEF IInv, TypeOK, origin
  <2>5. NoRevisionOutlivesItsDocuments'
    BY <1>2 DEF IInv, NoRevisionOutlivesItsDocuments
  <2>6. Covered(t)'
    BY <1>1, <1>2, SuppliedCovers DEF Covered, Closure, Forgetting, origin
  <2>7. FolderAt(t)'
    <3>. SUFFICES ASSUME NEW p \in Path
         PROVE  /\ Tracks(t, p) => folder'[p] = Shows(t, p)'
                /\ ~Tracks(t, p) /\ Seen(p)' => ~Recorded(p)'
      BY DEF FolderAt, Tracks
    <3>1. Shows(t, p)' = Shows(t, p)
      BY <1>2 DEF Shows, Tracks
    <3>2. CASE Tracks(t, p)
      BY <3>1, <3>2, <2>1
    <3>3. CASE ~Tracks(t, p) /\ Seen(p)'
      <4>1. folder'[p] = folder[p] /\ ~(Seen(p) /\ Recorded(p))
        BY <3>3, <2>1 DEF Seen
      <4>2. Seen(p)
        BY <3>3, <4>1, <1>2 DEF Seen
      <4>3. Recorded(p)' <=> Recorded(p)
        BY <4>1, <1>2 DEF Recorded, Readable, Shows, Tracks
      <4>. QED
        BY <3>3, <4>1, <4>2, <4>3
    <3>. QED
      BY <3>2, <3>3
  <2>8. AtTheSet(t)'
    <3>1. copy.standins \cap copy.documents = {}
      BY <1>1 DEF Destroys, ForgottenBy
    <3>2. copy.rules = Travelling /\ copy.marks = MarksOf(t)
      BY <1>1 DEF Supplied, Stated
    <3>3. Travelling' = Travelling /\ MarksOf(t)' = MarksOf(t)
      BY <1>2 DEF Travelling, MarksOf, Pointing, origin
    <3>. QED
      BY <1>1, <1>2, <2>6, <2>7, <3>1, <3>2, <3>3 DEF AtTheSet
  <2>9. answer' # "done"
    BY <2>1, <1>1 DEF IInv
  <2>. QED
    BY <1>1, <2>2, <2>4, <2>5, <2>8, <2>9 DEF IInv, AnEndedExportIsTheSet
<1>. QED
  BY <1>3, <1>4

\* A copy at its set stays at it while what the set does not name goes: the
\* folder's texts are of the closure, and less is explained by less.
LEMMA WithdrawalsKeep ==
  ASSUME IInv, NEW new \in Store, Writes(new), run.step = "laid",
         Ancestry(run.target) \subseteq new.revisions, new.revisions \subseteq copy.revisions,
         new.rules = copy.rules, new.marks = copy.marks,
         new.documents \subseteq copy.documents, new.standins \subseteq copy.standins,
         copy.documents \ new.documents \subseteq copy.documents \ Documents(run.target),
         copy.standins \ new.standins \subseteq copy.standins \ Spared(run.target),
         new.standins # copy.standins => copy.revisions \subseteq Ancestry(run.target),
         new.documents # copy.documents => copy.revisions \subseteq Ancestry(run.target)
  PROVE  IInv'
<1>. PICK t : t = run.target
  OBVIOUS
<1>1. t \in Revision /\ AtTheSet(t) /\ run # Idle /\ gone \subseteq Content
  BY DEF IInv, Idle, TypeOK
<1>2. copy' = new /\ UNCHANGED <<held, gone, rules, marks, folder, run, answer>>
  BY DEF Writes, origin
<1>3. /\ Documents(t) \cap copy.documents \subseteq new.documents
      /\ Spared(t) \cap copy.standins \subseteq new.standins
  OBVIOUS
<1>4. copy.standins \cap Closure(t) \subseteq Spared(t) /\ Forgetting(t) \subseteq Spared(t)
  BY ClosureIsWritten DEF Spared
<1>5. Closure(t) \subseteq new.documents \cup new.standins /\ Forgetting(t) \subseteq new.standins
  <2>1. Closure(t) \subseteq copy.documents \cup copy.standins /\ Forgetting(t) \subseteq copy.standins
    BY <1>1 DEF AtTheSet, Covered
  <2>2. Closure(t) = Documents(t) \cup Forgetting(t)
    BY ClosureIsWritten
  <2>. QED
    BY <1>3, <1>4, <2>1, <2>2
<1>6. Covered(t)'
  <2>1. Closure(t)' = Closure(t) /\ Forgetting(t)' = Forgetting(t)
    BY <1>2 DEF Closure, Forgetting
  <2>. QED
    BY <1>2, <1>5, <2>1 DEF Covered
<1>7. NoRevisionOutlivesItsDocuments'
  <2>1. CASE copy.revisions \subseteq Ancestry(t)
    <3>1. Named(new.revisions) \subseteq Named(Ancestry(t))
      BY <2>1, NamedShrinks
    <3>. QED
      BY <3>1, <1>1, <1>2, <1>5, NamedIsClosed DEF NoRevisionOutlivesItsDocuments, Named
  <2>2. CASE ~(copy.revisions \subseteq Ancestry(t))
    BY <2>2, <1>2, DocumentsStay DEF IInv
  <2>. QED
    BY <2>1, <2>2
<1>8. \A r \in Revision, p \in Path : Tracks(r, p) /\ TreeOf[r][p] \in Closure(t) => Shows(r, p)' = Shows(r, p)
  <2>. SUFFICES ASSUME NEW r \in Revision, NEW p \in Path, Tracks(r, p), TreeOf[r][p] \in Closure(t)
       PROVE  Shows(r, p)' = Shows(r, p)
    OBVIOUS
  <2>1. TreeOf[r][p] \in copy.standins <=> TreeOf[r][p] \in new.standins
    BY <1>3, <1>4
  <2>. QED
    BY <2>1, <1>2 DEF Shows, Text, Tracks
<1>9. FolderAt(t)'
  <2>. SUFFICES ASSUME NEW p \in Path
       PROVE  /\ Tracks(t, p) => folder[p] = Shows(t, p)'
              /\ ~Tracks(t, p) /\ Seen(p)' => ~Recorded(p)'
    BY <1>2 DEF FolderAt, Tracks
  <2>1. ASSUME Tracks(t, p)
        PROVE  folder[p] = Shows(t, p)'
    <3>1. TreeOf[t][p] \in Closure(t)
      BY <2>1, <1>1, TextsAreNamed, NamedIsClosed
    <3>2. folder[p] = Shows(t, p)
      BY <2>1, <1>1 DEF AtTheSet, FolderAt
    <3>. QED
      BY <2>1, <3>1, <3>2, <1>1, <1>8
  <2>2. ASSUME ~Tracks(t, p), Seen(p)', Recorded(p)'
        PROVE  FALSE
    <3>1. ~Recorded(p)
      BY <2>2, <1>1, <1>2 DEF AtTheSet, FolderAt, Seen
    <3>2. PICK r \in copy'.revisions : Readable(r)' /\ Tracks(r, p) /\ folder[p] = Shows(r, p)'
      BY <2>2, <1>2 DEF Recorded, Tracks
    <3>3. r \in copy.revisions /\ r \in Revision
      BY <3>2, <1>2 DEF IInv, TypeOK, Store
    <3>4. Readable(r)
      BY <3>2, <1>2 DEF Readable
    <3>5. TreeOf[r][p] \in new.documents \cup new.standins
      BY <3>2, <3>3, <1>2, TextsAreNamed DEF Readable
    <3>6. Shows(r, p)' = Shows(r, p)
      <4>1. TreeOf[r][p] \in copy.standins => TreeOf[r][p] \in new.standins
        BY <3>5, <1>1 DEF AtTheSet
      <4>. QED
        BY <4>1, <1>2, <3>2 DEF Shows, Text, Tracks
    <3>. QED
      BY <3>1, <3>2, <3>3, <3>4, <3>6 DEF Recorded
  <2>. QED
    BY <2>1, <2>2
<1>10. AtTheSet(t)'
  <2>1. Travelling' = Travelling /\ MarksOf(t)' = MarksOf(t)
    BY <1>2 DEF Travelling, MarksOf, Pointing
  <2>. QED
    BY <1>1, <1>2, <1>6, <1>9, <2>1 DEF AtTheSet
<1>. QED
  BY <1>2, <1>7, <1>10, WriteTypes, WritesKeep DEF IInv

LEMMA WithdrawRevisionKeeps ==
  ASSUME IInv, NEW r \in Revision, WithdrawRevision(r)
  PROVE  IInv'
<1>. DEFINE new == [copy EXCEPT !.revisions = @ \ {r}]
<1>1. Writes(new) /\ run.step = "laid" /\ r \notin Ancestry(run.target)
  BY DEF WithdrawRevision
<1>2. new \in Store /\ new.revisions = copy.revisions \ {r} /\ new.documents = copy.documents
      /\ new.standins = copy.standins /\ new.rules = copy.rules /\ new.marks = copy.marks
  BY DEF IInv, TypeOK, Store
<1>3. Ancestry(run.target) \subseteq copy.revisions
  BY <1>1 DEF IInv, AtTheSet
<1>. QED
  BY <1>1, <1>2, <1>3, WithdrawalsKeep

LEMMA WithdrawDocumentKeeps ==
  ASSUME IInv, NEW c \in Content, WithdrawDocument(c)
  PROVE  IInv'
<1>1. run.step = "laid" /\ copy.revisions \subseteq Ancestry(run.target)
  BY DEF WithdrawDocument
<1>2. Ancestry(run.target) \subseteq copy.revisions
  BY <1>1 DEF IInv, AtTheSet
<1>3. CASE c \in copy.documents \ Documents(run.target) /\ Writes([copy EXCEPT !.documents = @ \ {c}])
  <2>. DEFINE new == [copy EXCEPT !.documents = @ \ {c}]
  <2>1. new \in Store /\ new.revisions = copy.revisions /\ new.documents = copy.documents \ {c}
        /\ new.standins = copy.standins /\ new.rules = copy.rules /\ new.marks = copy.marks
    BY DEF IInv, TypeOK, Store
  <2>. QED
    BY <1>1, <1>2, <1>3, <2>1, WithdrawalsKeep
<1>4. CASE c \in copy.standins \ Spared(run.target) /\ Writes([copy EXCEPT !.standins = @ \ {c}])
  <2>. DEFINE new == [copy EXCEPT !.standins = @ \ {c}]
  <2>1. new \in Store /\ new.revisions = copy.revisions /\ new.documents = copy.documents
        /\ new.standins = copy.standins \ {c} /\ new.rules = copy.rules /\ new.marks = copy.marks
    BY DEF IInv, TypeOK, Store
  <2>. QED
    BY <1>1, <1>2, <1>4, <2>1, WithdrawalsKeep
<1>. QED
  BY <1>3, <1>4 DEF WithdrawDocument
-----------------------------------------------------------------------------
(* How an export begins and ends.                                          *)

LEMMA ExportKeeps ==
  ASSUME IInv, NEW t \in Revision, Export(t)
  PROVE  IInv'
<1>1. UNCHANGED <<origin, dir, copy, folder, touched, acts>> /\ run = Idle
  BY DEF Export
<1>2. NoRevisionOutlivesItsDocuments'
  BY <1>1 DEF IInv, NoRevisionOutlivesItsDocuments
<1>3. ASSUME NEW how \in {"occupied", "broken", "unrelated", "recorded"}, Ends(how)
      PROVE  IInv'
  <2>1. TypeOK'
    BY <1>1, <1>3 DEF IInv, TypeOK, Ends, origin, Idle
  <2>. QED
    BY <1>2, <1>3, <2>1, EndsKeep
<1>4. ASSUME NEW step \in {"init", "writing"}, NEW wholesale \in BOOLEAN, answer' = "none",
             run' = [step |-> step, target |-> t, wholesale |-> wholesale]
      PROVE  IInv'
  <2>1. TypeOK'
    BY <1>1, <1>4 DEF IInv, TypeOK, origin
  <2>2. run'.target = t /\ run'.step # "laid"
    BY <1>4
  <2>. QED
    BY <1>2, <1>4, <2>1, <2>2 DEF IInv, AnEndedExportIsTheSet
<1>5. \/ \E how \in {"occupied", "broken", "unrelated", "recorded"} : Ends(how)
      \/ /\ answer' = "none"
         /\ \E step \in {"init", "writing"}, wholesale \in BOOLEAN :
              run' = [step |-> step, target |-> t, wholesale |-> wholesale]
  <2>. DEFINE wholesale == (Withdraws(t) \/ Destroys(t) # {}) /\ Undisturbed
  <2>1. wholesale \in BOOLEAN
    OBVIOUS
  <2>. QED
    BY <2>1 DEF Export
<1>. QED
  BY <1>3, <1>4, <1>5

LEMMA MakeKeeps ==
  ASSUME IInv, Make
  PROVE  IInv'
<1>1. UNCHANGED <<origin, copy, folder, answer, touched, acts>> /\ run # Idle /\ run.step = "init"
  BY DEF Make, Idle
<1>2. run' = run \/ run' = [run EXCEPT !.step = "writing"]
  BY DEF Make
<1>3. run' \in [step : {"idle", "init", "writing", "laid"}, target : Revision \cup {Nobody}, wholesale : BOOLEAN]
      /\ run'.target = run.target /\ run'.step \in {"init", "writing"}
  BY <1>1, <1>2 DEF IInv, TypeOK
<1>4. TypeOK'
  BY <1>1, <1>3 DEF IInv, TypeOK, origin, Make
<1>5. NoRevisionOutlivesItsDocuments'
  BY <1>1 DEF IInv, NoRevisionOutlivesItsDocuments
<1>6. run'.target \in Revision /\ answer' # "done"
  BY <1>1, <1>3 DEF IInv
<1>. QED
  BY <1>3, <1>4, <1>5, <1>6 DEF IInv, AnEndedExportIsTheSet

LEMMA StopKeeps ==
  ASSUME IInv, Stop
  PROVE  IInv'
<1>1. TypeOK'
  BY DEF IInv, TypeOK, Stop, Ends, Idle, origin
<1>2. NoRevisionOutlivesItsDocuments'
  BY DEF IInv, Stop, NoRevisionOutlivesItsDocuments
<1>. QED
  BY <1>1, <1>2, EndsKeep DEF Stop

\* What is left when an export ends is the set and nothing else.
LEMMA FinishKeeps ==
  ASSUME IInv, Finish
  PROVE  IInv'
<1>. PICK t : t = run.target
  OBVIOUS
<1>1. t \in Revision /\ AtTheSet(t)
  BY DEF IInv, Finish, Idle
<1>2. UNCHANGED <<held, gone, rules, marks, dir, copy, folder, touched, acts>> /\ run' = Idle /\ answer' = "done"
  BY DEF Finish, Ends, origin
<1>3. TypeOK'
  BY <1>2 DEF IInv, TypeOK, Idle
<1>4. NoRevisionOutlivesItsDocuments'
  BY <1>2 DEF IInv, NoRevisionOutlivesItsDocuments
<1>5. t \in copy.revisions /\ copy.revisions = Ancestry(t)
  BY <1>1, AncestryOf DEF Finish
<1>6. copy.documents = Documents(t) \ copy.standins
  <2>1. Documents(t) \subseteq copy.documents \cup copy.standins
    BY <1>1, ClosureIsWritten DEF AtTheSet, Covered
  <2>2. copy.documents \subseteq Documents(t) /\ copy.standins \cap copy.documents = {}
    BY <1>1 DEF Finish, AtTheSet
  <2>. QED
    BY <2>1, <2>2
<1>7. Forgetting(t) \subseteq copy.standins /\ copy.rules = Travelling /\ copy.marks = MarksOf(t) /\ FolderAt(t)
  BY <1>1 DEF AtTheSet, Covered
<1>8. AnEndedExportIsTheSet
  BY <1>5, <1>6, <1>7 DEF AnEndedExportIsTheSet, FolderAt
<1>9. AnEndedExportIsTheSet'
  <2>. SUFFICES /\ t \in copy'.revisions /\ copy'.revisions = Ancestry(t)
                /\ copy'.documents = (Documents(t) \ copy.standins)'
                /\ Forgetting(t)' \subseteq copy'.standins
                /\ copy'.rules = Travelling' /\ copy'.marks = MarksOf(t)'
                /\ \A p \in Path : /\ Tracks(t, p) => folder'[p] = Shows(t, p)'
                                   /\ ~Tracks(t, p) /\ Seen(p)' => ~Recorded(p)'
    BY DEF AnEndedExportIsTheSet, Tracks, Ancestry
  <2>1. /\ Documents(t)' = Documents(t) /\ Forgetting(t)' = Forgetting(t)
        /\ Travelling' = Travelling /\ MarksOf(t)' = MarksOf(t)
    BY <1>2 DEF Documents, Forgetting, Closure, Travelling, MarksOf, Pointing
  <2>2. \A p \in Path : /\ Shows(t, p)' = Shows(t, p) /\ Seen(p)' = Seen(p)
                        /\ Recorded(p)' = Recorded(p)
    BY <1>2 DEF Shows, Seen, Recorded, Readable, Tracks
  <2>. QED
    BY <1>2, <1>5, <1>6, <1>7, <2>1, <2>2 DEF FolderAt
<1>. QED
  BY <1>2, <1>3, <1>4, <1>9 DEF IInv, Idle
-----------------------------------------------------------------------------
LEMMA InitHolds == Init => IInv
<1>. SUFFICES ASSUME Init PROVE IInv
  OBVIOUS
<1>1. TypeOK
  <2>1. held \subseteq Revision /\ gone \subseteq Content /\ acts \in 0..Acts
    BY ActsAssumption DEF Init
  <2>2. folder \in [Path -> FileText]
    BY DEF Init, FileText
  <2>3. copy \in Store
    BY DEF Init, NoCopy, Store
  <2>4. rules \in [Path -> {"none", "shared", "private"}]
        /\ marks \in [Mark -> [at : Revision \cup {Nobody}, private : BOOLEAN]]
    BY DEF Init, Unpointed
  <2>5. run \in [step : {"idle", "init", "writing", "laid"}, target : Revision \cup {Nobody}, wholesale : BOOLEAN]
    BY DEF Init, Idle
  <2>. QED
    BY <2>1, <2>2, <2>3, <2>4, <2>5 DEF Init, TypeOK
<1>2. NoRevisionOutlivesItsDocuments
  BY DEF Init, NoRevisionOutlivesItsDocuments, NoCopy, Named
<1>. QED
  BY <1>1, <1>2 DEF Init, IInv, Idle, AnEndedExportIsTheSet

LEMMA StepKeeps == IInv /\ [Next]_vars => IInv'
<1>. SUFFICES ASSUME IInv, [Next]_vars PROVE IInv'
  OBVIOUS
<1>1. CASE \E r \in Revision : \/ Record(r) \/ PruneOne(r) \/ RecordThere(r) \/ Export(r)
                               \/ InsertRevision(r) \/ WithdrawRevision(r)
  BY <1>1, RecordKeeps, PruneOneKeeps, RecordThereKeeps, ExportKeeps, InsertRevisionKeeps, WithdrawRevisionKeeps
<1>2. CASE \E c \in Content : \/ Forget(c) \/ ForgetThere(c) \/ InsertDocument(c)
                              \/ InsertForgetting(c) \/ ComplyWithForgetting(c) \/ WithdrawDocument(c)
  BY <1>2, ForgetKeeps, ForgetThereKeeps, InsertDocumentKeeps, InsertForgettingKeeps,
     ComplyWithForgettingKeeps, WithdrawDocumentKeeps
<1>3. CASE \E p \in Path : \/ Edit(p) \/ RemoveSkipped(p) \/ AddSkipped(p)
                           \/ \E axis \in {"none", "shared", "private"} : Rule(p, axis)
  BY <1>3, EditKeeps, RemoveSkippedKeeps, AddSkippedKeeps, RuleKeeps
<1>4. CASE \E m \in Mark : \/ RemoveName(m) \/ SetBookmark(m)
                           \/ \E r \in held, private \in BOOLEAN : Point(m, r, private)
  BY <1>4, RemoveNameKeeps, SetBookmarkKeeps, PointKeeps
<1>5. CASE Make \/ LayOut \/ Finish \/ Stop
  BY <1>5, MakeKeeps, LayOutKeeps, FinishKeeps, StopKeeps
<1>6. CASE UNCHANGED vars
  <2>1. TypeOK'
    BY <1>6 DEF IInv, TypeOK, vars
  <2>2. NoRevisionOutlivesItsDocuments'
    BY <1>6 DEF IInv, NoRevisionOutlivesItsDocuments, vars
  <2>3. \A t : AtTheSet(t)' <=> AtTheSet(t)
    BY <1>6 DEF vars, AtTheSet, Covered, FolderAt, Closure, Forgetting, Travelling, MarksOf,
                Pointing, Shows, Seen, Recorded, Readable, Tracks
  <2>4. AnEndedExportIsTheSet'
    BY <1>6 DEF IInv, vars, AnEndedExportIsTheSet, Closure, Documents, Forgetting, Travelling, MarksOf,
                Pointing, Shows, Seen, Recorded, Readable, Tracks
  <2>. QED
    BY <1>6, <2>1, <2>2, <2>3, <2>4 DEF IInv, vars
<1>. QED
  BY <1>1, <1>2, <1>3, <1>4, <1>5, <1>6 DEF Next

\* Every state of every history of exports has the invariant.
THEOREM Invariant == Spec => []IInv
BY InitHolds, StepKeeps, PTL DEF Spec

\* The store, the folder and the run are what export.rs says they are.
THEOREM TypeCorrect == Spec => []TypeOK
<1>1. IInv => TypeOK
  BY DEF IInv
<1>. QED
  BY <1>1, Invariant, PTL

\* Wherever an export stands or was stopped, every document that a revision of
\* the copy names is there or is stood in for (Store::export_onto).
THEOREM NothingIsOutlived == Spec => []NoRevisionOutlivesItsDocuments
<1>1. IInv => NoRevisionOutlivesItsDocuments
  BY DEF IInv
<1>. QED
  BY <1>1, Invariant, PTL

\* An export that ended leaves the set and nothing else, whatever exports were
\* stopped, retargeted, or overtaken by forgettings before it (Store::export_onto).
THEOREM TheSetIsExported == Spec => []AnEndedExportIsTheSet
<1>1. IInv => AnEndedExportIsTheSet
  BY DEF IInv
<1>. QED
  BY <1>1, Invariant, PTL
-----------------------------------------------------------------------------
(* Recording under rules.                                                  *)

\* The paths there are, and the store's own directory is never in a record.
SkipInv ==
  /\ stated \subseteq SkipRule
  /\ stands \subseteq SkipPath /\ tracked \subseteq SkipPath
  /\ \A path \in tracked : ~Skips!Under(<<StoreName>>, path)

\* Of some lengths one is the least.
LEMMA Shortest ==
  ASSUME NEW T \in SUBSET Nat, T # {}
  PROVE  \E n \in T : \A m \in T : n <= m
<1>. DEFINE R == OpToRel(<, Nat)
<1>1. \E n \in T : \A m \in T : ~(<<m, n>> \in R)
  <2>. HIDE DEF R
  <2>1. IsWellFoundedOn(R, Nat)
    BY NatLessThanWellFounded DEF R
  <2>. QED
    BY <2>1, WFMin
<1>2. PICK n \in T : \A m \in T : ~(<<m, n>> \in R)
  BY <1>1
<1>3. n \in Nat /\ \A m \in T : m \in Nat /\ ~(m < n)
  BY <1>2 DEF OpToRel
<1>. QED
  BY <1>3

\* What is above a path is the path up to one of its names, and the path is
\* under it.
LEMMA AboveAPath ==
  ASSUME NEW path \in SkipPath, NEW above \in Skips!Above(path)
  PROVE  /\ Skips!Under(above, path)
         /\ Len(above) \in 1 .. Len(path) - 1
         /\ above = SubSeq(path, 1, Len(above))
         /\ above[Len(above)] = path[Len(above)]
         /\ Skips!Above(above) \subseteq Skips!Above(path)
         /\ \A higher \in Skips!Above(above) : Len(higher) \in 1 .. Len(above) - 1
<1> DEFINE S == {path[n] : n \in DOMAIN path}
<1>1. path \in Seq(S)
  BY PathsAssumption
<1>2. PICK n \in 1 .. Len(path) - 1 : above = SubSeq(path, 1, n)
  BY DEF Skips!Above
<1> HIDE DEF S
<1>3. above \in Seq(S) /\ Len(above) = n /\ \A k \in 1 .. n : above[k] = path[k]
  BY <1>1, <1>2
<1>4. Skips!Under(above, path)
  BY <1>1, <1>2, <1>3 DEF Skips!Under, Skips!IsStrictPrefix, Skips!IsPrefix
<1>5. ASSUME NEW higher \in Skips!Above(above)
      PROVE  higher \in Skips!Above(path) /\ Len(higher) \in 1 .. Len(above) - 1
  <2>1. PICK m \in 1 .. n - 1 : higher = SubSeq(above, 1, m)
    BY <1>3, <1>5 DEF Skips!Above
  <2>2. higher = SubSeq(path, 1, m)
    BY <1>1, <1>3, <2>1
  <2>3. Len(higher) = m
    BY <1>3, <2>1
  <2>. QED
    BY <1>1, <1>3, <2>1, <2>2, <2>3 DEF Skips!Above
<1>. QED
  BY <1>2, <1>3, <1>4, <1>5

\* What is asked of a whole directory is asked of each file beneath it too, but
\* for a rule for one exact path.
LEMMA ClosedIsCovered ==
  ASSUME NEW path \in SkipPath, NEW above \in Skips!Above(path), NEW rule \in SkipRule,
         Skips!Closes(rule, above), rule.kind # "Path"
  PROVE  Skips!Covers(rule, path)
<1>1. /\ Skips!Under(above, path) /\ Len(above) \in 1 .. Len(path) - 1
      /\ above[Len(above)] = path[Len(above)]
  BY AboveAPath
<1>2. CASE rule.kind = "Under" /\ above = rule.what
  BY <1>1, <1>2 DEF Skips!Covers, Skips!Under
<1>3. CASE rule.kind = "NameUnder" /\ Skips!PatternMatches(rule.what, Skips!Last(above))
  BY <1>1, <1>3 DEF Skips!Covers, Skips!Last
<1>4. CASE rule.kind = "GlobUnder" /\ Skips!Admits(rule, above)
  BY <1>1, <1>4 DEF Skips!Covers
<1>. QED
  BY <1>2, <1>3, <1>4 DEF Skips!Closes

\* Where a record is let through, a file that is in the folder and was recorded is
\* met by no rule that covers it, and is beneath no other store.
LEMMA LetThrough ==
  ASSUME SkipInv, Skips!Unstated, NEW path \in tracked, path \in stands,
         ~Skips!NamedAsAFile(path)
  PROVE  path \in Skips!Taken
<1>1. path \in SkipPath
  BY DEF SkipInv
<1>2. \A rule \in stated : ~Skips!Covering[rule][path]
  BY DEF Skips!Unstated, Skips!CoversTracked
<1>3. \A rule \in stated : rule \in SkipRule /\ Skips!Covering[rule][path] = Skips!Covers(rule, path)
  BY <1>1 DEF SkipInv, Skips!Covering
<1>4. ASSUME NEW above \in Skips!Above(path), NEW rule \in stated
      PROVE  ~Skips!Closing[rule][above]
  <2>1. Skips!Closing[rule][above] = Skips!Closes(rule, above)
    BY <1>1, <1>3 DEF Skips!Closing
  <2>2. CASE rule.kind = "Path"
    <3>1. above # rule.what
      BY <1>1, <2>2, AboveAPath DEF Skips!NamedAsAFile
    <3>. QED
      BY <2>1, <2>2, <3>1 DEF Skips!Closes
  <2>3. CASE rule.kind # "Path"
    BY <1>1, <1>2, <1>3, <2>1, <2>3, ClosedIsCovered
  <2>. QED
    BY <2>2, <2>3
<1>5. ASSUME NEW above \in Skips!Above(path), Skips!IsStore(above)
      PROVE  FALSE
  <2> DEFINE Stores == {n \in Nat : \E store \in Skips!Above(path) : Skips!IsStore(store) /\ Len(store) = n}
  <2>1. Len(above) \in Stores
    BY <1>1, <1>5, AboveAPath
  <2>2. PICK n \in Stores : \A m \in Stores : n <= m
    <3>1. Stores \subseteq Nat /\ Stores # {}
      BY <2>1
    <3>. HIDE DEF Stores
    <3>. QED
      BY <3>1, Shortest
  <2>3. PICK store \in Skips!Above(path) : Skips!IsStore(store) /\ Len(store) = n
    BY <2>2
  <2>4. Skips!Under(store, path) /\ Len(store) \in Nat \ {0} /\ store = SubSeq(path, 1, Len(store))
    BY <1>1, <2>3, AboveAPath
  <2>5. \A higher \in Skips!Above(store) : higher \in Skips!Above(path) /\ ~Skips!IsStore(higher)
    <3>1. TAKE higher \in Skips!Above(store)
    <3>2. higher \in Skips!Above(path) /\ Len(higher) \in 1 .. Len(store) - 1
      BY <1>1, <2>3, AboveAPath
    <3>. QED
      BY <2>2, <2>3, <2>4, <3>2
  <2>6. CASE Len(store) = 1
    <3>1. store = <<StoreName>>
      <4>1. store[1] = StoreName
        BY <2>3, <2>6 DEF Skips!IsStore, Skips!Last
      <4>2. path \in Seq({path[k] : k \in DOMAIN path})
        BY <1>1, PathsAssumption
      <4>. QED
        BY <2>4, <2>6, <4>1, <4>2
    <3>. QED
      BY <2>4, <3>1 DEF SkipInv
  <2>7. CASE Len(store) # 1
    <3>1. store \in UNION {Skips!Above(other) : other \in stands}
      BY <2>3
    <3>2. Len(store) > 1
      BY <2>4, <2>7
    <3>3. \A higher \in Skips!Above(store) :
            ~Skips!IsStore(higher) /\ \A rule \in stated : ~Skips!Closing[rule][higher]
      BY <1>4, <2>5
    <3>4. store \in Skips!Met
      BY <2>3, <3>1, <3>2, <3>3 DEF Skips!Met
    <3>. QED
      BY <2>4, <3>4 DEF Skips!Unstated
  <2>. QED
    BY <2>6, <2>7
<1>. QED
  BY <1>2, <1>4, <1>5 DEF Skips!Taken, Skips!Walked

\* What the walk takes is not beneath the store.
LEMMA TakenIsOutside ==
  ASSUME SkipInv, NEW path \in Skips!Taken
  PROVE  path \in SkipPath /\ ~Skips!Under(<<StoreName>>, path)
<1>1. path \in SkipPath /\ \A above \in Skips!Above(path) : ~Skips!IsStore(above)
  BY DEF SkipInv, Skips!Taken, Skips!Walked
<1>2. ASSUME Skips!Under(<<StoreName>>, path)
      PROVE  FALSE
  <2>1. path \in Seq({path[k] : k \in DOMAIN path}) /\ Len(path) > 0
    BY <1>1, PathsAssumption
  <2>2. Len(path) > 1 /\ <<StoreName>> = SubSeq(path, 1, 1)
    BY <1>2, <2>1 DEF Skips!Under, Skips!IsStrictPrefix, Skips!IsPrefix
  <2>3. <<StoreName>> \in Skips!Above(path)
    BY <2>1, <2>2 DEF Skips!Above
  <2>. QED
    BY <1>1, <2>3 DEF Skips!IsStore
<1>. QED
  BY <1>1, <1>2

LEMMA SkipInvHolds == MCInit => SkipInv
BY DEF MCInit, Skips!Init, SkipInv

LEMMA SkipInvStays ==
  SkipInv /\ [MCNext]_<<part, vars, checksVars, skipsVars, ignoresVars>> => SkipInv'
<1>. SUFFICES ASSUME SkipInv, [MCNext]_<<part, vars, checksVars, skipsVars, ignoresVars>>
              PROVE  SkipInv'
  OBVIOUS
<1>1. CASE UNCHANGED skipsVars
  BY <1>1 DEF skipsVars, SkipInv
<1>2. CASE Skips!Next
  <2>1. CASE \E path \in SkipPath : Skips!Create(path) \/ Skips!Delete(path)
    BY <2>1 DEF Skips!Create, Skips!Delete, SkipInv
  <2>2. CASE \E rule \in SkipRule : Skips!Skip(rule) \/ Skips!Receive(rule) \/ Skips!Drop(rule)
    BY <2>2 DEF Skips!Skip, Skips!Receive, Skips!Drop, SkipInv
  <2>3. CASE Skips!Record
    BY <2>3, TakenIsOutside DEF Skips!Record, SkipInv
  <2>. QED
    BY <1>2, <2>1, <2>2, <2>3 DEF Skips!Next
<1>. QED
  BY <1>1, <1>2 DEF MCNext, skipsVars

\* A record drops what is gone from the folder, what stands beneath a path that
\* a rule names as a file, and nothing else, whatever rules another replica
\* stated since and whatever store was made around a file (record/mod.rs 671-704).
THEOREM OnlyTheGoneIsDropped == MCSpec => RecordsDropWhatIsGone
<1>1. ASSUME SkipInv, [MCNext]_<<part, vars, checksVars, skipsVars, ignoresVars>>
      PROVE  [\A path \in tracked \ tracked' : path \notin stands \/ Skips!NamedAsAFile(path)]_skipsVars
  <2>1. CASE UNCHANGED skipsVars
    BY <2>1
  <2>2. CASE Skips!Next
    <3>1. CASE Skips!Record
      BY <1>1, <3>1, LetThrough DEF Skips!Record
    <3>2. CASE ~Skips!Record
      BY <2>2, <3>2 DEF Skips!Next, Skips!Create, Skips!Delete, Skips!Skip, Skips!Receive, Skips!Drop
    <3>. QED
      BY <3>1, <3>2
  <2>. QED
    BY <1>1, <2>1, <2>2 DEF MCNext, skipsVars
<1>. QED
  BY <1>1, SkipInvHolds, SkipInvStays, PTL
     DEF MCSpec, RecordsDropWhatIsGone, Skips!RecordsDropWhatIsGone, Skips!vars, skipsVars
=============================================================================
