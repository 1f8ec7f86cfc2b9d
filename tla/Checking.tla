------------------------------ MODULE Checking ------------------------------
(***************************************************************************)
(* `check' over a store that is arriving (src/store/check.rs, and the      *)
(* readers of src/store/mod.rs it asks).                                   *)
(*                                                                         *)
(* A transport delivers the files of one history in any order: revisions,  *)
(* the documents they name, and the documents that stand in for what was   *)
(* forgotten.  At every moment `check' says what contradicts, which are    *)
(* errors, and which heads cannot be produced yet, which are notes.  It    *)
(* asks three readers: the rule, which takes what each revision states;    *)
(* the walk of the whole graph; and a count of what is named and absent.   *)
(*                                                                         *)
(* There is one file of lines.  Every line ever written has a place in it, *)
(* and lines that came one after another at a place replace each other.    *)
(***************************************************************************)
EXTENDS Naturals, FiniteSets, Sequences, SequencesExt

CONSTANTS
  Revision, Parents,          \* revisions are numbers, parents lower ones
  Document, States, Nothing,  \* States[r]: the document r names, or Nothing
  Kind,                       \* "payload", "operations" or "resolution"
  Line, Inserts, Deletes, Keeps, \* the lines a document mints, quotes to remove, keeps
  WrittenIn, Place, Says,     \* of each line: its document, its place, its text
  Hidden,                     \* what a forgotten line says
  Forgotten                   \* Forgotten[d]: the lines d's stand-in marks, if it has one

VARIABLES revisions, documents, standins   \* the files here

vars == <<revisions, documents, standins>>

TypeOK == revisions \subseteq Revision /\ documents \subseteq Document
          /\ standins \subseteq DOMAIN Forgotten

Init == revisions = {} /\ documents = {} /\ standins = {}

DeliverRevision(r) == r \notin revisions /\ revisions' = revisions \cup {r}
                      /\ UNCHANGED <<documents, standins>>

\* A document already forgotten here is not taken back.
DeliverDocument(d) == d \notin documents \cup standins /\ documents' = documents \cup {d}
                      /\ UNCHANGED <<revisions, standins>>

\* A stand-in comes, and the original beside it goes or is left by a sync.
DeliverStandIn(d) == /\ d \in DOMAIN Forgotten \ standins
                     /\ standins' = standins \cup {d}
                     /\ documents' \in {documents, documents \ {d}}
                     /\ UNCHANGED revisions

Next == \/ \E r \in Revision : DeliverRevision(r)
        \/ \E d \in Document : DeliverDocument(d) \/ DeliverStandIn(d)

Spec == Init /\ [][Next]_vars
-----------------------------------------------------------------------------
Held(d) == d \in documents \cup standins
Shown(i) == IF WrittenIn[i] \in standins /\ i \in Forgotten[WrittenIn[i]]
            THEN Hidden ELSE Says[i]

\* Two states are one where they read alike, whoever wrote the lines.
Reads(lines) == {<<Place[i], Shown(i)>> : i \in lines}

\* A quote of what is forgotten, on either side, is not held against the text.
Matches(i, j) == Hidden \in {Shown(i), Shown(j)} \/ Says[i] = Says[j]

Ancestry(r) ==
  LET up[x \in Revision] == {x} \cup UNION {up[p] : p \in Parents[x]} IN up[r]
Childless == {r \in revisions : \A s \in revisions : r \notin Parents[s]}
Deleted(d) == {Place[i] : i \in Deletes[d]}

\* What each author left, which is what a reader is owed.
Authored ==
  LET left[x \in Revision] ==
        LET d == States[x]  saw == UNION {left[p] : p \in Parents[x]}
        IN  IF d = Nothing THEN saw
            ELSE IF Kind[d] = "resolution" THEN Keeps[d] \cup Inserts[d]
            ELSE {i \in saw : Place[i] \notin Deleted(d)} \cup Inserts[d]
  IN  left

Known(lines) == [kind |-> "known", lines |-> lines]
Absent == [kind |-> "absent", lines |-> {}]
Unstated == [kind |-> "unstated", lines |-> {}]
Failed == [kind |-> "failed", lines |-> {}]

\* What several parents agree the file holds (`agreed').
Agreed(sides) ==
  LET holding == sides \ {Absent}
  IN  IF Unstated \in sides THEN Unstated
      ELSE IF holding = {} THEN Absent
      ELSE IF \A s, t \in holding : Reads(s.lines) = Reads(t.lines)
        THEN CHOOSE s \in holding : TRUE
      ELSE Unstated

\* A document applied to the state it was counted in.
Applied(base, d) ==
  IF \A j \in Deletes[d] : \E i \in base : Place[i] = Place[j] /\ Matches(i, j)
  THEN Known({i \in base : Place[i] \notin Deleted(d)} \cup Inserts[d])
  ELSE Failed

\* The rule (`walked_content'): a resolution is the file, stated, and nothing
\* before it is read; anything else is counted in what the parents agree on.
Stated(r) ==
  LET at[x \in Revision] ==
        LET d == States[x]
            sides == {at[p] : p \in Parents[x]}
            base == Agreed(sides)
        IN  IF x \notin revisions \/ (d # Nothing /\ ~Held(d)) THEN Failed
            ELSE IF d # Nothing /\ Kind[d] = "resolution"
              THEN IF \A i \in Keeps[d] : Held(WrittenIn[i])
                   THEN Known(Keeps[d] \cup Inserts[d]) ELSE Failed
            ELSE IF Failed \in sides THEN Failed
            ELSE IF d = Nothing \/ base = Unstated THEN base
            ELSE Applied(base.lines, d)
  IN  at[r]
-----------------------------------------------------------------------------
\* The walk names every copy of a line by the revision that put it there.
Lines(view) == {e[2] : e \in view}
InPlace(view) ==
  SetToSortSeq(view, LAMBDA e, f : Place[e[2]] < Place[f[2]]
                                   \/ (Place[e[2]] = Place[f[2]] /\ e[1] < f[1]))
FirstCopies(view) == {e \in view : \A f \in view : f[2] = e[2] => e[1] <= f[1]}

\* Slip: a merge whose parents agree is walked as it stands.
Settle_Never(view, sides) == view

\* `agreed_resolutions', as `check' asks it: where the walk through each parent
\* reads the same, a second copy of a name the sides share is dropped.
Settle(view, sides) ==
  IF /\ Cardinality(sides) > 1
     /\ \A s, t \in sides : Reads(Lines(s.view)) = Reads(Lines(t.view))
     /\ \A s \in sides : /\ Cardinality(Reads(Lines(s.view))) = Cardinality(FirstCopies(view))
                         /\ Reads(Lines(s.view)) = Reads(Lines(FirstCopies(view)))
  THEN FirstCopies(view) ELSE view

\* The copy the author of x counted j's position to.
At(view, x, j) ==
  LET saw == UNION {Authored[p] : p \in Parents[x]}
      k == Cardinality({i \in saw : Place[i] <= Place[j]})
  IN  IF k \in 1..Cardinality(view) THEN InPlace(view)[k] ELSE <<x, j>>

Put(x, lines) == {<<x, i>> : i \in lines}

Step(x, view, d) ==
  IF d = Nothing \/ ~Held(d) THEN [ok |-> TRUE, view |-> view]
  ELSE IF Kind[d] = "resolution"
    THEN [ok |-> Keeps[d] \subseteq Lines(view),
          view |-> {e \in FirstCopies(view) : e[2] \in Keeps[d]} \cup Put(x, Inserts[d])]
  ELSE [ok |-> \A j \in Deletes[d] : At(view, x, j) \in view /\ Matches(At(view, x, j)[2], j),
        view |-> (view \ {At(view, x, j) : j \in Deletes[d]}) \cup Put(x, Inserts[d])]

\* Through r, in the order of the graph: what either side removed is gone.
Walk(r) ==
  LET w[x \in Revision] ==
        LET sides == {w[p] : p \in Parents[x]}
            ever == UNION {s.ever : s \in sides}
            met == {e \in UNION {s.view : s \in sides} :
                      \A s \in sides : e \in s.view \/ e \notin s.ever}
            resolves == States[x] # Nothing /\ Kind[States[x]] = "resolution"
            step == Step(x, IF resolves THEN met ELSE Settle(met, sides), States[x])
        IN  [ok |-> step.ok /\ \A s \in sides : s.ok, view |-> step.view,
             ever |-> ever \cup step.view]
  IN  w[r]
-----------------------------------------------------------------------------
\* Slip: a document that is not here is read as one that says nothing.
Undelivered_Never(h) == FALSE

Undelivered(h) == \E x \in Ancestry(h) : States[x] # Nothing /\ ~Held(States[x])

\* `check_replay': a chain of operations is counted forward, and any other
\* history is walked.
Chain(h) == /\ standins = {}
            /\ \A x \in Ancestry(h) :
                 /\ Cardinality(Parents[x]) < 2
                 /\ States[x] # Nothing => Held(States[x]) /\ Kind[States[x]] # "resolution"
ContentDisagrees(h) ==
  /\ Ancestry(h) \subseteq revisions
  /\ IF Chain(h) THEN Stated(h) = Failed ELSE ~Undelivered(h) /\ ~Walk(h).ok

\* Slip: the side that did arrive is read as the whole of it.
Sides_Arrived(m) == {Stated(p) : p \in Parents[m]} \ {Failed}

Sides(m) == {Stated(p) : p \in Parents[m]}

\* A side that has no one reading by the rule is read by the walk.
Read(side, p) == IF side = Unstated THEN Reads(Lines(Walk(p).view)) ELSE Reads(side.lines)

\* `check_resolutions': what a merge whose parents agree states is needless.
ResolvedWithoutDisagreement(m) ==
  /\ Cardinality(Parents[m]) > 1 /\ Ancestry(m) \subseteq revisions
  /\ States[m] # Nothing /\ Held(States[m]) /\ Kind[States[m]] = "resolution"
  /\ Failed \notin Sides(m)
  /\ Cardinality({Read(Stated(p), p) : p \in {p \in Parents[m] : Stated(p) \in Sides(m) \ {Absent}}}) < 2

Errors == {h \in Childless : ContentDisagrees(h)}
          \cup {m \in revisions : ResolvedWithoutDisagreement(m)}

\* `check_completeness': what one revision names and the store lacks.
MissingFrom(x) ==
  LET d == States[x]
  IN  d # Nothing /\ (~Held(d) \/ (Kind[d] = "resolution"
                                   /\ \E i \in Keeps[d] : ~Held(WrittenIn[i])))
Incomplete(h) == \E x \in Ancestry(h) : x \notin revisions \/ MissingFrom(x)
-----------------------------------------------------------------------------
\* A store a transport has half filled contradicts nothing, whatever came
\* first: what is absent is a note and never read as a contradiction (check.rs).
PartialDeliveryIsNoFault == Errors = {}

\* A head `check' does not call incomplete is produced, as its author left it
\* but for what was forgotten, and the rule and the walk read it alike.
CompleteHeadsAreRead ==
  \A h \in Childless : ~Incomplete(h) =>
    /\ Stated(h).kind = "known" /\ Reads(Stated(h).lines) = Reads(Authored[h])
    /\ Walk(h).ok /\ Reads(Lines(Walk(h).view)) = Reads(Authored[h])

\* "Decision 0006: a missing parent means transport has more to deliver": every
\* error goes away as the rest arrives, since what is delivered was recorded.
ArrivedStoresAreSound ==
  revisions = Revision /\ documents \cup standins = Document => Errors = {}
=============================================================================
