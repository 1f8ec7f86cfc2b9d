------------------------------ MODULE History ------------------------------
(***************************************************************************)
(* The revision graph and every question src/core/mod.rs answers about it. *)
(*                                                                         *)
(* A revision is named by the digest of its document, and a document names *)
(* its parents and its predecessors by digest.  Nothing can therefore name *)
(* a document that did not exist before it, so digests are numbered in an  *)
(* order in which the documents could have been written, and a document    *)
(* names only smaller numbers.  `doc' is the digest map: doc[x] is the one *)
(* document whose digest is x.  A copy of the store holds a set of         *)
(* digests, and the History of that copy is doc restricted to the set H,   *)
(* so every operator below takes the pair (doc, H).                        *)
(***************************************************************************)
EXTENDS Naturals, FiniteSets

\* Everything the revisions of H call a parent, held or not.
ParentsOf(doc, H) == UNION {doc[x].parents : x \in H}

\* Everything the revisions of H supersede, held or not: the evidence of a
\* supersession lives on the successor and names a revision that need not be
\* present.
Superseded(doc, H) == UNION {doc[x].supersedes : x \in H}

\* The revisions of H that nothing in H supersedes.
Current(doc, H) == H \ Superseded(doc, H)

\* Tips by the whole graph, whatever has been superseded.
Childless(doc, H) == H \ ParentsOf(doc, H)

\* The current revisions no current revision stands on.  The childless are
\* looked for among the current ones, so a superseded child does not hide the
\* work it stood on.
Tips(doc, H) == Current(doc, H) \ ParentsOf(doc, Current(doc, H))

\* Parents that transport has still to deliver.
MissingParents(doc, H) == ParentsOf(doc, H) \ H

\* The revisions of one change, and the ones among them that are current.
RevisionsOf(doc, H, change) == {x \in H : doc[x].change = change}
CurrentOf(doc, H, change) == RevisionsOf(doc, H, change) \cap Current(doc, H)

\* The revisions naming x as a parent.
StandingOn(doc, H, x) == {y \in H : x \in doc[y].parents}

\* The revisions stating that they supersede x.
SuccessorsOf(doc, H, x) == {y \in H : x \in doc[y].supersedes}

\* What a change is, to a copy that holds H.
ChangeState(doc, H, change) ==
  LET current == CurrentOf(doc, H, change)
  IN  IF RevisionsOf(doc, H, change) = {} THEN "unknown"
      ELSE IF current = {} THEN "abandoned"
      ELSE IF Cardinality(current) = 1 THEN "resolved" ELSE "divergent"

\* The changes of H with more than one current revision.
DivergentChanges(doc, H) ==
  {c \in {doc[x].change : x \in H} : ChangeState(doc, H, c) = "divergent"}

\* The digest map is a hash: a document names only documents that are older.
Merkle(doc) ==
  \A x \in DOMAIN doc : \A y \in doc[x].parents \cup doc[x].supersedes : y < x
=============================================================================
