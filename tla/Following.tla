----------------------------- MODULE Following -----------------------------
(***************************************************************************)
(* What a copy follows, and the heads it derives (src/following.rs).       *)
(*                                                                         *)
(* A store may receive revisions from anybody, in any order.  A rule       *)
(* accepts some of them; the copy follows what the rule accepts and all it *)
(* stands on, and its heads are derived from that, afresh each time.  The  *)
(* state is the set a copy holds, growing one delivered file at a time,    *)
(* and the Heads value that Following::heads answers with at that moment.  *)
(***************************************************************************)
EXTENDS History

CONSTANTS
  MaxId,        \* documents are numbered 1..MaxId
  MaxParents,   \* bound on the parents of one document
  MaxSupersedes,\* bound on the predecessors of one document
  Writer,       \* who may have written a revision
  Followed      \* the writers the rule accepts: Following::Writers

ASSUME MaxIdAssumption == MaxId \in Nat
ASSUME FollowedAssumption == Followed \subseteq Writer

VARIABLES
  doc,          \* the digest map
  held,         \* what this copy's store holds
  view          \* the Heads value derived from it: heads, held tips, followed

vars == <<doc, held, view>>

RevisionId == 1..MaxId
Document == [parents    : SUBSET RevisionId,
             supersedes : SUBSET RevisionId,
             writer     : Writer]

\* Following::accepts, for a rule that names writers.  It reads the document,
\* so it accepts nothing that is not held.
Accepted(H) == {x \in H : doc[x].writer \in Followed}

\* Slip: a parent nobody delivered is walked to as well.
Walk_Missing(H, S, stop) == S \cup ParentsOf(doc, S)

\* What is reached from S by parent lines, through held revisions only, never
\* going on from a revision of `stop': the least set with S that is closed.
Walk(H, S, stop) ==
  LET closed == {C \in SUBSET H : /\ S \cap H \subseteq C
                                  /\ ParentsOf(doc, C \ stop) \cap H \subseteq C}
  IN  {x \in H : \A C \in closed : x \in C}

\* Slip: what an accepted revision stands on is left out.
FollowedSet_Bare(H) == Accepted(H)

\* Following::followed: walk down from the childless, stop wherever the rule
\* accepts, and follow everything below each revision it stopped at.
FollowedSet(H) ==
  LET asked == Walk(H, Childless(doc, H), Accepted(H))
  IN  Walk(H, asked \cap Accepted(H), {})

\* Slips: every supersession counts; or none of a followed revision does.
Withdrawn_All(H, F) == Superseded(doc, H)
Withdrawn_Held(H, F) == UNION {doc[x].supersedes \ F : x \in H}

\* Supersessions that count, to a copy holding H and following F: those a
\* followed revision states, and those that name a revision not followed.
Withdrawn(H, F) ==
  UNION {IF x \in F THEN doc[x].supersedes ELSE doc[x].supersedes \ F : x \in H}

\* Slips: the childless are found among all revisions, as they were before
\* decision 0086; or a held child stops a followed revision being a head.
Derive_ChildlessFirst(H, F) ==
  LET childless == Childless(doc, H) \ Withdrawn(H, F)
  IN  [heads |-> childless \cap F, tips |-> childless \ F, followed |-> F]
Derive_AnyChild(H, F) ==
  LET current == H \ Withdrawn(H, F)
      tips == current \ ParentsOf(doc, current)
  IN  [heads |-> tips \cap F, tips |-> tips \ F, followed |-> F]

\* Heads::derive: the current followed revisions no current followed revision
\* stands on, and the current others nothing current stands on.
Derive(H, F) ==
  LET current == H \ Withdrawn(H, F)
  IN  [heads    |-> (current \cap F) \ ParentsOf(doc, current \cap F),
       tips     |-> (current \ F) \ ParentsOf(doc, current),
       followed |-> F]
-----------------------------------------------------------------------------
\* parents or supersedes lines a hash allows, at most `bound' in a document
Lines(bound) ==
  {f \in [RevisionId -> SUBSET RevisionId] :
     \A x \in RevisionId : Cardinality(f[x]) <= bound /\ \A y \in f[x] : y < x}

Init ==
  /\ \E p \in Lines(MaxParents), s \in Lines(MaxSupersedes),
        w \in [RevisionId -> Writer] :
       doc = [x \in RevisionId |->
                [parents |-> p[x], supersedes |-> s[x], writer |-> w[x]]]
  /\ held = {}
  /\ view = Derive({}, {})

\* A revision reaches the store: recorded here, received, fetched or copied.
\* Parents may come after children.
Arrive(x) ==
  /\ x \in RevisionId \ held
  /\ held' = held \cup {x}
  /\ view' = Derive(held', FollowedSet(held'))
  /\ UNCHANGED doc

Next == \E x \in RevisionId : Arrive(x)

Spec == Init /\ [][Next]_vars
-----------------------------------------------------------------------------
TypeOK ==
  /\ doc \in [RevisionId -> Document] /\ Merkle(doc)
  /\ held \subseteq RevisionId
  /\ view \in [heads : SUBSET held, tips : SUBSET held, followed : SUBSET held]

\* The followed set is the ancestry of every revision the rule accepts
\* (decision 0086), although the walk starts at the childless and stops at the
\* first accepted revision on each way down: it holds what is accepted, is
\* closed under held parents, and each member is accepted or stood on by one.
FollowedIsAncestry ==
  /\ Accepted(held) \subseteq view.followed
  /\ ParentsOf(doc, view.followed) \cap held \subseteq view.followed
  /\ \A x \in view.followed :
       x \in Accepted(held) \/ StandingOn(doc, view.followed, x) # {}

\* Nobody's line vanishes: every current revision is below a head or a held
\* tip, reached through revisions that are current for this copy.  It is what
\* looking for the childless among the current ones is for.
NothingCurrentIsHidden ==
  LET current == held \ Withdrawn(held, view.followed)
  IN  current \subseteq Walk(current, view.heads \cup view.tips, {})

\* A rule that follows everything is no rule: heads are the tips of the graph
\* and nothing is held apart.
FollowingAllIsTips ==
  LET all == Derive(held, held)
  IN  all.heads = Tips(doc, held) /\ all.tips = {}

\* A copy that follows something has a head, whatever strangers supersede.
FollowedHasAHead == view.followed # {} => view.heads # {}

\* What makes heads safe to derive from a store strangers write into: a
\* revision that arrives and is not followed moves no head, whatever it stands
\* on and whatever it claims to supersede.
StrangersMoveNoHead ==
  [][held' \ held \subseteq view'.followed \/ view'.heads = view.heads]_vars
=============================================================================
