-------------------------- MODULE FollowingProofs --------------------------
(***************************************************************************)
(* Theorems about Following, for any number of revisions, any rule that    *)
(* names writers and any order of delivery.                                *)
(*                                                                         *)
(* Every argument about the graph is an argument about the newest revision *)
(* with some property (Newest): a document names only older ones, so what  *)
(* stands on a revision, or supersedes it, is newer.                       *)
(***************************************************************************)
EXTENDS Following, WellFoundedInduction, TLAPS

\* The inductive invariant: types, and that the view is the derived one.
IInv ==
  /\ doc \in [RevisionId -> Document]
  /\ Merkle(doc)
  /\ held \subseteq RevisionId
  /\ view = Derive(held, FollowedSet(held))

-----------------------------------------------------------------------------
\* A set of revisions that is not empty has a newest member.
LEMMA Newest ==
  ASSUME NEW T \in SUBSET RevisionId, T # {}
  PROVE  \E m \in T : \A t \in T : t <= m
<1>. DEFINE U == {MaxId - t : t \in T}
            R == OpToRel(<, Nat)
<1>1. MaxId \in Nat /\ \A t \in T : t \in Nat /\ t <= MaxId /\ MaxId - t \in Nat
  BY MaxIdAssumption DEF RevisionId
<1>2. U \subseteq Nat /\ U # {}
  BY <1>1
<1>3. \E u \in U : \A v \in U : ~(<<v, u>> \in R)
  <2>. HIDE DEF U, R
  <2>1. IsWellFoundedOn(R, Nat)
    BY NatLessThanWellFounded DEF R
  <2>. QED
    BY <1>2, <2>1, WFMin
<1>4. PICK u \in U : \A v \in U : ~(v < u)
  BY <1>2, <1>3 DEF OpToRel
<1>5. PICK m \in T : u = MaxId - m
  OBVIOUS
<1>6. \A t \in T : t <= m
  <2>. SUFFICES ASSUME NEW t \in T PROVE t <= m
    OBVIOUS
  <2>1. ~(MaxId - t < MaxId - m)
    BY <1>4, <1>5
  <2>. QED
    BY <1>1, <2>1
<1>. QED
  BY <1>6

\* What a walk returns: it is within H, holds where it began, is closed
\* (WalkFacts), and is the least such set (WalkLeast).
LEMMA WalkFacts ==
  ASSUME NEW H, NEW S, NEW stop
  PROVE  /\ Walk(H, S, stop) \subseteq H
         /\ S \cap H \subseteq Walk(H, S, stop)
         /\ ParentsOf(doc, Walk(H, S, stop) \ stop) \cap H \subseteq Walk(H, S, stop)
<1>1. ASSUME NEW x \in ParentsOf(doc, Walk(H, S, stop) \ stop) \cap H
      PROVE  x \in Walk(H, S, stop)
  <2>1. PICK y \in Walk(H, S, stop) \ stop : x \in doc[y].parents
    BY DEF ParentsOf
  <2>. SUFFICES ASSUME NEW C \in SUBSET H, S \cap H \subseteq C,
                       ParentsOf(doc, C \ stop) \cap H \subseteq C
                PROVE  x \in C
    BY DEF Walk
  <2>2. y \in C \ stop
    BY <2>1 DEF Walk
  <2>. QED
    BY <2>1, <2>2 DEF ParentsOf
<1>. QED
  BY <1>1 DEF Walk

\* A walk stays within every set it may not leave.
LEMMA WalkLeast ==
  ASSUME NEW H, NEW S, NEW stop, NEW C \in SUBSET H, S \cap H \subseteq C,
         ParentsOf(doc, C \ stop) \cap H \subseteq C
  PROVE  Walk(H, S, stop) \subseteq C
BY DEF Walk

-----------------------------------------------------------------------------
\* The walk of Following::followed finds exactly the ancestry of what the rule
\* accepts, although it asks about few revisions: every held revision is either
\* asked about or below one that was accepted.
LEMMA FollowedIsDown ==
  ASSUME NEW H \in SUBSET RevisionId, Merkle(doc), doc \in [RevisionId -> Document]
  PROVE  FollowedSet(H) = Walk(H, Accepted(H), {})
<1>. DEFINE asked == Walk(H, Childless(doc, H), Accepted(H))
            F == FollowedSet(H)
<1>1. F = Walk(H, asked \cap Accepted(H), {})
  BY DEF FollowedSet
<1>0. /\ F \subseteq H /\ asked \cap Accepted(H) \subseteq F
      /\ ParentsOf(doc, F) \cap H \subseteq F
  <2>1. Accepted(H) \subseteq H
    BY DEF Accepted
  <2>2. /\ F \subseteq H /\ (asked \cap Accepted(H)) \cap H \subseteq F
        /\ ParentsOf(doc, F \ {}) \cap H \subseteq F
    <3>. HIDE DEF asked, F
    <3>. QED
      BY <1>1, WalkFacts
  <2>. HIDE DEF asked, F
  <2>. QED
    BY <2>1, <2>2
<1>2. H \subseteq asked \cup F
  <2>. SUFFICES ASSUME H \ (asked \cup F) # {} PROVE FALSE
    OBVIOUS
  <2>1. PICK x \in H \ (asked \cup F) : \A t \in H \ (asked \cup F) : t <= x
    <3>1. H \ (asked \cup F) \in SUBSET RevisionId
      OBVIOUS
    <3>. HIDE DEF asked, F
    <3>. QED
      BY <3>1, Newest
  <2>2. x \notin Childless(doc, H)
    BY <2>1, WalkFacts
  <2>3. PICK y \in H : x \in doc[y].parents
    BY <2>1, <2>2 DEF Childless, ParentsOf
  <2>4. x < y /\ x \in Nat /\ y \in Nat
    BY <2>3, <2>1 DEF Merkle, RevisionId
  <2>5. y \in asked \cup F
    BY <2>1, <2>4
  <2>6. CASE y \in F
    BY <1>0, <2>1, <2>3, <2>6 DEF ParentsOf
  <2>7. CASE y \in asked \ F
    <3>1. ParentsOf(doc, asked \ Accepted(H)) \cap H \subseteq asked
      BY WalkFacts
    <3>. HIDE DEF asked, F
    <3>. QED
      BY <1>0, <3>1, <2>1, <2>3, <2>7 DEF ParentsOf
  <2>. QED
    BY <2>5, <2>6, <2>7
<1>3. Accepted(H) \subseteq F /\ F \subseteq H
  <2>1. Accepted(H) \subseteq H
    BY DEF Accepted
  <2>. HIDE DEF asked, F
  <2>. QED
    BY <1>2, <1>0, <2>1
<1>4. Walk(H, Accepted(H), {}) \subseteq F
  <2>1. ParentsOf(doc, F \ {}) \cap H \subseteq F
    BY <1>1, WalkFacts
  <2>2. F \in SUBSET H /\ Accepted(H) \cap H \subseteq F
    BY <1>3
  <2>. HIDE DEF F
  <2>. QED
    BY <2>1, <2>2, WalkLeast
<1>5. F \subseteq Walk(H, Accepted(H), {})
  <2>. DEFINE W == Walk(H, Accepted(H), {})
  <2>1. W \in SUBSET H /\ Accepted(H) \cap H \subseteq W
        /\ ParentsOf(doc, W \ {}) \cap H \subseteq W
    BY WalkFacts
  <2>2. (asked \cap Accepted(H)) \cap H \subseteq W
    BY <2>1
  <2>3. Walk(H, asked \cap Accepted(H), {}) \subseteq W
    <3>. HIDE DEF W, asked
    <3>. QED
      BY <2>1, <2>2, WalkLeast
  <2>. QED
    BY <1>1, <2>3
<1>. QED
  BY <1>4, <1>5

\* The ancestry of what is accepted: within H, closed, and each member is
\* accepted or has a child that is a member.
LEMMA FollowedFacts ==
  ASSUME NEW H \in SUBSET RevisionId, Merkle(doc), doc \in [RevisionId -> Document]
  PROVE  LET F == FollowedSet(H) IN
         /\ F \subseteq H /\ Accepted(H) \subseteq F
         /\ ParentsOf(doc, F) \cap H \subseteq F
         /\ \A x \in F : x \in Accepted(H) \/ StandingOn(doc, F, x) # {}
<1>. DEFINE F == FollowedSet(H)
<1>1. F = Walk(H, Accepted(H), {})
  BY FollowedIsDown
<1>2. /\ F \subseteq H /\ Accepted(H) \cap H \subseteq F
      /\ ParentsOf(doc, F \ {}) \cap H \subseteq F
  <2>. HIDE DEF F
  <2>. QED
    BY <1>1, WalkFacts
<1>3. Accepted(H) \subseteq F
  BY <1>2 DEF Accepted
<1>4. ASSUME NEW x \in F, x \notin Accepted(H), StandingOn(doc, F, x) = {}
      PROVE  FALSE
  <2>. HIDE DEF F
  <2>1. F \ {x} \in SUBSET H /\ Accepted(H) \cap H \subseteq F \ {x}
    BY <1>2, <1>4
  <2>2. ParentsOf(doc, (F \ {x}) \ {}) \cap H \subseteq F \ {x}
    BY <1>2, <1>4 DEF ParentsOf, StandingOn
  <2>3. F \subseteq F \ {x}
    BY <1>1, <2>1, <2>2, WalkLeast
  <2>. QED
    BY <1>4, <2>3
<1>. QED
  BY <1>2, <1>3, <1>4

-----------------------------------------------------------------------------
\* Arrivals keep the types, and the view is derived afresh by each.
LEMMA Invariance == Spec => []IInv
<1>1. Init => IInv
  <2>. SUFFICES ASSUME Init PROVE IInv
    OBVIOUS
  <2>1. PICK p \in Lines(MaxParents), s \in Lines(MaxSupersedes), w \in [RevisionId -> Writer] :
          doc = [x \in RevisionId |-> [parents |-> p[x], supersedes |-> s[x], writer |-> w[x]]]
    BY DEF Init
  <2>2. \A x \in RevisionId : /\ p[x] \in SUBSET RevisionId
                              /\ s[x] \in SUBSET RevisionId
                              /\ \A y \in p[x] \cup s[x] : y < x
    BY DEF Lines
  <2>3. doc \in [RevisionId -> Document] /\ Merkle(doc)
    BY <2>1, <2>2 DEF Document, Merkle
  <2>4. FollowedSet({}) = {}
    BY DEF FollowedSet, Walk
  <2>. QED
    BY <2>3, <2>4 DEF Init, IInv
<1>2. IInv /\ [Next]_vars => IInv'
  <2>. SUFFICES ASSUME IInv, [Next]_vars PROVE IInv'
    OBVIOUS
  <2>1. ASSUME NEW x \in RevisionId, Arrive(x) PROVE IInv'
    <3>1. doc' = doc /\ held' = held \cup {x}
      BY <2>1 DEF Arrive
    <3>2. Derive(held, FollowedSet(held))' = Derive(held', FollowedSet(held'))
      BY <3>1 DEF Derive, FollowedSet, Walk, Accepted, Withdrawn, ParentsOf, Childless
    <3>3. (view = Derive(held, FollowedSet(held)))'
      BY <2>1, <3>2 DEF Arrive
    <3>. QED
      BY <3>1, <3>3 DEF IInv, Merkle
  <2>2. CASE UNCHANGED vars
    <3>1. doc' = doc /\ held' = held /\ view' = view
      BY <2>2 DEF vars
    <3>2. Derive(held, FollowedSet(held))' = Derive(held, FollowedSet(held))
      BY <3>1 DEF Derive, FollowedSet, Walk, Accepted, Withdrawn, ParentsOf, Childless
    <3>. QED
      BY <3>1, <3>2 DEF IInv, Merkle
  <2>. QED
    BY <2>1, <2>2 DEF Next
<1>. QED
  BY <1>1, <1>2, PTL DEF Spec

\* Heads and held tips are held, and what is followed is held
\* (src/following.rs, Heads).
THEOREM TypeCorrect == Spec => []TypeOK
<1>1. IInv => TypeOK
  <2>. SUFFICES ASSUME IInv PROVE TypeOK
    OBVIOUS
  <2>1. FollowedSet(held) \subseteq held
    BY FollowedFacts DEF IInv
  <2>. QED
    BY <2>1 DEF IInv, TypeOK, Derive
<1>. QED
  BY <1>1, Invariance, PTL

\* The tips the rule tells apart are none the copy could miss: see
\* NothingCurrentIsHidden (Heads::derive, History::tips).
THEOREM NothingHidden == Spec => []NothingCurrentIsHidden
<1>. DEFINE F == FollowedSet(held)
            current == held \ Withdrawn(held, F)
            shown == view.heads \cup view.tips
            under == Walk(current, shown, {})
<1>1. IInv => NothingCurrentIsHidden
  <2>. SUFFICES ASSUME IInv, current \ under # {} PROVE FALSE
    <3>1. IInv => view.followed = F
      BY DEF IInv, Derive
    <3>. QED
      BY <3>1 DEF NothingCurrentIsHidden
  <2>1. PICK x \in current \ under : \A t \in current \ under : t <= x
    <3>1. current \ under \in SUBSET RevisionId
      BY DEF IInv
    <3>. HIDE DEF current, under
    <3>. QED
      BY <3>1, Newest
  <2>2. /\ shown \cap current \subseteq under
        /\ ParentsOf(doc, under \ {}) \cap current \subseteq under
    <3>. HIDE DEF current, shown
    <3>. QED
      BY WalkFacts
  <2>3. /\ view.heads = (current \cap F) \ ParentsOf(doc, current \cap F)
        /\ view.tips = (current \ F) \ ParentsOf(doc, current)
    BY DEF IInv, Derive
  <2>. HIDE DEF current, under, F
  <2>4. x \notin view.heads /\ x \notin view.tips
    BY <2>1, <2>2
  <2>5. PICK y \in current : x \in doc[y].parents
    BY <2>1, <2>3, <2>4 DEF ParentsOf
  <2>6. y \in under
    <3>1. x < y /\ x \in Nat /\ y \in Nat
      BY <2>1, <2>5 DEF IInv, Merkle, RevisionId, current
    <3>. QED
      BY <2>1, <2>5, <3>1
  <2>. QED
    BY <2>1, <2>2, <2>5, <2>6 DEF ParentsOf
<1>. QED
  BY <1>1, Invariance, PTL

\* Following everything is following no rule: the heads are the tips
\* (Heads::derive against History::tips).
THEOREM AllIsTips == Spec => []FollowingAllIsTips
<1>1. IInv => FollowingAllIsTips
  <2>1. Withdrawn(held, held) = Superseded(doc, held)
    BY DEF Withdrawn, Superseded
  <2>2. (held \ Superseded(doc, held)) \cap held = Current(doc, held)
    BY DEF Current
  <2>. QED
    BY <2>1, <2>2 DEF FollowingAllIsTips, Derive, Tips
<1>. QED
  BY <1>1, Invariance, PTL

\* A copy that follows anything has a head: the newest followed revision is
\* one, since what withdraws or stands on a followed revision is newer
\* (Heads::derive).
THEOREM HasAHead == Spec => []FollowedHasAHead
<1>. DEFINE F == FollowedSet(held)
            current == held \ Withdrawn(held, F)
<1>1. IInv => FollowedHasAHead
  <2>. SUFFICES ASSUME IInv, view.followed # {} PROVE view.heads # {}
    BY DEF FollowedHasAHead
  <2>0. F # {}
    BY DEF IInv, Derive
  <2>1. F \subseteq held /\ held \subseteq RevisionId
    BY FollowedFacts DEF IInv
  <2>2. PICK m \in F : \A t \in F : t <= m
    <3>. HIDE DEF F
    <3>. QED
      BY <2>0, <2>1, Newest
  <2>3. \A y \in F : m \notin doc[y].supersedes /\ m \notin doc[y].parents
    <3>. SUFFICES ASSUME NEW y \in F
                  PROVE  m \notin doc[y].supersedes /\ m \notin doc[y].parents
      OBVIOUS
    <3>1. y \in DOMAIN doc /\ y \in Nat /\ m \in Nat
      <4>1. RevisionId \subseteq Nat /\ DOMAIN doc = RevisionId
        BY MaxIdAssumption DEF IInv, RevisionId
      <4>. HIDE DEF F
      <4>. QED
        BY <2>1, <4>1
    <3>2. y <= m
      BY <2>2
    <3>. HIDE DEF F
    <3>. QED
      BY <3>1, <3>2 DEF IInv, Merkle
  <2>4. m \in current
    <3>. HIDE DEF F
    <3>. QED
      BY <2>1, <2>2, <2>3 DEF Withdrawn
  <2>5. m \notin ParentsOf(doc, current \cap F)
    BY <2>3 DEF ParentsOf
  <2>. QED
    BY <2>2, <2>4, <2>5 DEF IInv, Derive
<1>. QED
  BY <1>1, Invariance, PTL

\* A delivery that is not followed leaves every head where it was
\* (decision 0086; Heads::derive).
THEOREM StrangersMoveNothing == Spec => StrangersMoveNoHead
<1>1. IInv /\ [Next]_vars => [held' \ held \subseteq view'.followed \/ view'.heads = view.heads]_vars
  <2>. SUFFICES ASSUME IInv, NEW y \in RevisionId, Arrive(y), y \notin view'.followed
                PROVE  view'.heads = view.heads
    BY DEF Next, Arrive
  <2>. DEFINE F == FollowedSet(held)
              H == held \cup {y}
              G == FollowedSet(H)
  <2>1. view' = Derive(H, G) /\ y \notin G /\ y \notin held /\ H \in SUBSET RevisionId
    <3>1. held' = H /\ y \notin held /\ H \in SUBSET RevisionId
      BY DEF Arrive, IInv
    <3>2. view' = Derive(H, G)
      BY <3>1 DEF Arrive
    <3>3. Derive(H, G).followed = G
      BY DEF Derive
    <3>. HIDE DEF G, H
    <3>. QED
      BY <3>1, <3>2, <3>3
  <2>2. Accepted(H) = Accepted(held)
    BY <2>1, FollowedFacts DEF IInv, Accepted
  <2>3. F = Walk(held, Accepted(held), {}) /\ G = Walk(H, Accepted(held), {})
    BY <2>1, <2>2, FollowedIsDown DEF IInv
  <2>4. /\ G \in SUBSET held /\ Accepted(held) \cap held \subseteq G
        /\ ParentsOf(doc, G \ {}) \cap H \subseteq G
    <3>1. /\ G \subseteq H /\ Accepted(held) \cap H \subseteq G
          /\ ParentsOf(doc, G \ {}) \cap H \subseteq G
      <4>. HIDE DEF H, G
      <4>. QED
        BY <2>3, WalkFacts
    <3>. QED
      BY <2>1, <3>1
  <2>5. F \subseteq G
    <3>1. ParentsOf(doc, G \ {}) \cap held \subseteq G
      BY <2>4
    <3>2. G \in SUBSET held /\ Accepted(held) \cap held \subseteq G
      BY <2>4
    <3>3. F = Walk(held, Accepted(held), {})
      BY <2>3
    <3>. HIDE DEF F, G, H
    <3>. QED
      BY <3>1, <3>2, <3>3, WalkLeast
  <2>6. G \subseteq F
    <3>1. /\ F \subseteq held /\ Accepted(held) \cap held \subseteq F
          /\ ParentsOf(doc, F \ {}) \cap held \subseteq F
      <4>. HIDE DEF F
      <4>. QED
        BY <2>3, WalkFacts
    <3>2. y \notin ParentsOf(doc, F \ {})
      <4>1. ParentsOf(doc, F \ {}) \subseteq ParentsOf(doc, G \ {})
        BY <2>5 DEF ParentsOf
      <4>. QED
        BY <4>1, <2>1, <2>4
    <3>3. /\ F \in SUBSET H /\ Accepted(held) \cap H \subseteq F
          /\ ParentsOf(doc, F \ {}) \cap H \subseteq F
      BY <3>1, <3>2, <2>1 DEF Accepted
    <3>. HIDE DEF F, G, H
    <3>. QED
      BY <2>3, <3>3, WalkLeast
  <2>7. F = G
    BY <2>5, <2>6
  <2>. HIDE DEF F, G
  <2>8. (H \ Withdrawn(H, F)) \cap F = (held \ Withdrawn(held, F)) \cap F
    BY <2>1, <2>4, <2>7 DEF Withdrawn
  <2>9. view = Derive(held, F)
    BY DEF IInv, F
  <2>. QED
    BY <2>1, <2>7, <2>8, <2>9 DEF Derive
<1>. QED
  BY <1>1, Invariance, PTL DEF StrangersMoveNoHead, Spec

\* Whatever the rule accepts and whatever has been delivered so far, the walk
\* of Following::followed answers with the ancestry of what is accepted.
THEOREM FollowedAncestry == Spec => []FollowedIsAncestry
<1>1. IInv => FollowedIsAncestry
  <2>. SUFFICES ASSUME IInv PROVE FollowedIsAncestry
    OBVIOUS
  <2>1. view.followed = FollowedSet(held)
    BY DEF IInv, Derive
  <2>. QED
    BY <2>1, FollowedFacts DEF IInv, FollowedIsAncestry
<1>. QED
  BY <1>1, Invariance, PTL
=============================================================================
