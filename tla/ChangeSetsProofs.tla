-------------------------- MODULE ChangeSetsProofs --------------------------
(***************************************************************************)
(* Theorems of ChangeSets: whichever copies act and in whatever order the  *)
(* revisions and the names travel, names move forward only, a decline      *)
(* touches nothing but its own change set, and an acceptance holds what    *)
(* its reviewer saw.                                                       *)
(***************************************************************************)
EXTENDS ChangeSets, TLAPS
-----------------------------------------------------------------------------
(* The inductive invariant.                                                *)
Opened == \E o \in Ids : revs[o].opening

\* A name is only ever given where the change set was opened.
NamedOnceOpened == \A c \in Copies, n \in Facts : names[c][n] # 0 => Opened

\* An acceptance stands on the tip some reviewer who accepted saw last.
OnReview(m) == \E e \in Copies : names[e]["accepted"] # 0 /\ review[e] \in revs[m].parents

\* A name yet to be written is forward of what was read, unless it did not ask; and
\* an acceptance is of what its command's reviewer saw, or another's.
InOrder(c, by, w) ==
  /\ Opened /\ w.to \in Ids
  /\ ~w.asked => w.name = "submitted" /\ by = "command"
  /\ w.asked /\ w.was \notin {0, w.to} => w.name \in Moves /\ Descends(Ids, w.to, w.was)
  /\ w.name = "accepted" => OnReview(w.to) \/ (by = "command" /\ review[c] \in revs[w.to].parents)
WrittenInOrder == \A c \in Copies, by \in Processes : \A w \in doing[c][by] : InOrder(c, by, w)

AcceptedOnReview == \A c \in Copies : names[c]["accepted"] # 0 => OnReview(names[c]["accepted"])

\* The base of the change set is always there.
Based == 1 \in Ids

IInv == TypeOK /\ Based /\ NamedOnceOpened /\ WrittenInOrder /\ AcceptedOnReview

\* What a step may do to the names.
Forward ==
  \A c \in Copies, n \in Facts :
    names[c][n] \notin {0, names'[c][n]} /\ ~Overtaken(c, n) /\ ~Submitted(c, n) =>
      n \in Moves /\ Descends(Ids, names'[c][n], names[c][n])
-----------------------------------------------------------------------------
(* What stands beneath a revision.                                         *)
LEMMA BeneathGrows ==
  ASSUME NEW H, NEW K, H \subseteq K, NEW r
  PROVE  Beneath(H, r) \subseteq Beneath(K, r)
<1>1. \A S : Closed(S, K) => Closed(S, H)
  BY DEF Closed
<1>. QED
  BY <1>1 DEF Beneath

LEMMA ParentsBeneath ==
  ASSUME NEW H, NEW r \in H, NEW p \in revs[r].parents, p \in 1 .. r
  PROVE  p \in Beneath(H, r)
BY DEF Beneath, Closed

LEMMA ItselfBeneath == ASSUME NEW H, NEW r \in Nat, r # 0 PROVE r \in Beneath(H, r)
<1>1. r \in 1 .. r
  OBVIOUS
<1>. QED
  BY <1>1 DEF Beneath

LEMMA DescendsAll ==
  ASSUME NEW H, H \subseteq Ids, NEW later, NEW earlier, Descends(H, later, earlier)
  PROVE  Descends(Ids, later, earlier)
BY BeneathGrows DEF Descends

LEMMA Typed ==
  ASSUME IInv
  PROVE  /\ revs \in Seq(Revisions) /\ Len(revs) \in Nat /\ DOMAIN revs = Ids
         /\ \A r \in Ids : r \in Nat /\ revs[r] \in Revisions /\ revs[r].parents \subseteq 1 .. r - 1
                           /\ revs[r].supersedes \subseteq 1 .. r - 1 /\ revs[r].parents \subseteq Ids
         /\ held \in [Copies -> SUBSET Ids] /\ names \in [Copies -> [Facts -> 0 .. Len(revs)]]
         /\ doing \in [Copies -> [Processes -> SUBSET Writes]] /\ review \in [Copies -> 0 .. Len(revs)]
         /\ \A i \in 0 .. Len(revs) : i # 0 => i \in Ids
         /\ \A i \in Ids : i \in 0 .. Len(revs) /\ i # 0
<1>1. /\ revs \in Seq(Revisions) /\ Len(revs) \in Nat /\ DOMAIN revs = Ids
      /\ \A r \in Ids : r \in Nat /\ revs[r] \in Revisions
  BY DEF IInv, TypeOK, Ids
<1>2. \A r \in Ids : revs[r].parents \subseteq 1 .. r - 1 /\ revs[r].supersedes \subseteq 1 .. r - 1
  BY DEF IInv, TypeOK
<1>3. \A r \in Ids : 1 .. r - 1 \subseteq Ids
  BY <1>1 DEF Ids
<1>4. /\ \A i \in 0 .. Len(revs) : i # 0 => i \in Ids
      /\ \A i \in Ids : i \in 0 .. Len(revs) /\ i # 0
  BY <1>1 DEF Ids
<1>. QED
  BY <1>1, <1>2, <1>3, <1>4 DEF IInv, TypeOK

\* What is filed later takes nothing from what stands beneath a revision there is.
LEMMA DescendsStays ==
  ASSUME IInv, Ids \subseteq Ids', \A r \in Ids : revs'[r] = revs[r],
         NEW later \in Ids, NEW earlier, Descends(Ids, later, earlier)
  PROVE  Descends(Ids, later, earlier)'
<1>1. ASSUME NEW T \in SUBSET (1 .. later - 1), Closed(T \cup {later}, Ids)'
      PROVE  Closed(T \cup {later}, Ids)
  <2>1. Ids \subseteq Ids' /\ \A r \in Ids : revs'[r] = revs[r]
    OBVIOUS
  <2>. QED
    BY <1>1, <2>1 DEF Closed
<1>. QED
  BY <1>1 DEF Descends, Beneath
-----------------------------------------------------------------------------
(* Steps that leave the revisions as they are.                             *)

\* What leaves the names alone: what it decides to write is as it should be.
LEMMA NamesKept ==
  ASSUME IInv, UNCHANGED <<scene, revs, names>>,
         held' \in [Copies -> SUBSET Ids], doing' \in [Copies -> [Processes -> SUBSET Writes]],
         review' \in [Copies -> 0 .. Len(revs)],
         \A e \in Copies : review'[e] = review[e] \/ (names[e]["accepted"] = 0 /\ doing'[e]["command"] = {}),
         \A e \in Copies, q \in Processes : \A w \in doing'[e][q] \ doing[e][q] :
            InOrder(e, q, w) /\ review'[e] = review[e]
  PROVE  IInv' /\ Forward
<1>1. Ids' = Ids /\ Opened' = Opened /\ Writes' = Writes
      /\ \A x, y : Descends(Ids, x, y)' = Descends(Ids, x, y)
  BY DEF Ids, Opened, Writes, Descends, Beneath, Closed
<1>2. TypeOK' /\ Based'
  BY <1>1 DEF IInv, TypeOK, Based
<1>3. NamedOnceOpened'
  BY <1>1 DEF IInv, NamedOnceOpened
<1>4. ASSUME NEW m, OnReview(m) PROVE OnReview(m)'
  <2>1. PICK e \in Copies : names[e]["accepted"] # 0 /\ review[e] \in revs[m].parents
    BY <1>4 DEF OnReview
  <2>2. review'[e] = review[e]
    BY <2>1
  <2>. QED
    BY <2>1, <2>2 DEF OnReview
<1>5. WrittenInOrder'
  <2>. SUFFICES ASSUME NEW e \in Copies, NEW q \in Processes, NEW w \in doing'[e][q] PROVE InOrder(e, q, w)'
    BY DEF WrittenInOrder
  <2>1. InOrder(e, q, w)
    BY DEF IInv, WrittenInOrder
  <2>2. q = "command" => review'[e] = review[e]
    OBVIOUS
  <2>. QED
    BY <1>1, <1>4, <2>1, <2>2 DEF InOrder
<1>6. AcceptedOnReview'
  BY <1>4 DEF IInv, AcceptedOnReview
<1>7. Forward
  BY Typed DEF Forward
<1>. QED
  BY <1>2, <1>3, <1>5, <1>6, <1>7 DEF IInv

\* A process that decides on its names, and leaves the reviews.
LEMMA DecidedKeeps ==
  ASSUME IInv, UNCHANGED <<scene, revs, names, review>>, NEW c \in Copies, NEW by \in Processes,
         held' \in [Copies -> SUBSET Ids], NEW new \in SUBSET Writes, doing' = [doing EXCEPT ![c][by] = new],
         \A w \in new : InOrder(c, by, w)
  PROVE  IInv' /\ Forward
<1>1. /\ doing' \in [Copies -> [Processes -> SUBSET Writes]] /\ doing'[c][by] = new
      /\ \A e \in Copies, q \in Processes : <<e, q>> # <<c, by>> => doing'[e][q] = doing[e][q]
  BY Typed
<1>2. \A e \in Copies, q \in Processes : \A w \in doing'[e][q] \ doing[e][q] : InOrder(e, q, w)
  BY <1>1
<1>3. review' \in [Copies -> 0 .. Len(revs)] /\ \A e \in Copies : review'[e] = review[e]
  BY Typed
<1>. QED
  BY <1>1, <1>2, <1>3, NamesKept

LEMMA ReconcileIs ==
  ASSUME NEW H, NEW n \in Facts, NEW ours, NEW theirs
  PROVE  /\ Reconcile(H, n, ours, theirs) \in {ours, theirs}
         /\ ours \notin {0, Reconcile(H, n, ours, theirs)} =>
              n \in Moves /\ Descends(H, Reconcile(H, n, ours, theirs), ours)
         /\ Reconcile(H, n, ours, theirs) = ours \/ Reconcile(H, n, ours, theirs) # 0
         /\ Weighed(H, n, ours, theirs) \in {ours, theirs}
         /\ ours \notin {0, Weighed(H, n, ours, theirs)} =>
              n \in Moves /\ Descends(H, Weighed(H, n, ours, theirs), ours)
         /\ Weighed(H, n, ours, theirs) = ours \/ Weighed(H, n, ours, theirs) # 0
BY DEF Reconcile, Weighed

\* What two copies' readings come to, by either rule, for either process.
LEMMA NamesTaken ==
  ASSUME IInv, UNCHANGED <<scene, revs, names, review>>, NEW c \in Copies, NEW d \in Copies,
         NEW by \in Processes, Idle(c, by),
         NEW H, H \subseteq Ids, held' \in [Copies -> SUBSET Ids],
         NEW new, doing' = [doing EXCEPT ![c][by] = Taken(c, new)],
         \A n \in Facts : /\ new[n] \in {names[c][n], names[d][n]} /\ (new[n] = names[c][n] \/ new[n] # 0)
                          /\ names[c][n] \notin {0, new[n]} => n \in Moves /\ Descends(H, new[n], names[c][n])
  PROVE  IInv' /\ Forward
<1>1. ASSUME NEW w \in Taken(c, new)
      PROVE  /\ w \in Writes /\ Opened /\ w.to \in Ids /\ w.asked
             /\ w.was \notin {0, w.to} => w.name \in Moves /\ Descends(Ids, w.to, w.was)
             /\ w.name = "accepted" => OnReview(w.to)
  <2>1. PICK n \in Facts : new[n] # names[c][n] /\ w = Write(c, n, new[n], TRUE)
    BY <1>1 DEF Taken
  <2>2. w.name = n /\ w.to = new[n] /\ w.was = names[c][n] /\ w.asked
    BY <2>1 DEF Write
  <2>3. new[n] = names[d][n] /\ new[n] # 0
    BY <2>1
  <2>4. new[n] \in Ids /\ names[c][n] \in 0 .. Len(revs) /\ new[n] \in 0 .. Len(revs)
    BY <2>3, Typed
  <2>5. Opened
    BY <2>3 DEF IInv, NamedOnceOpened
  <2>6. w \in Writes
    BY <2>1, <2>4 DEF Write, Writes
  <2>7. w.was \notin {0, w.to} => w.name \in Moves /\ Descends(Ids, w.to, w.was)
    BY <2>2, DescendsAll
  <2>8. w.name = "accepted" => OnReview(w.to)
    BY <2>2, <2>3 DEF IInv, AcceptedOnReview
  <2>. QED
    BY <2>2, <2>4, <2>5, <2>6, <2>7, <2>8
<1>. DEFINE taken == Taken(c, new)
<1>2. taken \in SUBSET Writes /\ \A w \in taken : InOrder(c, by, w)
  BY <1>1 DEF InOrder
<1>3. doing' = [doing EXCEPT ![c][by] = taken]
  OBVIOUS
<1>. HIDE DEF taken
<1>. QED
  BY <1>2, <1>3, DecidedKeeps

\* A name decided on by hand, on a change set that is read and undecided.
LEMMA DecideKeeps ==
  ASSUME IInv, NEW c \in Copies, Undecided(c), NEW name \in Facts, NEW to \in Ids, NEW asked \in BOOLEAN,
         Decide(c, name, to, asked),
         ~asked => name = "submitted",
         asked /\ names[c][name] \notin {0, to} => name \in Moves /\ Descends(Ids, to, names[c][name]),
         name = "accepted" => review[c] \in revs[to].parents
  PROVE  IInv' /\ Forward
<1>. DEFINE w == Write(c, name, to, asked)
<1>1. /\ UNCHANGED <<scene, revs, held, names, review>> /\ Idle(c, "command")
      /\ doing' = [doing EXCEPT ![c]["command"] = {w}]
  BY DEF Decide, Ready
<1>2. w.name = name /\ w.to = to /\ w.was = names[c][name] /\ w.asked = asked
  BY DEF Write
<1>3. Opened
  <2>1. PICK o \in Opening(c) : TRUE
    BY DEF Undecided, Readable
  <2>. QED
    BY Typed DEF Opening, Opened
<1>4. w \in Writes
  BY Typed DEF Write, Writes
<1>5. held' \in [Copies -> SUBSET Ids] /\ "command" \in Processes
  BY <1>1, Typed DEF Processes
<1>6. InOrder(c, "command", w)
  BY <1>2, <1>3 DEF InOrder
<1>. HIDE DEF w
<1>7. {w} \in SUBSET Writes /\ \A v \in {w} : InOrder(c, "command", v)
  BY <1>4, <1>6
<1>. QED
  BY <1>1, <1>5, <1>7, DecidedKeeps
-----------------------------------------------------------------------------
(* Steps that file a revision.                                             *)
LEMMA FileKeeps ==
  ASSUME IInv, NEW c \in Copies, NEW revision \in Revisions, NEW name \in {"tip", "declined"},
         NEW writes \in {{}, {Write(c, name, Len(revs) + 1, TRUE)}},
         File(c, revision, writes), revision.parents \cup revision.supersedes \subseteq Ids,
         writes # {} /\ name = "tip" => names[c]["tip"] \in revision.parents \cup {0},
         writes # {} /\ name = "declined" => names[c]["declined"] = 0,
         writes # {} => Opened \/ revision.opening
  PROVE  IInv' /\ Forward
<1>. DEFINE new == Len(revs) + 1
<1>1. /\ Len(revs) < scene.revs /\ revs' = Append(revs, revision) /\ UNCHANGED <<scene, names, review>>
      /\ held' = [held EXCEPT ![c] = @ \cup {new}] /\ doing[c]["command"] = {}
      /\ doing' = [doing EXCEPT ![c]["command"] = writes]
  BY DEF File, Ready, Idle
<1>2. /\ revs' \in Seq(Revisions) /\ Len(revs') = new /\ new \in Nat /\ new \notin Ids
      /\ revs'[new] = revision /\ \A r \in Ids : revs'[r] = revs[r]
  BY <1>1, Typed DEF Ids
<1>3. Ids' = Ids \cup {new} /\ Ids = 1 .. new - 1 /\ new \in Ids'
  BY <1>2, Typed DEF Ids
<1>4. 0 .. Len(revs) \subseteq 0 .. Len(revs') /\ new \in 0 .. Len(revs') /\ 0 \in 0 .. Len(revs')
  BY <1>2, Typed
<1>5. /\ doing' \in [Copies -> [Processes -> SUBSET Writes']] /\ doing'[c]["command"] = writes
      /\ \A e \in Copies, q \in Processes : <<e, q>> # <<c, "command">> => doing'[e][q] = doing[e][q]
  <2>1. Write(c, name, new, TRUE) \in Writes'
    <3>1. names[c][name] \in 0 .. Len(revs') /\ name \in Facts
      BY <1>4, Typed DEF Facts
    <3>. QED
      BY <1>4, <3>1 DEF Write, Writes
  <2>2. Writes \subseteq Writes' /\ "command" \in Processes
    BY <1>4 DEF Writes, Processes
  <2>3. writes \in SUBSET Writes'
    BY <2>1
  <2>. QED
    BY <1>1, <2>2, <2>3, Typed
<1>6. TypeOK'
  <2>1. held' \in [Copies -> SUBSET Ids']
    BY <1>1, <1>3, Typed
  <2>2. names' \in [Copies -> [Facts -> 0 .. Len(revs')]] /\ review' \in [Copies -> 0 .. Len(revs')]
    BY <1>1, <1>4, Typed
  <2>3. ASSUME NEW r \in Ids' PROVE revs'[r].parents \cup revs'[r].supersedes \subseteq 1 .. r - 1
    <3>1. CASE r \in Ids
      BY <3>1, <1>2, Typed
    <3>2. CASE r = new
      BY <3>2, <1>2, <1>3
    <3>. QED
      BY <3>1, <3>2, <1>3
  <2>4. Len(revs') <= scene'.revs /\ scene' \in Scenes
    <3>1. scene \in Scenes /\ scene.revs \in Nat
      BY ScenesAssumption DEF IInv, TypeOK
    <3>. QED
      BY <1>1, <1>2, <3>1, Typed
  <2>. QED
    BY <1>2, <1>5, <2>1, <2>2, <2>3, <2>4 DEF TypeOK
<1>7. Based'
  BY <1>3 DEF IInv, Based
<1>8. (Opened => Opened') /\ (revision.opening => Opened')
  BY <1>2, <1>3 DEF Opened
<1>9. NamedOnceOpened'
  BY <1>1, <1>8 DEF IInv, NamedOnceOpened
<1>10. ASSUME NEW m \in Ids, OnReview(m) PROVE OnReview(m)'
  BY <1>1, <1>2, <1>10 DEF OnReview
<1>11. WrittenInOrder'
  <2>. SUFFICES ASSUME NEW e \in Copies, NEW q \in Processes, NEW w \in doing'[e][q] PROVE InOrder(e, q, w)'
    BY DEF WrittenInOrder
  <2>1. CASE <<e, q>> # <<c, "command">>
    <3>1. InOrder(e, q, w) /\ w.to \in Ids
      BY <1>5, <2>1 DEF IInv, WrittenInOrder, InOrder
    <3>2. Descends(Ids, w.to, w.was) => Descends(Ids, w.to, w.was)'
      BY <1>2, <1>3, <3>1, DescendsStays
    <3>. QED
      BY <1>1, <1>2, <1>3, <1>8, <1>10, <3>1, <3>2 DEF InOrder
  <2>2. CASE <<e, q>> = <<c, "command">>
    <3>1. e = c /\ q = "command" /\ w \in writes
      BY <1>5, <2>2
    <3>2. w = Write(c, name, new, TRUE) /\ writes # {}
      BY <3>1
    <3>3. w.name = name /\ w.to = new /\ w.was = names[c][name] /\ w.asked = TRUE
      BY <3>2 DEF Write
    <3>4. Opened' /\ w.to \in Ids' /\ w.name # "accepted"
      BY <1>3, <1>8, <3>2, <3>3
    <3>5. ASSUME w.was \notin {0, w.to} PROVE w.name \in Moves /\ Descends(Ids, w.to, w.was)'
      <4>1. name = "tip" /\ w.was \in revision.parents /\ w.was \in Ids
        BY <3>2, <3>3, <3>5
      <4>2. w.was \in revs'[w.to].parents /\ w.was \in 1 .. w.to /\ w.to \in Ids'
        BY <1>2, <1>3, <3>3, <4>1
      <4>3. (w.was \in Beneath(Ids, w.to))'
        BY <4>2 DEF Beneath, Closed
      <4>. QED
        BY <3>3, <3>5, <4>1, <4>3 DEF Descends, Moves
    <3>. QED
      BY <3>3, <3>4, <3>5 DEF InOrder
  <2>. QED
    BY <2>1, <2>2
<1>12. AcceptedOnReview'
  <2>1. \A e \in Copies : names[e]["accepted"] # 0 => names[e]["accepted"] \in Ids
    BY Typed DEF Facts
  <2>. QED
    BY <2>1, <1>1, <1>10 DEF IInv, AcceptedOnReview
<1>13. Forward
  BY <1>1 DEF Forward
<1>. QED
  BY <1>6, <1>7, <1>9, <1>11, <1>12, <1>13 DEF IInv
-----------------------------------------------------------------------------
(* The commands.                                                           *)
LEMMA ProposeKeeps == ASSUME IInv, NEW c \in Copies, Propose(c) PROVE IInv' /\ Forward
<1>. DEFINE revision == Revision({1}, {}, TRUE)
            writes == {Write(c, "tip", Len(revs) + 1, TRUE)}
<1>1. File(c, revision, writes) /\ ~Opened
  BY DEF Propose, Opened
<1>2. names[c]["tip"] = 0
  BY <1>1 DEF IInv, NamedOnceOpened, Facts
<1>3. revision \in Revisions /\ revision.opening /\ revision.parents \cup revision.supersedes \subseteq Ids
  BY DEF Revision, Revisions, IInv, Based
<1>4. writes \in {{}, {Write(c, "tip", Len(revs) + 1, TRUE)}} /\ "tip" \in {"tip", "declined"} /\ "tip" # "declined"
  OBVIOUS
<1>. HIDE DEF revision, writes
<1>. QED
  BY <1>1, <1>2, <1>3, <1>4, FileKeeps

LEMMA RecordKeeps == ASSUME IInv, NEW c \in Copies, Record(c) PROVE IInv' /\ Forward
<1>1. PICK p \in held[c] \ {1, 2}, q \in held[c] : File(c, Revision({p, q}, {}, FALSE), Stepped(c, {p, q}))
  BY DEF Record
<1>. DEFINE revision == Revision({p, q}, {}, FALSE)
            writes == Stepped(c, {p, q})
<1>2. p \in Ids /\ q \in Ids
  BY Typed
<1>3. revision \in Revisions /\ revision.parents = {p, q} /\ revision.supersedes = {}
  BY <1>2, Typed DEF Revision, Revisions
<1>4. /\ writes \in {{}, {Write(c, "tip", Len(revs) + 1, TRUE)}} /\ "tip" \in {"tip", "declined"} /\ "tip" # "declined"
      /\ writes # {} => names[c]["tip"] \in {p, q}
  BY DEF Stepped
<1>5. writes # {} => Opened
  <2>1. "tip" \in Facts /\ 0 \notin Ids
    BY Typed DEF Facts
  <2>. QED
    BY <1>2, <1>4, <2>1 DEF IInv, NamedOnceOpened
<1>. HIDE DEF revision, writes
<1>6. File(c, revision, writes)
  BY <1>1 DEF revision, writes
<1>7. revision.parents \cup revision.supersedes \subseteq Ids
  BY <1>2, <1>3
<1>. QED
  BY <1>3, <1>4, <1>5, <1>6, <1>7, FileKeeps

LEMMA DeclineKeeps == ASSUME IInv, NEW c \in Copies, Decline(c) PROVE IInv' /\ Forward
<1>. DEFINE superseded == (Opening(c) \cup Steps(c)) \ Superseded(c)
            revision == Revision({1}, superseded, FALSE)
            writes == {Write(c, "declined", Len(revs) + 1, TRUE)}
<1>1. File(c, revision, writes) /\ Undecided(c)
  BY DEF Decline
<1>2. names[c]["declined"] = 0
  BY <1>1 DEF Undecided, State
<1>3. Opened
  <2>1. PICK o \in Opening(c) : TRUE
    BY <1>1 DEF Undecided, Readable
  <2>. QED
    BY Typed DEF Opening, Opened
<1>4. superseded \subseteq Ids
  <2>1. names[c]["tip"] \in held[c]
    BY <1>1 DEF Undecided, Readable
  <2>2. names[c]["tip"] \in Ids /\ 1 .. names[c]["tip"] \subseteq Ids
    BY <2>1, Typed DEF Ids
  <2>3. Opening(c) \cup Steps(c) \subseteq Ancestry(c, names[c]["tip"])
    BY DEF Opening, Steps, OnLine
  <2>4. Ancestry(c, names[c]["tip"]) \subseteq 1 .. names[c]["tip"]
    BY DEF Ancestry, Beneath
  <2>. QED
    BY <2>2, <2>3, <2>4
<1>5. 1 \in Ids
  BY DEF IInv, Based
<1>. HIDE DEF superseded
<1>6. revision \in Revisions /\ revision.parents = {1} /\ revision.supersedes = superseded
  BY <1>4, Typed DEF Revision, Revisions
<1>7. revision.parents \cup revision.supersedes \subseteq Ids
  BY <1>4, <1>5, <1>6
<1>8. writes \in {{}, {Write(c, "declined", Len(revs) + 1, TRUE)}} /\ "declined" \in {"tip", "declined"}
      /\ "tip" # "declined"
  OBVIOUS
<1>. HIDE DEF revision, writes
<1>. QED
  BY <1>1, <1>2, <1>3, <1>6, <1>7, <1>8, FileKeeps

LEMMA WriteNameKeeps ==
  ASSUME IInv, NEW c \in Copies, NEW by \in Processes, WriteName(c, by) PROVE IInv' /\ Forward
<1>1. PICK w \in doing[c][by] :
        /\ UNCHANGED <<scene, revs, held, review>>
        /\ names' = [names EXCEPT ![c][w.name] = w.to] /\ doing' = [doing EXCEPT ![c][by] = @ \ {w}]
  BY DEF WriteName
<1>2. /\ Opened /\ w.to \in Ids
      /\ ~w.asked => w.name = "submitted" /\ by = "command"
      /\ w.asked /\ w.was \notin {0, w.to} => w.name \in Moves /\ Descends(Ids, w.to, w.was)
      /\ w.name = "accepted" => OnReview(w.to) \/ (by = "command" /\ review[c] \in revs[w.to].parents)
  BY <1>1 DEF IInv, WrittenInOrder, InOrder
<1>3. w \in Writes
  BY <1>1, Typed
<1>4. w.name \in Facts /\ w.to \in 0 .. Len(revs) /\ w.to # 0 /\ w.asked \in BOOLEAN /\ "accepted" \in Facts
  BY <1>2, <1>3, Typed DEF Writes, Facts
<1>5. /\ names' \in [Copies -> [Facts -> 0 .. Len(revs)]] /\ names'[c][w.name] = w.to
      /\ \A e \in Copies, n \in Facts : <<e, n>> # <<c, w.name>> => names'[e][n] = names[e][n]
  BY <1>1, <1>4, Typed
<1>6. /\ doing' \in [Copies -> [Processes -> SUBSET Writes]] /\ doing'[c][by] = doing[c][by] \ {w}
      /\ \A e \in Copies, q \in Processes : doing'[e][q] \subseteq doing[e][q]
  BY <1>1, Typed
<1>7. Ids' = Ids /\ Opened' = Opened /\ Writes' = Writes
      /\ \A x, y : Descends(Ids, x, y)' = Descends(Ids, x, y)
  BY <1>1 DEF Ids, Opened, Writes, Descends, Beneath, Closed
<1>8. TypeOK' /\ Based'
  BY <1>1, <1>5, <1>6, <1>7 DEF IInv, TypeOK, Based
<1>9. NamedOnceOpened'
  BY <1>2, <1>7 DEF NamedOnceOpened
<1>10. \A e \in Copies : names[e]["accepted"] # 0 => names'[e]["accepted"] # 0
  BY <1>4, <1>5
<1>11. ASSUME NEW m, OnReview(m) PROVE OnReview(m)'
  BY <1>1, <1>10, <1>11 DEF OnReview
<1>12. WrittenInOrder'
  <2>. SUFFICES ASSUME NEW e \in Copies, NEW q \in Processes, NEW v \in doing'[e][q] PROVE InOrder(e, q, v)'
    BY DEF WrittenInOrder
  <2>1. InOrder(e, q, v)
    BY <1>6 DEF IInv, WrittenInOrder
  <2>. QED
    BY <1>1, <1>7, <1>11, <2>1 DEF InOrder
<1>13. AcceptedOnReview'
  <2>. SUFFICES ASSUME NEW e \in Copies, names'[e]["accepted"] # 0
                PROVE  \E x \in Copies : /\ names'[x]["accepted"] # 0
                                         /\ review'[x] \in revs'[names'[e]["accepted"]].parents
    BY DEF AcceptedOnReview, OnReview
  <2>1. CASE names'[e]["accepted"] = names[e]["accepted"]
    BY <1>1, <1>10, <2>1 DEF IInv, AcceptedOnReview, OnReview
  <2>2. CASE names'[e]["accepted"] # names[e]["accepted"]
    <3>1. e = c /\ w.name = "accepted" /\ names'[c]["accepted"] = w.to
      BY <1>4, <1>5, <2>2
    <3>2. CASE OnReview(w.to)
      BY <1>1, <1>10, <3>1, <3>2 DEF OnReview
    <3>3. CASE review[c] \in revs[w.to].parents
      BY <1>1, <1>4, <3>1, <3>3
    <3>. QED
      BY <1>2, <3>1, <3>2, <3>3
  <2>. QED
    BY <2>1, <2>2
<1>14. Forward
  <2>. SUFFICES ASSUME NEW e \in Copies, NEW n \in Facts, names[e][n] \notin {0, names'[e][n]},
                       ~Overtaken(e, n), ~Submitted(e, n)
                PROVE  n \in Moves /\ Descends(Ids, names'[e][n], names[e][n])
    BY DEF Forward
  <2>1. e = c /\ n = w.name /\ names'[e][n] = w.to
    BY <1>5
  <2>2. w.was = names[e][n]
    BY <1>1, <1>6, <2>1 DEF Overtaken
  <2>3. w.asked
    BY <1>1, <1>2, <1>6, <2>1 DEF Submitted
  <2>. QED
    BY <1>2, <2>1, <2>2, <2>3
<1>. QED
  BY <1>8, <1>9, <1>12, <1>13, <1>14 DEF IInv

LEMMA StopKeeps == ASSUME IInv, NEW c \in Copies, NEW by \in Processes, Stop(c, by) PROVE IInv' /\ Forward
<1>1. UNCHANGED <<scene, revs, held, names, review>> /\ doing' = [doing EXCEPT ![c][by] = {}]
  BY DEF Stop
<1>2. {} \in SUBSET Writes /\ held' \in [Copies -> SUBSET Ids] /\ \A w \in {} : InOrder(c, by, w)
  BY <1>1, Typed
<1>. QED
  BY <1>1, <1>2, DecidedKeeps

LEMMA ReviewKeeps == ASSUME IInv, NEW c \in Copies, Review(c) PROVE IInv' /\ Forward
<1>1. /\ UNCHANGED <<scene, revs, held, names, doing>> /\ review' = [review EXCEPT ![c] = names[c]["tip"]]
      /\ Undecided(c) /\ doing[c]["command"] = {}
  BY DEF Review, Ready, Idle
<1>2. names[c]["accepted"] = 0
  BY <1>1 DEF Undecided, State
<1>3. names[c]["tip"] \in 0 .. Len(revs)
  BY Typed DEF Facts
<1>4. /\ review' \in [Copies -> 0 .. Len(revs)] /\ held' \in [Copies -> SUBSET Ids]
      /\ doing' \in [Copies -> [Processes -> SUBSET Writes]]
      /\ \A e \in Copies : review'[e] = review[e] \/ (names[e]["accepted"] = 0 /\ doing'[e]["command"] = {})
  BY <1>1, <1>2, <1>3, Typed
<1>. QED
  BY <1>1, <1>4, NamesKept

LEMMA AdvanceKeeps == ASSUME IInv, NEW c \in Copies, Advance(c) PROVE IInv' /\ Forward
<1>1. PICK to \in held[c] : Descends(held[c], to, names[c]["tip"]) /\ Decide(c, "tip", to, TRUE)
  BY DEF Advance
<1>2. Undecided(c)
  BY DEF Advance
<1>3. to \in Ids /\ held[c] \subseteq Ids /\ "tip" \in Facts /\ "tip" \in Moves /\ "tip" # "accepted"
  BY Typed DEF Facts, Moves
<1>4. Descends(Ids, to, names[c]["tip"])
  BY <1>1, <1>3, DescendsAll
<1>. QED
  BY <1>1, <1>2, <1>3, <1>4, DecideKeeps

LEMMA SubmitKeeps == ASSUME IInv, NEW c \in Copies, Submit(c) PROVE IInv' /\ Forward
<1>1. Undecided(c) /\ Decide(c, "submitted", names[c]["tip"], FALSE)
  BY DEF Submit
<1>2. names[c]["tip"] \in Ids /\ "submitted" \in Facts /\ "submitted" # "accepted"
  BY <1>1, Typed DEF Facts, Undecided, Readable
<1>. QED
  BY <1>1, <1>2, DecideKeeps

LEMMA AcceptKeeps == ASSUME IInv, NEW c \in Copies, Accept(c) PROVE IInv' /\ Forward
<1>1. PICK m \in held[c] : names[c]["tip"] \in revs[m].parents /\ Decide(c, "accepted", m, TRUE)
  BY DEF Accept
<1>2. Undecided(c) /\ review[c] = names[c]["tip"]
  BY DEF Accept, Acceptable
<1>3. names[c]["accepted"] = 0 /\ m \in Ids /\ "accepted" \in Facts
  BY <1>2, Typed DEF Undecided, State, Facts
<1>. QED
  BY <1>1, <1>2, <1>3, DecideKeeps
-----------------------------------------------------------------------------
(* What travels.                                                           *)
LEMMA ArriveKeeps == ASSUME IInv, NEW c \in Copies, NEW d \in Copies, Arrive(c, d) PROVE IInv' /\ Forward
<1>1. PICK r \in held[d] \ held[c] : held' = [held EXCEPT ![c] = @ \cup {r}]
  BY DEF Arrive
<1>2. UNCHANGED <<scene, revs, names, doing, review>>
  BY DEF Arrive
<1>3. /\ held' \in [Copies -> SUBSET Ids] /\ doing' \in [Copies -> [Processes -> SUBSET Writes]]
      /\ review' \in [Copies -> 0 .. Len(revs)]
  BY <1>1, <1>2, Typed
<1>. QED
  BY <1>2, <1>3, NamesKept

LEMMA TakeNamesKeeps == ASSUME IInv, NEW c \in Copies, NEW d \in Copies, TakeNames(c, d) PROVE IInv' /\ Forward
<1>. DEFINE new == [n \in Facts |-> Reconcile(held[c], n, names[c][n], names[d][n])]
<1>1. /\ Idle(c, "host") /\ doing' = [doing EXCEPT ![c]["host"] = Taken(c, new)]
      /\ UNCHANGED <<scene, revs, held, names, review>>
  BY DEF TakeNames
<1>2. held[c] \subseteq Ids /\ held' \in [Copies -> SUBSET Ids] /\ "host" \in Processes
  BY <1>1, Typed DEF Processes
<1>3. ASSUME NEW n \in Facts
      PROVE  /\ new[n] \in {names[c][n], names[d][n]} /\ (new[n] = names[c][n] \/ new[n] # 0)
             /\ names[c][n] \notin {0, new[n]} => n \in Moves /\ Descends(held[c], new[n], names[c][n])
  BY ReconcileIs
<1>. HIDE DEF new
<1>. QED
  BY <1>1, <1>2, <1>3, NamesTaken

LEMMA ReceiveKeeps == ASSUME IInv, NEW c \in Copies, NEW d \in Copies, Receive(c, d) PROVE IInv' /\ Forward
<1>. DEFINE H == held[c] \cup held[d]
            new == [n \in Facts |-> Reconcile(H, n, names[c][n], names[d][n])]
<1>1. /\ Idle(c, "command") /\ doing' = [doing EXCEPT ![c]["command"] = Taken(c, new)]
      /\ UNCHANGED <<scene, revs, names, review>> /\ held' = [held EXCEPT ![c] = H]
  BY DEF Receive, Ready
<1>2. H \subseteq Ids /\ held' \in [Copies -> SUBSET Ids] /\ "command" \in Processes
  BY <1>1, Typed DEF Processes
<1>. HIDE DEF H
<1>3. ASSUME NEW n \in Facts
      PROVE  /\ new[n] \in {names[c][n], names[d][n]} /\ (new[n] = names[c][n] \/ new[n] # 0)
             /\ names[c][n] \notin {0, new[n]} => n \in Moves /\ Descends(H, new[n], names[c][n])
  BY ReconcileIs
<1>. HIDE DEF new
<1>. QED
  BY <1>1, <1>2, <1>3, NamesTaken

LEMMA FetchKeeps == ASSUME IInv, NEW c \in Copies, NEW d \in Copies, Fetch(c, d) PROVE IInv' /\ Forward
<1>. DEFINE H == held[c] \cup held[d]
            new == [n \in Facts |-> Weighed(H, n, names[c][n], names[d][n])]
<1>1. /\ Idle(c, "command") /\ doing' = [doing EXCEPT ![c]["command"] = Taken(c, new)]
      /\ UNCHANGED <<scene, revs, names, review>> /\ held' = [held EXCEPT ![c] = H]
  BY DEF Fetch, Ready
<1>2. H \subseteq Ids /\ held' \in [Copies -> SUBSET Ids] /\ "command" \in Processes
  BY <1>1, Typed DEF Processes
<1>. HIDE DEF H
<1>3. ASSUME NEW n \in Facts
      PROVE  /\ new[n] \in {names[c][n], names[d][n]} /\ (new[n] = names[c][n] \/ new[n] # 0)
             /\ names[c][n] \notin {0, new[n]} => n \in Moves /\ Descends(H, new[n], names[c][n])
  BY ReconcileIs
<1>. HIDE DEF new
<1>. QED
  BY <1>1, <1>2, <1>3, NamesTaken
-----------------------------------------------------------------------------
LEMMA Initially == Init => IInv
<1>. SUFFICES ASSUME Init PROVE IInv
  OBVIOUS
<1>. DEFINE a == Revision({}, {}, FALSE)
            b == Revision({1}, {}, FALSE)
<1>1. a \in Revisions /\ b \in Revisions
  BY DEF Revision, Revisions
<1>2. /\ a.parents = {} /\ a.supersedes = {} /\ ~a.opening
      /\ b.parents = {1} /\ b.supersedes = {} /\ ~b.opening
  BY DEF Revision
<1>. HIDE DEF a, b
<1>3. revs = <<a, b>> /\ held = [c \in Copies |-> {1, 2}] /\ names = [c \in Copies |-> Unnamed]
      /\ doing = [c \in Copies |-> Nothing] /\ review = [c \in Copies |-> 0] /\ scene \in Scenes
  BY DEF Init, a, b
<1>4. revs \in Seq(Revisions) /\ Len(revs) = 2 /\ revs[1] = a /\ revs[2] = b /\ Ids = {1, 2}
  BY <1>1, <1>3 DEF Ids
<1>5. Unnamed \in [Facts -> 0 .. Len(revs)] /\ (\A n \in Facts : Unnamed[n] = 0)
      /\ Nothing \in [Processes -> SUBSET Writes] /\ \A by \in Processes : Nothing[by] = {}
  BY <1>4 DEF Unnamed, Nothing
<1>6. \A r \in Ids : revs[r].parents \cup revs[r].supersedes \subseteq 1 .. r - 1
  BY <1>2, <1>4
<1>7. TypeOK
  BY <1>3, <1>4, <1>5, <1>6, ScenesAssumption DEF TypeOK
<1>8. Based
  BY <1>4 DEF Based
<1>9. NamedOnceOpened /\ WrittenInOrder
  BY <1>3, <1>5 DEF NamedOnceOpened, WrittenInOrder
<1>10. AcceptedOnReview
  BY <1>3, <1>5 DEF AcceptedOnReview, Facts
<1>. QED
  BY <1>7, <1>8, <1>9, <1>10 DEF IInv

LEMMA StepKeeps == IInv /\ [Next]_vars => IInv' /\ Forward
<1>. SUFFICES ASSUME IInv, [Next]_vars PROVE IInv' /\ Forward
  OBVIOUS
<1>1. CASE UNCHANGED vars
  <2>1. UNCHANGED <<scene, revs, held, names, doing, review>>
    BY <1>1 DEF vars
  <2>2. /\ held' \in [Copies -> SUBSET Ids] /\ doing' \in [Copies -> [Processes -> SUBSET Writes]]
        /\ review' \in [Copies -> 0 .. Len(revs)]
    BY <2>1, Typed
  <2>. QED
    BY <2>1, <2>2, NamesKept
<1>2. ASSUME NEW c \in Copies, Acts(c) PROVE IInv' /\ Forward
  BY <1>2, ProposeKeeps, RecordKeeps, WriteNameKeeps, StopKeeps, AdvanceKeeps, SubmitKeeps, ReviewKeeps,
     AcceptKeeps, DeclineKeeps DEF Acts
<1>3. ASSUME NEW c \in Copies, NEW d \in Copies, Sync(c, d) PROVE IInv' /\ Forward
  BY <1>3, ArriveKeeps, TakeNamesKeeps, ReceiveKeeps, FetchKeeps DEF Sync
<1>. QED
  BY <1>1, <1>2, <1>3 DEF Next
-----------------------------------------------------------------------------
(* What a decline supersedes, and what it leaves standing.                 *)
Spared(c, r) ==
  /\ r \in revs'[Len(revs')].supersedes => \E o \in Ids : revs[o].opening /\ o \in Beneath(Ids, r)
  /\ r \notin revs'[Len(revs')].supersedes /\ revs[r].parents \cap revs'[Len(revs')].supersedes # {}
       => IsTombstone(r)

\* Whatever else is filed supersedes nothing.
LEMMA FileSpares ==
  ASSUME IInv, NEW c \in Copies, NEW revision \in Revisions, NEW writes, File(c, revision, writes),
         revision.supersedes = {}, NEW r
  PROVE  Spared(c, r)
<1>1. revs' = Append(revs, revision)
  BY DEF File
<1>2. revs'[Len(revs')] = revision
  BY <1>1, Typed
<1>. QED
  BY <1>2 DEF Spared

LEMMA DeclineSpares ==
  ASSUME IInv, NEW c \in Copies, Decline(c), NEW r \in held[c] \ Superseded(c)
  PROVE  Spared(c, r)
<1>. DEFINE line == Opening(c) \cup Steps(c)
            revision == Revision({1}, line \ Superseded(c), FALSE)
<1>1. Standing(c) = {} /\ revs' = Append(revs, revision)
  BY DEF Decline, File
<1>2. revision.supersedes = line \ Superseded(c)
  BY DEF Revision
<1>3. revs'[Len(revs')] = revision
  <2>. HIDE DEF revision
  <2>. QED
    BY <1>1, Typed
<1>4. ASSUME r \in line
      PROVE  \E o \in Ids : revs[o].opening /\ o \in Beneath(Ids, r)
  <2>1. r \in Ids /\ r \in Nat /\ r # 0
    BY Typed
  <2>2. CASE r \in Opening(c)
    BY <2>1, <2>2, ItselfBeneath DEF Opening
  <2>3. CASE r \in Steps(c)
    <3>1. PICK o \in Ancestry(c, r) \cap held[c] : revs[o].opening
      BY <2>3 DEF Steps, OnLine
    <3>2. {x \in held[c] : ~revs[x].opening} \subseteq Ids
      BY Typed
    <3>3. o \in Beneath(Ids, r)
      BY <3>1, <3>2, BeneathGrows DEF Ancestry
    <3>. QED
      BY <3>1, <3>3, Typed
  <2>. QED
    BY <1>4, <2>2, <2>3
<1>5. ASSUME r \notin line, revs[r].parents \cap line # {}
      PROVE  IsTombstone(r)
  BY <1>1, <1>5 DEF Standing
<1>. HIDE DEF line
<1>. QED
  BY <1>2, <1>3, <1>4, <1>5 DEF Spared

LEMMA StepSpares ==
  ASSUME IInv, [Next]_vars, NEW c \in Copies, Len(revs') \in held'[c] \ Ids, NEW r \in held[c] \ Superseded(c)
  PROVE  Spared(c, r)
<1>1. Len(revs) \in Ids
  BY Typed DEF IInv, Based, Ids
<1>2. revs' # revs
  BY <1>1
<1>3. PICK e \in Copies : Propose(e) \/ Record(e) \/ Decline(e)
  <2>1. ~UNCHANGED vars
    BY <1>2 DEF vars
  <2>2. \A e \in Copies, d \in Copies : ~Sync(e, d)
    BY <1>2 DEF Sync, Arrive, TakeNames, Receive, Fetch
  <2>3. PICK e \in Copies : Acts(e)
    BY <2>1, <2>2 DEF Next
  <2>4. \A by \in Processes : ~WriteName(e, by) /\ ~Stop(e, by)
    BY <1>2 DEF WriteName, Stop
  <2>5. ~Advance(e) /\ ~Submit(e) /\ ~Review(e) /\ ~Accept(e)
    BY <1>2 DEF Advance, Submit, Review, Accept, Decide
  <2>. QED
    BY <2>3, <2>4, <2>5 DEF Acts
<1>4. CASE Propose(e)
  <2>1. Revision({1}, {}, TRUE) \in Revisions /\ Revision({1}, {}, TRUE).supersedes = {}
    BY DEF Revision, Revisions
  <2>2. PICK revision, writes : File(e, revision, writes) /\ revision \in Revisions /\ revision.supersedes = {}
    BY <1>4, <2>1 DEF Propose
  <2>. QED
    BY <2>2, FileSpares DEF Spared
<1>5. CASE Record(e)
  <2>1. PICK p \in held[e] \ {1, 2}, q \in held[e] : File(e, Revision({p, q}, {}, FALSE), Stepped(e, {p, q}))
    BY <1>5 DEF Record
  <2>2. Revision({p, q}, {}, FALSE) \in Revisions /\ Revision({p, q}, {}, FALSE).supersedes = {}
    BY Typed DEF Revision, Revisions
  <2>3. PICK revision, writes : File(e, revision, writes) /\ revision \in Revisions /\ revision.supersedes = {}
    BY <2>1, <2>2
  <2>. QED
    BY <2>3, FileSpares DEF Spared
<1>6. CASE Decline(e)
  <2>1. held' = [held EXCEPT ![e] = @ \cup {Len(revs) + 1}]
    BY <1>6 DEF Decline, File
  <2>2. e = c
    BY <2>1, Typed
  <2>. QED
    BY <1>6, <2>2, DeclineSpares
<1>. QED
  BY <1>3, <1>4, <1>5, <1>6
-----------------------------------------------------------------------------
(* The invariant behind the rest: names are given only where the change    *)
(* set was opened, a command's name follows its revision, and what was     *)
(* accepted is what somebody who accepted it saw (change_set.rs).          *)
THEOREM Invariance == Spec => []IInv
<1>1. IInv /\ [Next]_vars => IInv'
  BY StepKeeps
<1>. QED
  BY <1>1, Initially, PTL DEF Spec

(* The types of the copies' state, whatever is filed and named.            *)
THEOREM TypeCorrect == Spec => []TypeOK
<1>1. IInv => TypeOK
  BY DEF IInv
<1>. QED
  BY <1>1, Invariance, PTL

(* A tip and what was submitted move forward along the line only, and a    *)
(* decision never moves, but for what was decided before another process   *)
(* wrote the name, and what is submitted beside it; and a decline          *)
(* supersedes revisions of its own change set and leaves no work standing  *)
(* on them (change_set.rs, store/receive.rs, store/moving.rs).             *)
THEOREM NamesAdvance == Spec => NamesMoveForward
<1>1. IInv /\ [Next]_vars => Forward
  BY StepKeeps
<1>2. IInv /\ [Next]_vars =>
        \A c \in Copies : Len(revs') \in held'[c] \ Ids =>
          \A r \in held[c] \ Superseded(c) :
             /\ r \in revs'[Len(revs')].supersedes => \E o \in Ids : revs[o].opening /\ o \in Beneath(Ids, r)
             /\ r \notin revs'[Len(revs')].supersedes /\ revs[r].parents \cap revs'[Len(revs')].supersedes # {}
                  => IsTombstone(r)
  BY StepSpares DEF Spared
<1>3. Spec => NamesOnlyMoveForward
  BY <1>1, Invariance, PTL DEF Spec, NamesOnlyMoveForward, Forward
<1>4. Spec => DeclineSparesOtherWork
  BY <1>2, Invariance, PTL DEF Spec, DeclineSparesOtherWork
<1>. QED
  BY <1>3, <1>4 DEF NamesMoveForward

(* An acceptance covers, in every copy that holds the whole change set,    *)
(* the line beneath the tip its reviewer saw (Store::accept, covered).     *)
THEOREM AcceptanceHolds == Spec => []AcceptedHoldsTheReviewed
<1>1. IInv => AcceptedHoldsTheReviewed
  <2>. SUFFICES ASSUME IInv, NEW c \in Copies, NEW d \in Copies,
                       names[c]["accepted"] # 0, names[c]["accepted"] = names[d]["accepted"], held[d] = Ids
                PROVE  \E t \in {review[e] : e \in Copies} :
                         /\ t \in OnLine(d) => Ancestry(d, t) \cap OnLine(d) \subseteq Covered(d)
                         /\ t \in revs[names[c]["accepted"]].parents
    BY DEF AcceptedHoldsTheReviewed
  <2>1. PICK e \in Copies : review[e] \in revs[names[c]["accepted"]].parents
    BY DEF IInv, AcceptedOnReview, OnReview
  <2>2. names[d]["accepted"] \in held[d]
    BY Typed DEF Facts
  <2>. DEFINE merge == names[d]["accepted"]
              beneath == UNION {Ancestry(d, p) : p \in revs[merge].parents \cap OnLine(d)}
  <2>3. Covered(d) = IF beneath = {} THEN OnLine(d) ELSE beneath
    BY <2>2 DEF Covered
  <2>4. review[e] \in OnLine(d) => Ancestry(d, review[e]) \cap OnLine(d) \subseteq Covered(d)
    BY <2>1, <2>3
  <2>. QED
    BY <2>1, <2>4
<1>. QED
  BY <1>1, Invariance, PTL
=============================================================================
