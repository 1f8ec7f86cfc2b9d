----------------------------- MODULE Rewriting -----------------------------
(***************************************************************************)
(* The acts that write revisions, and what each carries with it            *)
(* (src/record/mod.rs, src/record/carry.rs, src/record/squash.rs).         *)
(*                                                                         *)
(* A revision is rewritten by writing another that supersedes it, and what *)
(* stood on it is then restated on the successor: carried.  `amend',       *)
(* `abandon' and `squash' carry what they strand; `carry' repairs what     *)
(* transport, or an interruption, left stranded; `carry --onto' moves work.*)
(* An act is planned whole against the history it opened, and then writes  *)
(* one revision file after another, each a document others may copy away   *)
(* before the next.  Copies exchange files in any order.                   *)
(*                                                                         *)
(* Content is abstracted to whether a revision states anything at all,     *)
(* which is what a carry refuses over; a refusal that depends on the text  *)
(* is an act the behaviour does not take.                                  *)
(***************************************************************************)
EXTENDS History, Sequences

CONSTANTS
  Copy,         \* the copies of the store
  Marking,      \* the copies that keep a bookmark naming a change
  Start,        \* the recorded history every copy begins with
  MaxDocs,      \* bound: documents ever written, Start included
  MaxWork,      \* bound: revisions recorded beyond Start
  MaxParents,   \* bound: parents of a recorded revision, one or two
  MaxRewrites,  \* bound: rewrites a person authors (amend, abandon, squash, move)
  Digest        \* Digest[i]: where the bytes of the i-th document's digest sort

VARIABLES
  docs,         \* the documents written so far; a digest is an index
  held,         \* held[c]: the revisions on copy c's disk
  mark,         \* mark[c]: the change copy c's bookmark names, or NoChange
  act           \* act[c]: the act copy c is in the middle of

vars == <<docs, held, mark, act>>

NoChange == 0
NoMove == [target |-> 0, to |-> 0]
Nothing == [x \in {} |-> 0]
Idle == [kind |-> "idle", seen |-> {}, carrying |-> {}, todo |-> {},
         planned |-> Nothing, move |-> NoMove, first |-> 0, mark |-> NoChange]
-----------------------------------------------------------------------------
(* The plan of a carry, over documents D of which H are held: carry::plan.  *)

\* Slip: only tips are looked at.
Stranded_Tips(D, H) == {x \in Tips(D, H) : D[x].parents \cap Superseded(D, H) # {}}

\* A revision that stands on a superseded one and is not superseded itself.
Stranded(D, H) == {x \in Current(D, H) : D[x].parents \cap Superseded(D, H) # {}}

\* The heads of x's supersession chain: x itself when nothing supersedes it.
ChainHeads(D, H) ==
  LET heads[x \in DOMAIN D] ==
        LET next == SuccessorsOf(D, H, x)
        IN  IF next = {} THEN {x} ELSE UNION {heads[y] : y \in next}
  IN  heads

\* Slip: what stands on a carried revision is left behind.
Closure_Bare(D, H, S) == S

\* S, and every current revision that stands on a member, however far up.
Closure(D, H, S) ==
  LET current == Current(D, H)
      reached[x \in DOMAIN D] ==
        x \in S \/ (x \in current /\ \E p \in D[x].parents : reached[p])
  IN  {x \in DOMAIN D : reached[x]}

\* What a plan says of a parent: itself when it stays or is carried, the head
\* of its supersession chain when it was superseded.
Image(D, H, p) == CHOOSE h \in ChainHeads(D, H)[p] : TRUE

\* What x will stand on: a carried revision here means its successor-to-be.
Lands(D, H, move, x) ==
  IF x = move.target THEN {move.to} ELSE {Image(D, H, p) : p \in D[x].parents}

\* The members of C that have to be planned before x.
Depends(D, H, C, x) == {Image(D, H, p) : p \in D[x].parents} \cap C

\* The members the ordering loop places, parents first; the others wait for
\* each other.
Placed(D, H, C) ==
  LET on == [x \in C |-> Depends(D, H, C, x)]
  IN  C \ UNION {S \in SUBSET C : \A x \in S : on[x] \cap S # {}}

\* The refusals that do not depend on the text: a parent with two successors
\* and, of a member the loop has placed, parents that became one, or nothing
\* to state on one parent.
Accepts(D, H, C, move) ==
  /\ \A x \in C : \A p \in D[x].parents : Cardinality(ChainHeads(D, H)[p]) = 1
  /\ \A x \in Placed(D, H, C) :
       /\ D[x].bare => Cardinality(D[x].parents) > 1
       /\ Cardinality(Lands(D, H, move, x)) = Cardinality(D[x].parents)

\* An act whose plan is whole and of which nothing is carried yet.
Planned(D, kind, H, C, move, first, change) ==
  [kind |-> kind, seen |-> H, carrying |-> C, todo |-> Placed(D, H, C),
   planned |-> Nothing, move |-> move, first |-> first, mark |-> change]

\* Slip: a carried revision is stamped by the clock.
Carried_Clock(D, a, x) ==
  LET new(p)  == IF p \in a.carrying THEN a.planned[p] ELSE p
  IN  [D[x] EXCEPT !.parents = {new(p) : p \in Lands(D, a.seen, a.move, x)},
                   !.supersedes = {x}, !.stamp = Len(D) + 1]

\* The revision written for x: everything that describes the work is copied,
\* it supersedes x alone, and it is stamped like the rewrite that caused it:
\* of the parents that moved, the one whose digest sorts last.  A moved
\* revision is stamped by the clock, which no other document can repeat.
Carried(D, a, x) ==
  LET lands   == Lands(D, a.seen, a.move, x)
      new(p)  == IF p \in a.carrying THEN a.planned[p] ELSE p
      moved   == {new(Image(D, a.seen, p)) :
                    p \in {q \in D[x].parents : q \in a.carrying \/ Image(D, a.seen, q) # q}}
      cause   == CHOOSE n \in moved : \A m \in moved : Digest[m] <= Digest[n]
  IN  [D[x] EXCEPT !.parents = {new(p) : p \in lands}, !.supersedes = {x},
                   !.stamp = IF x = a.move.target THEN Len(D) + 1 ELSE D[cause].stamp]

\* The digest of a document: its index, or the next one if it is new.
DigestOf(D, d) ==
  IF \E i \in DOMAIN D : D[i] = d THEN CHOOSE i \in DOMAIN D : D[i] = d ELSE Len(D) + 1

-----------------------------------------------------------------------------
Init ==
  /\ docs = Start
  /\ held = [c \in Copy |-> DOMAIN Start]
  /\ mark = [c \in Copy |-> NoChange]
  /\ act = [c \in Copy |-> Idle]

\* A person puts the bookmark on a change.
Bookmark(c, x) ==
  /\ c \in Marking /\ act[c] = Idle /\ mark[c] = NoChange
  /\ x \in held[c]
  /\ mark' = [mark EXCEPT ![c] = docs[x].change]
  /\ UNCHANGED <<docs, held, act>>

\* Slip: only the oldest of these is looked at.
Advance_First(c, these, change) ==
  IF mark[c] \in {docs[x].change : x \in {y \in these : \A z \in these : y <= z}}
  THEN change ELSE NoChange

\* Where an act moves the bookmark, if it names a change of one of these.
Advance(c, these, change) ==
  IF mark[c] \in {docs[x].change : x \in these} THEN change ELSE NoChange

\* New work on one revision, or on two that it merges; on none in an empty
\* store.  Only a merge may state nothing.  If no bookmark follows, that is all.
Record(c, P) ==
  LET new == Len(docs) + 1
  IN  /\ act[c] = Idle /\ new <= MaxDocs
      /\ Cardinality({x \in DOMAIN docs : docs[x].stamp = 0}) < Len(Start) + MaxWork
      /\ P = {} <=> held[c] = {}
      /\ \E bare \in {FALSE, Cardinality(P) = 2} :
           docs' = Append(docs, [parents |-> P, supersedes |-> {}, change |-> new,
                                 stamp |-> 0, bare |-> bare])
      /\ held' = [held EXCEPT ![c] = @ \cup {new}]
      /\ act' = IF Advance(c, P, new) = NoChange THEN act
                ELSE [act EXCEPT ![c] = Planned(docs', "record", held'[c], {}, NoMove, new,
                                                Advance(c, P, new))]
      /\ UNCHANGED mark

\* Slip: the act carries nothing.
StrandedBy_Nothing(D, H, S) == {}

\* What an act that supersedes S strands by itself, and all that stands on it.
StrandedBy(D, H, S) == Closure(D, H, {x \in Current(D, H) : D[x].parents \cap S # {}})

\* What the authored rewrites share.  The document is held in memory alone
\* while the carry of what it strands is planned; if that is not refused it is
\* written, and the carrying begins.
Rewrite(c, document, change) ==
  LET new == Len(docs) + 1
      D == Append(docs, document)
      H == held[c] \cup {new}
      carrying == StrandedBy(D, H, document.supersedes)
  IN  /\ new + Cardinality(carrying) <= MaxDocs
      /\ Accepts(D, H, carrying, NoMove)
      /\ docs' = D
      /\ held' = [held EXCEPT ![c] = H]
      /\ act' = [act EXCEPT ![c] =
                   Planned(D, "rewrite", H, carrying, NoMove, new, change)]
      /\ UNCHANGED mark

\* Slip: a revision somebody already rewrote is rewritten again.
NotRewritten_Held(c, x) == x \in held[c]

\* Rewriting needs a revision nothing held here supersedes.
NotRewritten(c, x) == x \in held[c] /\ SuccessorsOf(docs, held[c], x) = {}

\* A person may author a rewrite here, within the bound, which counts moves
\* under way.
MayAuthor(c) ==
  /\ act[c] = Idle
  /\ Cardinality({x \in DOMAIN docs : docs[x].stamp = x})
       + Cardinality({d \in Copy : act[d].move.target \in act[d].todo}) < MaxRewrites

\* `amend': the same change on the same parents.  A revision something stands
\* on is only reworded, so it states what it stated; a childless one states
\* what the folder says, which may be nothing.
Amend(c, x) ==
  /\ MayAuthor(c) /\ NotRewritten(c, x)
  /\ \E bare \in IF StandingOn(docs, held[c], x) = {} THEN BOOLEAN ELSE {docs[x].bare} :
       Rewrite(c, [docs[x] EXCEPT !.supersedes = {x}, !.stamp = Len(docs) + 1,
                                  !.bare = bare], NoChange)

\* The run an abandonment takes: x, and what current work stands on it.
Run(c, x) == Closure(docs, held[c], {x})

\* `abandon': a revision that states nothing where the run began, superseding
\* the run.  With --only the run is x alone and what stood on it is carried;
\* without, each member has one current child, and that child no other parent.
Abandon(c, x, only) ==
  LET run == IF only THEN {x} ELSE Run(c, x)
  IN  /\ MayAuthor(c) /\ NotRewritten(c, x)
      /\ IF only THEN Cardinality(docs[x].parents) <= 1
         ELSE \A y \in run :
                /\ Cardinality(StandingOn(docs, held[c], y) \cap run) <= 1
                /\ y # x => Cardinality(docs[y].parents) = 1
      /\ Rewrite(c, [parents |-> docs[x].parents, supersedes |-> run,
                     change |-> Len(docs) + 1, stamp |-> Len(docs) + 1, bare |-> TRUE],
                 Advance(c, run, Len(docs) + 1))

\* What x stands on, itself included, as far as it is held.
Behind(D, H, x) ==
  LET reached[y \in DOMAIN D] == y = x \/ \E z \in StandingOn(D, H, y) : reached[z]
  IN  {y \in H : reached[y]}

\* `squash': one revision on `base' for everything behind `tip' and not behind
\* `base', of which nothing is rewritten and only `tip' is stood on from outside.
Squash(c, base, tip) ==
  LET H == held[c]
      run == Behind(docs, H, tip) \ Behind(docs, H, base)
  IN  /\ MayAuthor(c)
      /\ {base, tip} \subseteq H /\ base \in Behind(docs, H, tip) \ {tip}
      /\ Cardinality(run) >= 2
      /\ \A x \in run : NotRewritten(c, x)
      /\ \A x \in run \ {tip} : StandingOn(docs, H, x) \cap Current(docs, H) \subseteq run
      /\ \E bare \in BOOLEAN :
           Rewrite(c, [parents |-> {base}, supersedes |-> run, change |-> Len(docs) + 1,
                       stamp |-> Len(docs) + 1, bare |-> bare],
                   Advance(c, run, Len(docs) + 1))

\* What the three forms of `carry' share: a plan of what is held, and no
\* rewrite of its own.
Carry(c, kind, carrying, move) ==
  /\ act[c] = Idle /\ carrying # {}
  /\ Len(docs) + Cardinality(carrying) <= MaxDocs
  /\ Accepts(docs, held[c], carrying, move)
  /\ act' = [act EXCEPT ![c] =
               Planned(docs, kind, held[c], carrying, move, 0, NoChange)]
  /\ UNCHANGED <<docs, held, mark>>

\* `carry': everything stranded, and what stands on it.
Repair(c) ==
  Carry(c, "repair", Closure(docs, held[c], Stranded(docs, held[c])), NoMove)

\* `carry <target>': one stranded revision.
RepairOne(c, x) ==
  /\ x \in Stranded(docs, held[c])
  /\ Carry(c, "one", Closure(docs, held[c], {x}), NoMove)

\* `carry <target> --onto <destination>': never a merge, a root, or a rewritten
\* revision, and never onto something that is moving with it.
Move(c, x, to) ==
  LET carrying == Closure(docs, held[c], {x})
  IN  /\ MayAuthor(c) /\ NotRewritten(c, x) /\ to \in held[c]
      /\ Cardinality(docs[x].parents) = 1 /\ to \notin docs[x].parents
      /\ to \notin carrying
      /\ Carry(c, "move", carrying, [target |-> x, to |-> to])

\* Slip: the revision is filed in memory and never written.
WriteCarried_Memory(c, x) ==
  LET a == act[c]
      d == Carried(docs, a, x)
      id == DigestOf(docs, d)
  IN  /\ x \in a.todo
      /\ Depends(docs, a.seen, a.carrying, x) \subseteq DOMAIN a.planned
      /\ id <= MaxDocs
      /\ docs' = IF id > Len(docs) THEN Append(docs, d) ELSE docs
      /\ act' = [act EXCEPT ![c].todo = @ \ {x},
                            ![c].planned = [y \in DOMAIN @ \cup {x} |->
                                              IF y = x THEN id ELSE @[y]]]
      /\ UNCHANGED <<held, mark>>

\* One carried revision is written, once the parents it waits for are.
WriteCarried(c, x) ==
  LET a == act[c]
      d == Carried(docs, a, x)
      id == DigestOf(docs, d)
  IN  /\ x \in a.todo
      /\ Depends(docs, a.seen, a.carrying, x) \subseteq DOMAIN a.planned
      /\ id <= MaxDocs
      /\ docs' = IF id > Len(docs) THEN Append(docs, d) ELSE docs
      /\ held' = [held EXCEPT ![c] = @ \cup {id}]
      /\ act' = [act EXCEPT ![c].todo = @ \ {x},
                            ![c].planned = [y \in DOMAIN @ \cup {x} |->
                                              IF y = x THEN id ELSE @[y]]]
      /\ UNCHANGED mark

\* Everything is written, and last of all the bookmark moves.
Finish(c) ==
  /\ act[c].kind # "idle" /\ act[c].todo = {}
  /\ mark' = [mark EXCEPT ![c] = IF act[c].mark = NoChange THEN @ ELSE act[c].mark]
  /\ act' = [act EXCEPT ![c] = Idle]
  /\ UNCHANGED <<docs, held>>

\* The act stops between two files: what it wrote stays.
Interrupt(c) ==
  /\ act[c].kind # "idle"
  /\ act' = [act EXCEPT ![c] = Idle]
  /\ UNCHANGED <<docs, held, mark>>

\* One file is copied, by any transport, whatever either copy is doing.
Deliver(from, to, x) ==
  /\ x \in held[from] \ held[to]
  /\ held' = [held EXCEPT ![to] = @ \cup {x}]
  /\ UNCHANGED <<docs, mark, act>>

Parents(c) ==
  {P \in {{}} \cup {{x, y} : x, y \in held[c]} : Cardinality(P) <= MaxParents}

Next ==
  \/ \E c \in Copy :
       \/ \E P \in Parents(c) : Record(c, P)
       \/ Repair(c) \/ Finish(c) \/ Interrupt(c)
       \/ \E x \in held[c] :
            \/ Bookmark(c, x) \/ Amend(c, x) \/ RepairOne(c, x)
            \/ \E only \in BOOLEAN : Abandon(c, x, only)
            \/ \E y \in held[c] : Squash(c, x, y) \/ Move(c, x, y)
       \/ \E x \in act[c].todo : WriteCarried(c, x)
  \/ \E from, to \in Copy : \E x \in held[from] : Deliver(from, to, x)

Spec == Init /\ [][Next]_vars
-----------------------------------------------------------------------------
Document == [parents : SUBSET (1..MaxDocs), supersedes : SUBSET (1..MaxDocs),
             change : 1..MaxDocs, stamp : 0..MaxDocs, bare : BOOLEAN]

\* Documents name older documents, a rewrite is stamped and new work is not,
\* and what an act has planned it has written.
TypeOK ==
  /\ docs \in Seq(Document) /\ Len(docs) <= MaxDocs /\ Merkle(docs)
  /\ \A x \in DOMAIN docs : docs[x].supersedes = {} <=> docs[x].stamp = 0
  /\ held \in [Copy -> SUBSET DOMAIN docs]
  /\ mark \in [Copy -> 0..MaxDocs]
  /\ \A c \in Copy : /\ act[c].seen \cup {act[c].planned[x] : x \in DOMAIN act[c].planned}
                          \subseteq held[c]
                     /\ act[c].todo \subseteq act[c].carrying

\* What an act has written, once it has nothing left to write.
Whole(c) == act[c].kind # "idle" /\ act[c].todo = {}
After(c) == act[c].seen \cup {act[c].planned[x] : x \in DOMAIN act[c].planned}
Before(c) == act[c].seen \ {act[c].first}

\* Every current revision of the changes a copy holds is one it was handed or
\* one it made in place of another: a copy that exchanges nothing, whatever it
\* runs and wherever it is stopped, never makes a change divergent.
ActsDoNotDiverge ==
  \A c \in Copy : DivergentChanges(docs, held[c]) = {}

\* Decision 0059: amend and abandon carry every descendant across.  A finished
\* act leaves stranded only what was stranded when it began, or its own rewrite
\* of such a revision.
ActsCarryWhatTheyStrand ==
  \A c \in Copy : Whole(c) /\ act[c].kind = "rewrite" =>
    \A x \in Stranded(docs, After(c)) :
      \/ x \in Stranded(docs, Before(c))
      \/ x = act[c].first /\ docs[x].supersedes \cap Stranded(docs, Before(c)) # {}

\* Decision 0059: "the repair run twice finds nothing the second time".  A
\* repair that was not refused and could be ordered leaves nothing stranded.
RepairLeavesNothing ==
  \A c \in Copy :
    Whole(c) /\ act[c].kind = "repair" /\ act[c].carrying = DOMAIN act[c].planned
      => Stranded(docs, After(c)) = {}

\* What x will stand on if act a goes on: a document, or the one for y.
Bound(D, a, x) ==
  {IF p \notin a.carrying THEN <<"stays", p>>
   ELSE IF p \in DOMAIN a.planned THEN <<"stays", a.planned[p]>> ELSE <<"carried", p>> :
     p \in Lands(D, a.seen, a.move, x)}

\* Decision 0059: "the carried prefix is a finished rewrite, the rest is exactly
\* what `carry' repairs, and running it again resumes".  When an act that had
\* carried, or had written its rewrite, is stopped, nothing else is stranded
\* and the sweep can be ordered (PlanIsOrdered below says when it cannot), the
\* sweep carries all it left and puts each on the same parents.
CarryIsResumed ==
  \A c \in Copy :
    LET a == act[c]
        resumed == Planned(docs, "repair", held[c],
                           Closure(docs, held[c], Stranded(docs, held[c])), NoMove, 0, 0)
    IN  /\ a.todo # {} /\ a.kind \in {"rewrite", "repair", "move"}
        /\ a.kind = "move" => a.planned # Nothing
        /\ held[c] = After(c) /\ Stranded(docs, held[c]) \subseteq a.todo
        /\ act'[c] = Idle /\ resumed.todo = resumed.carrying
        => /\ a.todo \subseteq resumed.carrying
           /\ \A x \in a.todo : Bound(docs, resumed, x) = Bound(docs, a, x)
CarryResumes == [][CarryIsResumed]_vars

\* A bookmark on a change moves with the work: a finished act leaves it on an
\* abandoned change only if it was on one when the act began.
MarkKeepsUp ==
  \A c \in Copy : Whole(c) /\ act'[c] = Idle /\ mark'[c] # NoChange
    /\ (act[c].mark = mark'[c] \/ act[c].mark = NoChange)
    => \/ ChangeState(docs, held[c], mark'[c]) # "abandoned"
       \/ ChangeState(docs, Before(c), mark'[c]) = "abandoned"
MarksKeepUp == [][MarkKeepsUp]_vars

\* Decision 0059: every fact of a carry derives from its cause, so however the
\* files of one rewrite of a linear history travel, and wherever each copy
\* repairs or is stopped, no change has two current revisions, anywhere.
RepairsConverge == DivergentChanges(docs, UNION {held[c] : c \in Copy}) = {}

\* The assertion in the ordering loop, "a cycle in a Merkle DAG": every member
\* of a plan can be placed.
PlanIsOrdered ==
  \A c \in Copy : act[c].carrying = act[c].todo \cup DOMAIN act[c].planned
=============================================================================
