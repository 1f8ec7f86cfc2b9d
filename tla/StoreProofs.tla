---------------------------- MODULE StoreProofs ----------------------------
(***************************************************************************)
(* Theorems about what one store keeps: pruning it (Prune), the catalogue  *)
(* of its contents (Cataloguing), which implements a set of contents       *)
(* (Contents), and opening it while others write (Opening); for any number *)
(* of revisions, contents, places, files, bookmarks and commands.          *)
(*                                                                         *)
(* Pruning: letting go of one removable revision takes away only lines     *)
(* that say nothing about the revisions that stay, so the working set      *)
(* keeps its current revisions (ShrinkKeepsCurrent) and stays closed under *)
(* the parents the store has.  The removals then take only what the        *)
(* finished plan let go of, in whatever order, and contents only after the *)
(* last revision, so each file still there has what it needs.              *)
(*                                                                         *)
(* The catalogue and opening are argued where their invariants are.        *)
(***************************************************************************)
EXTENDS MCStore, TLAPS

-----------------------------------------------------------------------------
(* Pruning.                                                                *)

\* What the plan knows about contents: nothing it drops is named by a kept
\* revision, nor is a stand-in for something named.
DropsNothingNamed ==
  \A x \in kept : \A c \in doc[x].names :
     /\ c \notin dropped
     /\ \A f \in dropped \cap StandIn : Forgets[f] # c

\* The plan is complete: nothing kept is removable any more, and each content
\* that is to stay is referenced.
PlanIsComplete ==
  /\ \A x \in kept : ~Removable(kept, x)
  /\ bodies \ dropped \subseteq Referenced(kept, bodies)

\* The inductive invariant.
IInv ==
  /\ TypeOK
  /\ phase # "idle" =>
       /\ Current(doc, kept) = Current(doc, documents)
       /\ ParentsOf(doc, kept) \cap documents \subseteq kept
       /\ kept \subseteq files
  /\ phase \in {"idle", "planning"} => files = documents
  /\ phase \in {"revisions", "content", "pruned"} =>
       DropsNothingNamed /\ PlanIsComplete
  /\ phase = "pruned" => files = kept /\ bodies \cap dropped = {}
  /\ NamedContentAnswered

-----------------------------------------------------------------------------
\* Letting go of a removable revision changes no answer about current work.
\* The evidence guard is what the second half rests on: a revision that
\* supersedes a kept one may not go.
LEMMA ShrinkKeepsCurrent ==
  ASSUME NEW K, NEW x, Removable(K, x)
  PROVE  Current(doc, K \ {x}) = Current(doc, K)
<1>1. x \in K /\ x \in Superseded(doc, K) /\ doc[x].supersedes \cap K = {}
  BY DEF Removable
<1>2. ASSUME NEW y \in Current(doc, K \ {x})
      PROVE  y \in Current(doc, K)
  <2>1. y \in K /\ y \notin doc[x].supersedes
    BY <1>1, <1>2 DEF Current
  <2>2. \A z \in K \ {x} : y \notin doc[z].supersedes
    BY <1>2 DEF Current, Superseded
  <2>. QED
    BY <2>1, <2>2 DEF Current, Superseded
<1>3. ASSUME NEW y \in Current(doc, K)
      PROVE  y \in Current(doc, K \ {x})
  <2>1. y \in K \ {x}
    BY <1>1, <1>3 DEF Current
  <2>2. y \notin Superseded(doc, K \ {x})
    BY <1>3 DEF Current, Superseded
  <2>. QED
    BY <2>1, <2>2 DEF Current
<1>. QED
  BY <1>2, <1>3

\* A working set that is closed under the held parents stays closed.
LEMMA ShrinkKeepsClosed ==
  ASSUME NEW K, NEW D, NEW x, Removable(K, x),
         ParentsOf(doc, K) \cap D \subseteq K
  PROVE  ParentsOf(doc, K \ {x}) \cap D \subseteq K \ {x}
BY DEF Removable, ParentsOf

\* The same current revisions are the same tips.
LEMMA TipsFromCurrent ==
  ASSUME NEW K, NEW D, Current(doc, K) = Current(doc, D)
  PROVE  Tips(doc, K) = Tips(doc, D)
BY DEF Tips

-----------------------------------------------------------------------------
\* A store just opened, with no prune begun.
LEMMA InitIInv == Init => IInv
<1>. SUFFICES ASSUME Init PROVE IInv
  OBVIOUS
<1>1. PICK p \in Lines, s \in Lines, w \in [RevisionId -> Writer],
           n \in [RevisionId -> SUBSET (Content \ StandIn)] :
        doc = [x \in RevisionId |-> [parents |-> p[x], supersedes |-> s[x],
                                    writer |-> w[x], names |-> n[x]]]
  BY DEF Init
<1>2. \A x \in RevisionId : /\ p[x] \in SUBSET RevisionId
                            /\ s[x] \in SUBSET RevisionId
                            /\ \A y \in p[x] \cup s[x] : y < x
  BY DEF Lines
<1>3. doc \in [RevisionId -> Document]
  BY <1>1, <1>2 DEF Document
<1>4. Merkle(doc)
  BY <1>1, <1>2 DEF Merkle
<1>5. NamedContentAnswered
  BY DEF Init, NamedContentAnswered
<1>. QED
  BY <1>3, <1>4, <1>5 DEF Init, IInv, TypeOK

\* Each step of a prune, stops included, keeps the invariant.
LEMMA NextIInv == IInv /\ [Next]_vars => IInv'
<1>. SUFFICES ASSUME IInv, [Next]_vars PROVE IInv'
  OBVIOUS
<1>. USE DEF IInv
<1>1. CASE Begin
  BY <1>1 DEF Begin, TypeOK, Merkle, Current, Superseded, ParentsOf,
              NamedContentAnswered
<1>2. ASSUME NEW x \in RevisionId, Shrink(x) PROVE IInv'
  <2>1. TypeOK'
    BY <1>2 DEF Shrink, TypeOK, Merkle
  <2>2. (Current(doc, kept) = Current(doc, documents))'
    BY <1>2, ShrinkKeepsCurrent DEF Shrink
  <2>3. (ParentsOf(doc, kept) \cap documents \subseteq kept)'
    BY <1>2, ShrinkKeepsClosed DEF Shrink
  <2>4. (kept \subseteq files)' /\ (files = documents)' /\ phase' = "planning"
    BY <1>2 DEF Shrink
  <2>5. NamedContentAnswered'
    BY <1>2 DEF Shrink, NamedContentAnswered
  <2>. QED
    BY <2>1, <2>2, <2>3, <2>4, <2>5
<1>3. CASE Planned
  <2>1. TypeOK'
    BY <1>3 DEF Planned, TypeOK, Merkle
  <2>2. DropsNothingNamed'
    BY <1>3 DEF Planned, DropsNothingNamed, Referenced
  <2>3. NamedContentAnswered'
    BY <1>3 DEF Planned, NamedContentAnswered
  <2>4. PlanIsComplete'
    BY <1>3 DEF Planned, PlanIsComplete, Removable, Referenced, Superseded, ParentsOf
  <2>. QED
    BY <1>3, <2>1, <2>2, <2>3, <2>4 DEF Planned
<1>4. ASSUME NEW x \in RevisionId, RemoveRevision(x) PROVE IInv'
  <2>1. TypeOK'
    BY <1>4 DEF RemoveRevision, TypeOK, Merkle
  <2>2. DropsNothingNamed' /\ NamedContentAnswered'
    BY <1>4 DEF RemoveRevision, DropsNothingNamed, NamedContentAnswered
  <2>3. PlanIsComplete'
    BY <1>4 DEF RemoveRevision, PlanIsComplete, Removable, Referenced, Superseded, ParentsOf
  <2>. QED
    BY <1>4, <2>1, <2>2, <2>3 DEF RemoveRevision
<1>5. ASSUME NEW c \in Content, RemoveContent(c) PROVE IInv'
  <2>1. TypeOK'
    BY <1>5 DEF RemoveContent, TypeOK, Merkle
  <2>2. files \subseteq kept
    BY <1>5 DEF RemoveContent, TypeOK
  <2>3. DropsNothingNamed'
    BY <1>5 DEF RemoveContent, DropsNothingNamed
  <2>4. NamedContentAnswered'
    <3>. SUFFICES ASSUME NEW x \in files, NEW d \in doc[x].names
                  PROVE  Answers(bodies \ {c}, d)
      BY <1>5 DEF RemoveContent, NamedContentAnswered
    <3>1. Answers(bodies, d)
      BY DEF NamedContentAnswered
    <3>2. c \in dropped /\ DropsNothingNamed
      BY <1>5 DEF RemoveContent
    <3>. QED
      BY <3>1, <3>2, <2>2 DEF Answers, DropsNothingNamed
  <2>5. PlanIsComplete'
    <3>1. \A x \in kept : ~Removable(kept, x)
      BY <1>5 DEF RemoveContent, PlanIsComplete
    <3>2. bodies' \ dropped \subseteq Referenced(kept, bodies')
      BY <1>5 DEF RemoveContent, PlanIsComplete, Referenced
    <3>. QED
      BY <1>5, <3>1, <3>2
        DEF RemoveContent, PlanIsComplete, Removable, Referenced, Superseded, ParentsOf
  <2>. QED
    BY <1>5, <2>1, <2>3, <2>4, <2>5 DEF RemoveContent
<1>6. CASE Finish
  <2>1. files = kept
    BY <1>6 DEF Finish, TypeOK
  <2>2. TypeOK'
    BY <1>6, <2>1 DEF Finish, TypeOK, Merkle
  <2>3. DropsNothingNamed' /\ NamedContentAnswered'
    BY <1>6 DEF Finish, DropsNothingNamed, NamedContentAnswered
  <2>4. PlanIsComplete'
    BY <1>6 DEF Finish, PlanIsComplete, Removable, Referenced, Superseded, ParentsOf
  <2>. QED
    BY <1>6, <2>1, <2>2, <2>3, <2>4 DEF Finish
<1>7. CASE Interrupted
  BY <1>7 DEF Interrupted, TypeOK, Merkle, NamedContentAnswered
<1>8. CASE UNCHANGED vars
  <2>1. PlanIsComplete => PlanIsComplete'
    BY <1>8 DEF vars, PlanIsComplete, Removable, Referenced, Superseded, ParentsOf
  <2>. QED
    BY <1>8, <2>1 DEF vars, TypeOK, Merkle, DropsNothingNamed, NamedContentAnswered
<1>. QED
  BY <1>1, <1>2, <1>3, <1>4, <1>5, <1>6, <1>7, <1>8 DEF Next

\* Every behaviour of a prune, interrupted anywhere, satisfies the invariant.
THEOREM Invariance == Spec => []IInv
<1>. QED
  BY InitIInv, NextIInv, PTL DEF Spec

\* The state of a prune keeps its types (src/store/prune.rs).
THEOREM TypeCorrect == Spec => []TypeOK
<1>1. IInv => TypeOK
  BY DEF IInv
<1>. QED
  BY <1>1, Invariance, PTL

\* Whatever history a store holds, the revisions a prune keeps have exactly
\* the current revisions and the tips the whole store had
\* (Store::deletable_revisions).
THEOREM PlanTips == Spec => []PlanKeepsTips
<1>1. IInv => PlanKeepsTips
  BY TipsFromCurrent DEF IInv, PlanKeepsTips
<1>. QED
  BY <1>1, Invariance, PTL

\* However far a prune got, no current revision and no held ancestor of a kept
\* revision has been removed (Store::prune).
THEOREM LosesNoWork == Spec => []PruneLosesNoWork
<1>1. IInv => PruneLosesNoWork
  BY DEF IInv, PruneLosesNoWork, Current
<1>. QED
  BY <1>1, Invariance, PTL

\* However far a prune got, a revision still on the disk has each content it
\* names or a forgetting document for it (Store::prunable, Store::prune).
THEOREM ContentAnswered == Spec => []NamedContentAnswered
<1>1. IInv => NamedContentAnswered
  BY DEF IInv
<1>. QED
  BY <1>1, Invariance, PTL

\* A prune that ran to its end leaves nothing for a second one: the fixpoint
\* and the reference count are both complete (Store::deletable_revisions).
THEOREM SecondPrune == Spec => []SecondPruneIsEmpty
<1>1. IInv => SecondPruneIsEmpty
  BY DEF IInv, SecondPruneIsEmpty, PlanIsComplete
<1>. QED
  BY <1>1, Invariance, PTL

-----------------------------------------------------------------------------
(* The catalogue.  What a command says is judged by what its catalogue says *)
(* of files that nobody else has moved since it took it: of those it is     *)
(* never wrong, and of a document at the top it is never silent.            *)

Ids == Documents \cup Payloads
Places == Finds!Range(Top) \cup Finds!Range(Arranged) \cup UNION {Spots[id] : id \in Ids}
Directories == UNION {[D -> Ids] : D \in SUBSET Places}
Catalogues == UNION {[D -> Places] : D \in SUBSET Ids}
Renames == SUBSET (Places \X Places)
Stages == {"idle", "take", "walk", "note", "look", "scan", "sift", "found", "plan", "keep",
           "let go", "done"}
Asked == {"nothing", "read", "file", "holds", "drop", "arrange"}
Said == {"nothing", "absent", "whole", "redacted", "refused", "held", "elsewhere", "filed",
         "dropped", "failed"}
CommandRecord ==
  [does : Asked, id : Ids \cup {"none"}, stage : Stages, at : Catalogues, walked : BOOLEAN,
   moves : Renames, said : Said, looks : SUBSET Places, seen : SUBSET Ids, astray : BOOLEAN,
   moved : SUBSET Ids]

\* A directory names what is at the top by its digest and keeps payloads where
\* stand-ins are looked for beside them; a catalogue says no other thing, nor does
\* a move bring it about.
Orderly(f) ==
  \A p \in DOMAIN f : /\ p \in DOMAIN Beside <=> f[p] \in Payloads
                      /\ \A s \in Documents : p = Top[s] => f[p] = s
NamesPlaces(at) ==
  \A id \in DOMAIN at : /\ at[id] \in DOMAIN Beside <=> id \in Payloads
                        /\ \A s \in Documents : at[id] = Top[s] => id = s
Harmless(m) ==
  /\ m[1] \in DOMAIN Beside <=> m[2] \in DOMAIN Beside
  /\ \A s \in Documents : m[2] # Top[s]

\* A catalogue every line of which is so.
Right(at, f) == \A id \in DOMAIN at : at[id] \in DOMAIN f /\ f[at[id]] = id
AtTheTop(s, f) == Top[s] \in DOMAIN f /\ f[Top[s]] = s

\* Which commands reach which stage.
Proceeds(r) ==
  /\ r.stage = "take" => r.does \in {"read", "file"}
  /\ r.stage = "walk" => r.does \in {"read", "holds", "drop", "arrange"}
  /\ r.stage \in {"note", "look"} => r.does # "nothing"
  /\ r.stage \in {"scan", "sift", "found"} => r.does = "read"
  /\ r.stage = "sift" /\ r.id \in Payloads => r.id \notin r.seen
  /\ r.stage = "found" => r.id \in Payloads
  /\ r.stage = "plan" => r.does = "arrange"
  /\ r.stage = "keep" => r.does = "file"
  /\ r.stage = "let go" => r.does \in {"drop", "arrange"}
  /\ r.does \in {"read", "file", "holds", "drop"} => r.id \in Ids
  /\ NamesPlaces(r.at)
  /\ \A m \in r.moves : Harmless(m)

\* What a command under way knows of files nobody else has moved: a search has read
\* them or has them still to read.
Knows(r, f) ==
  /\ r.does = "read" /\ r.stage \in {"note", "look", "scan", "sift", "found"} =>
       \A s \in Documents : s \notin r.moved /\ AtTheTop(s, f) => s \in DOMAIN r.at
  /\ r.stage = "keep" /\ r.id \notin r.moved => r.id \in Finds!Range(f)
  /\ r.stage \in {"note", "look", "keep", "let go"} /\ r.moved = {} /\ ~r.astray =>
       Right(r.at, f)
  /\ r.does = "holds" /\ r.stage \in {"note", "look"} /\ r.moved = {} /\ ~r.astray =>
       Finds!Range(f) \subseteq DOMAIN r.at
  /\ r.stage = "sift" =>
       /\ r.seen \subseteq Finds!Range(f) \cup r.moved
       /\ \A p \in DOMAIN f : (p \in DOMAIN Beside <=> r.id \in Payloads) =>
            p \in r.looks \/ f[p] \in r.seen \cup r.moved
  /\ r.stage = "found" =>
       \A p \in r.looks : /\ p \in DOMAIN Beside
                          /\ r.id \in r.moved \/ (p \in DOMAIN f /\ f[p] = r.id)

\* What one that has ended said.
Forgetters(id) == {s \in DOMAIN Stands : Stands[s] = id}
Uncovered(p, id, r, f) ==
  \A s \in Forgetters(id) : s \notin r.moved => Beside[p] \notin DOMAIN f \/ f[Beside[p]] # s
Answered(r, f) ==
  r.stage = "done" =>
    /\ r.does = "read" /\ r.said = "absent" /\ r.id \notin r.moved => r.id \notin Finds!Range(f)
    /\ r.does = "file" /\ r.said \in {"filed", "held"} /\ r.id \notin r.moved => r.id \in Finds!Range(f)
    /\ r.does = "read" /\ r.said = "whole" =>
         \A s \in Forgetters(r.id) : s \notin r.moved => ~AtTheTop(s, f)
    /\ r.id \in Payloads /\ r.said \in {"whole", "held"} /\ r.does # "file" /\ r.id \notin r.moved =>
         \E p \in DOMAIN f : f[p] = r.id /\ Uncovered(p, r.id, r, f)
    /\ r.does = "holds" /\ r.said = "elsewhere" /\ r.moved = {} /\ ~r.astray =>
         r.id \notin Finds!Range(f) \/ \E s \in Forgetters(r.id) : s \in Finds!Range(f)

CommandInv(r, f) == Proceeds(r) /\ Knows(r, f) /\ Answered(r, f)

CatalogueInv ==
  /\ filed \in Directories /\ Orderly(filed)
  /\ cached \in Catalogues /\ NamesPlaces(cached)
  /\ cmd \in [Commands -> CommandRecord]
  /\ \A c \in Commands : CommandInv(cmd[c], filed)
  /\ strayed \in BOOLEAN
  /\ ~strayed => Right(cached, filed)
  /\ scene \in Scenes
-----------------------------------------------------------------------------
\* Only x came or went between two states of the directory.
OnlyTouched(x, f, g) ==
  /\ \A p \in DOMAIN f : f[p] # x => p \in DOMAIN g /\ g[p] = f[p]
  /\ \A p \in DOMAIN g : g[p] # x => p \in DOMAIN f /\ f[p] = g[p]

\* Whoever is told that x was moved has lost nothing else.
LEMMA Bystander ==
  ASSUME NEW f, NEW g, NEW x \in Ids, OnlyTouched(x, f, g),
         NEW r \in CommandRecord, CommandInv(r, f),
         NEW q \in CommandRecord, q = [r EXCEPT !.moved = @ \cup {x}]
  PROVE  CommandInv(q, g)
<1>1. /\ q.does = r.does /\ q.id = r.id /\ q.stage = r.stage /\ q.at = r.at
      /\ q.moves = r.moves /\ q.said = r.said /\ q.astray = r.astray
      /\ q.looks = r.looks /\ q.seen = r.seen /\ q.moved = r.moved \cup {x}
  BY DEF CommandRecord
<1>2. Proceeds(q)
  BY <1>1 DEF CommandInv, Proceeds
<1>3. \A s \in Documents : s # x /\ AtTheTop(s, g) => AtTheTop(s, f)
  BY DEF OnlyTouched, AtTheTop
<1>4. \A y : y # x => (y \in Finds!Range(f) <=> y \in Finds!Range(g))
  BY DEF OnlyTouched, Finds!Range
<1>5. Knows(q, g)
  BY <1>1, <1>3, <1>4 DEF CommandInv, Knows, OnlyTouched
<1>6. Answered(q, g)
  <2> SUFFICES ASSUME q.stage = "done" PROVE Answered(q, g)
    BY DEF Answered
  <2>1. Answered(r, f) /\ r.stage = "done"
    BY <1>1 DEF CommandInv
  <2>2. \A s \in Forgetters(r.id) : s \in Documents
    BY DocumentsStandIn DEF Forgetters
  <2>3. ASSUME r.id \in Payloads, r.said \in {"whole", "held"}, r.does # "file", q.id \notin q.moved
        PROVE  \E p \in DOMAIN g : g[p] = q.id /\ Uncovered(p, q.id, q, g)
    <3>1. PICK p \in DOMAIN f : f[p] = r.id /\ Uncovered(p, r.id, r, f)
      BY <1>1, <2>1, <2>3 DEF Answered
    <3>2. p \in DOMAIN g /\ g[p] = q.id
      BY <1>1, <2>3, <3>1 DEF OnlyTouched
    <3>3. Uncovered(p, q.id, q, g)
      BY <1>1, <3>1 DEF OnlyTouched, Uncovered
    <3> QED BY <3>2, <3>3
  <2> QED
    BY <1>1, <1>3, <1>4, <2>1, <2>2, <2>3 DEF Answered
<1> QED
  BY <1>2, <1>5, <1>6 DEF CommandInv

\* A command that waits knows nothing and has said nothing.
LEMMA Waiting ==
  ASSUME NEW f, NEW g, NEW r \in CommandRecord, r.stage = "idle", CommandInv(r, f)
  PROVE  CommandInv(r, g)
  BY DEF CommandInv, Knows, Answered, Proceeds

\* A step of one command that leaves the directory alone.
LEMMA OwnStep ==
  ASSUME CatalogueInv, NEW c \in Commands, filed' = filed,
         cmd' \in [Commands -> CommandRecord],
         \A d \in Commands \ {c} : cmd'[d] = cmd[d],
         CommandInv(cmd'[c], filed)
  PROVE  \A d \in Commands : CommandInv(cmd'[d], filed')
  BY DEF CatalogueInv

\* A step that brings or takes x: everybody else under way is told.
LEMMA TouchingStep ==
  ASSUME CatalogueInv, NEW c, NEW x \in Ids, OnlyTouched(x, filed, filed'),
         cmd' \in [Commands -> CommandRecord],
         \A d \in Commands \ {c} : cmd'[d] = Finds!Disturbed({x}, c)[d],
         c \in Commands => CommandInv(cmd'[c], filed')
  PROVE  \A d \in Commands : CommandInv(cmd'[d], filed')
<1> SUFFICES ASSUME NEW d \in Commands, d # c PROVE CommandInv(cmd'[d], filed')
  OBVIOUS
<1>1. cmd[d] \in CommandRecord /\ CommandInv(cmd[d], filed)
  BY DEF CatalogueInv
<1>2. CASE cmd[d].stage = "idle"
  <2>1. cmd'[d] = cmd[d]
    BY <1>2 DEF Finds!Disturbed
  <2> QED BY <1>1, <1>2, <2>1, Waiting
<1>3. CASE cmd[d].stage # "idle"
  <2>1. cmd'[d] = [cmd[d] EXCEPT !.moved = @ \cup {x}] /\ cmd'[d] \in CommandRecord
    BY <1>3 DEF Finds!Disturbed
  <2> QED BY <1>1, <2>1, Bystander
<1> QED BY <1>2, <1>3
-----------------------------------------------------------------------------
\* A step of one command that changes neither the directory nor the cache.
LEMMA QuietStep ==
  ASSUME CatalogueInv, NEW c \in Commands,
         filed' = filed, cached' = cached, strayed' = strayed, scene' = scene,
         cmd' \in [Commands -> CommandRecord],
         \A d \in Commands \ {c} : cmd'[d] = cmd[d],
         CommandInv(cmd'[c], filed)
  PROVE  CatalogueInv'
<1>1. \A d \in Commands : CommandInv(cmd'[d], filed')
  BY OwnStep
<1> QED
  BY <1>1 DEF CatalogueInv

LEMMA NothingIsACatalogue ==
  /\ Finds!Nothing \in Catalogues /\ DOMAIN Finds!Nothing = {}
  /\ Finds!Nothing \in Directories
  /\ NamesPlaces(Finds!Nothing)
<1>1. Finds!Nothing \in [{} -> Places] /\ Finds!Nothing \in [{} -> Ids]
      /\ DOMAIN Finds!Nothing = {}
  BY DEF Finds!Nothing
<1>2. {} \in SUBSET Ids /\ {} \in SUBSET Places
  OBVIOUS
<1> QED
  BY <1>1, <1>2 DEF Catalogues, Directories, NamesPlaces

LEMMA ACatalogue ==
  ASSUME NEW D \in SUBSET Ids, NEW at \in [D -> Places]
  PROVE  at \in Catalogues
  BY DEF Catalogues

LEMMA ADirectory ==
  ASSUME NEW D \in SUBSET Places, NEW f \in [D -> Ids]
  PROVE  f \in Directories
  BY DEF Directories

LEMMA OfACatalogue ==
  ASSUME NEW at \in Catalogues
  PROVE  DOMAIN at \in SUBSET Ids /\ at \in [DOMAIN at -> Places]
  BY DEF Catalogues

LEMMA OfADirectory ==
  ASSUME NEW f \in Directories
  PROVE  DOMAIN f \in SUBSET Places /\ f \in [DOMAIN f -> Ids]
  BY DEF Directories

\* What a pass takes each path to hold is what can be there.
LEMMA BelievedIsOrderly ==
  ASSUME CatalogueInv, NEW p \in DOMAIN filed
  PROVE  /\ Finds!Believed(p) \in Ids
         /\ p \in DOMAIN Beside <=> Finds!Believed(p) \in Payloads
         /\ \A s \in Documents : p = Top[s] => Finds!Believed(p) = s
         /\ ~strayed => Finds!Believed(p) = filed[p]
<1> DEFINE saying == {id \in DOMAIN cached : cached[id] = p}
<1>1. filed[p] \in Ids /\ DOMAIN cached \subseteq Ids
  BY OfADirectory, OfACatalogue DEF CatalogueInv
<1>2. CASE saying = {}
  <2>1. Finds!Believed(p) = filed[p]
    BY <1>2 DEF Finds!Believed
  <2> QED BY <1>1, <2>1 DEF CatalogueInv, Orderly
<1>3. CASE saying # {}
  <2>1. Finds!Believed(p) \in saying
    BY <1>3 DEF Finds!Believed
  <2>2. ~strayed => \A id \in saying : filed[p] = id
    BY DEF CatalogueInv, Right
  <2> QED BY <1>1, <2>1, <2>2 DEF CatalogueInv, NamesPlaces
<1> QED BY <1>2, <1>3

\* A pass names what can be there, every document at the top among it, and is
\* right and complete where the cache it went by is right.
LEMMA PassSays ==
  ASSUME CatalogueInv
  PROVE  /\ Finds!Pass \in Catalogues /\ NamesPlaces(Finds!Pass)
         /\ \A s \in Documents : AtTheTop(s, filed) => s \in DOMAIN Finds!Pass
         /\ ~strayed => Right(Finds!Pass, filed) /\ Finds!Range(filed) \subseteq DOMAIN Finds!Pass
<1> DEFINE holding == [p \in DOMAIN filed |-> Finds!Believed(p)]
           at(id) == {p \in DOMAIN filed : holding[p] = id}
<1>1. /\ DOMAIN Finds!Pass = Finds!Range(holding)
      /\ \A id \in Finds!Range(holding) : Finds!Pass[id] = Finds!First(at(id))
      /\ Finds!Pass \in [Finds!Range(holding) -> {Finds!First(at(id)) : id \in Finds!Range(holding)}]
  BY DEF Finds!Pass
<1>2. \A id \in Finds!Range(holding) : Finds!First(at(id)) \in at(id)
  BY DEF Finds!Range, Finds!First
<1>0. \A id \in Finds!Range(holding) : Finds!Pass[id] \in DOMAIN filed /\ Finds!Believed(Finds!Pass[id]) = id
  <2> SUFFICES ASSUME NEW id \in Finds!Range(holding)
               PROVE  Finds!Pass[id] \in DOMAIN filed /\ Finds!Believed(Finds!Pass[id]) = id
    OBVIOUS
  <2>1. Finds!Pass[id] \in at(id)
    BY <1>1, <1>2
  <2> QED BY <2>1
<1>3. DOMAIN filed \subseteq Places
  BY OfADirectory DEF CatalogueInv
<1>4. Finds!Range(holding) \in SUBSET Ids
  BY BelievedIsOrderly DEF Finds!Range
<1>5. Finds!Pass \in [Finds!Range(holding) -> Places]
  BY <1>1, <1>2, <1>3
<1>6. Finds!Pass \in Catalogues
  BY <1>4, <1>5, ACatalogue
<1>7. NamesPlaces(Finds!Pass)
  <2> SUFFICES ASSUME NEW id \in DOMAIN Finds!Pass
               PROVE  /\ Finds!Pass[id] \in DOMAIN Beside <=> id \in Payloads
                      /\ \A s \in Documents : Finds!Pass[id] = Top[s] => id = s
    BY DEF NamesPlaces
  <2>1. Finds!Pass[id] \in DOMAIN filed /\ Finds!Believed(Finds!Pass[id]) = id
    BY <1>0, <1>1
  <2> QED BY <2>1, BelievedIsOrderly
<1>8. \A s \in Documents : AtTheTop(s, filed) => s \in Finds!Range(holding)
  BY BelievedIsOrderly DEF AtTheTop, Finds!Range
<1>9. ASSUME ~strayed
      PROVE  Right(Finds!Pass, filed) /\ Finds!Range(filed) \subseteq Finds!Range(holding)
  <2>1. \A p \in DOMAIN filed : holding[p] = filed[p]
    BY <1>9, BelievedIsOrderly
  <2>2. \A p \in DOMAIN filed : Finds!Believed(p) = filed[p]
    BY <1>9, BelievedIsOrderly
  <2>3. Right(Finds!Pass, filed)
    BY <1>0, <1>1, <2>2 DEF Right
  <2> QED BY <2>1, <2>3 DEF Finds!Range
<1> QED BY <1>1, <1>6, <1>7, <1>8, <1>9

\* So does the cache with what a look at the top adds to it.
LEMMA WithTheTopSays ==
  ASSUME CatalogueInv
  PROVE  LET at == Finds!WithTheTop(cached)
         IN  /\ at \in Catalogues /\ NamesPlaces(at)
             /\ \A s \in Documents : AtTheTop(s, filed) => s \in DOMAIN at
             /\ ~strayed => Right(at, filed)
<1> DEFINE at == Finds!WithTheTop(cached)
           read == {filed[Top[id]] : id \in Finds!Unplaced(cached)}
           tops(id) == {p \in Finds!Range(Top) : p \in DOMAIN filed /\ filed[p] = id}
<1>1. /\ DOMAIN at = read \cup DOMAIN cached
      /\ at = [id \in read \cup DOMAIN cached |->
                 IF id \in read THEN Finds!First(tops(id)) ELSE cached[id]]
  BY DEF Finds!WithTheTop
<1>2. \A id \in read : Finds!First(tops(id)) \in tops(id)
  <2> SUFFICES ASSUME NEW s \in Finds!Unplaced(cached)
               PROVE  tops(filed[Top[s]]) # {}
    BY DEF Finds!First
  <2>1. s \in Documents /\ Top[s] \in DOMAIN filed
    BY DEF Finds!Unplaced
  <2>2. Top[s] \in Finds!Range(Top)
    BY <2>1, DigestsNameTheTop DEF Finds!Range
  <2> QED BY <2>1, <2>2
<1>3. DOMAIN filed \subseteq Places /\ filed \in [DOMAIN filed -> Ids]
  BY OfADirectory DEF CatalogueInv
<1>4. DOMAIN cached \subseteq Ids /\ cached \in [DOMAIN cached -> Places]
  BY OfACatalogue DEF CatalogueInv
<1>5. read \subseteq Ids
  BY <1>3 DEF Finds!Unplaced
<1>6. at \in Catalogues
  <2>1. at \in [read \cup DOMAIN cached -> Places]
    BY <1>1, <1>2, <1>3, <1>4
  <2> QED BY <1>4, <1>5, <2>1, ACatalogue
<1>7. NamesPlaces(at)
  BY <1>1, <1>2 DEF NamesPlaces, CatalogueInv, Orderly
<1>8. \A s \in Documents : AtTheTop(s, filed) => s \in DOMAIN at
  BY <1>1 DEF AtTheTop, Finds!Unplaced
<1>9. ~strayed => Right(at, filed)
  BY <1>1, <1>2 DEF Right, CatalogueInv
<1> QED BY <1>6, <1>7, <1>8, <1>9
-----------------------------------------------------------------------------
\* Each action, of one command.
LEMMA IdleCommand ==
  /\ Finds!Idle \in CommandRecord
  /\ Finds!Idle.stage = "idle" /\ Finds!Idle.does = "nothing"
  /\ Finds!Idle.at = Finds!Nothing /\ Finds!Idle.moves = {} /\ Finds!Idle.moved = {}
<1>1. /\ {} \in Renames /\ "idle" \in Stages /\ "nothing" \in Asked /\ "nothing" \in Said
      /\ "none" \in Ids \cup {"none"} /\ {} \in SUBSET Ids /\ {} \in SUBSET Places
  BY DEF Renames, Stages, Asked, Said
<1>2. /\ Finds!Idle.stage = "idle" /\ Finds!Idle.does = "nothing"
      /\ Finds!Idle.at = Finds!Nothing /\ Finds!Idle.moves = {} /\ Finds!Idle.moved = {}
  BY DEF Finds!Idle
<1>3. Finds!Idle \in CommandRecord
  BY <1>1, NothingIsACatalogue DEF Finds!Idle, CommandRecord
<1> QED
  BY <1>2, <1>3

\* A command that begins has asked nothing yet.
LEMMA BeginStep ==
  ASSUME CatalogueInv, NEW c \in Commands,
         filed' = filed, cached' = cached, strayed' = strayed, scene' = scene,
         NEW r \in CommandRecord, cmd' = [cmd EXCEPT ![c] = r],
         r.does \in {"read", "file", "holds", "drop"} => r.id \in Ids,
         \/ r.stage = "take" /\ r.does \in {"read", "file"}
         \/ r.stage = "walk" /\ r.does \in {"holds", "drop"}
         \/ r.stage = "plan" /\ r.does = "arrange",
         r.at = Finds!Nothing, r.moves = {}
  PROVE  CatalogueInv'
<1>1. CommandInv(r, filed)
  BY NothingIsACatalogue DEF CommandInv, Proceeds, Knows, Answered
<1>2. cmd' \in [Commands -> CommandRecord] /\ cmd'[c] = r /\ \A d \in Commands \ {c} : cmd'[d] = cmd[d]
  BY DEF CatalogueInv
<1> QED BY <1>1, <1>2, QuietStep

\* What a command is when it begins.
LEMMA AskedOf ==
  ASSUME NEW does \in Asked, NEW id \in Ids \cup {"none"}, NEW stage \in Stages
  PROVE  LET r == [Finds!Idle EXCEPT !.does = does, !.id = id, !.stage = stage]
         IN  /\ r \in CommandRecord /\ r.does = does /\ r.id = id /\ r.stage = stage
             /\ r.at = Finds!Nothing /\ r.moves = {}
  BY IdleCommand DEF CommandRecord

LEMMA StartStep ==
  ASSUME CatalogueInv, NEW c \in Commands, Finds!Start(c)
  PROVE  CatalogueInv'
<1>1. PICK does \in {"read", "file"}, id \in scene :
        cmd' = [cmd EXCEPT ![c] = [Finds!Idle EXCEPT !.does = does, !.id = id, !.stage = "take"]]
  BY DEF Finds!Start
<1>2. id \in Ids
  BY DocumentsStandIn DEF CatalogueInv, Ids
<1>3. does \in Asked /\ id \in Ids \cup {"none"} /\ "take" \in Stages
  BY <1>2 DEF Asked, Stages
<1> DEFINE r == [Finds!Idle EXCEPT !.does = does, !.id = id, !.stage = "take"]
<1>4. /\ r \in CommandRecord /\ r.does = does /\ r.id = id /\ r.stage = "take"
      /\ r.at = Finds!Nothing /\ r.moves = {}
  BY <1>3, AskedOf
<1> HIDE DEF r
<1>5. cmd' = [cmd EXCEPT ![c] = r]
  BY <1>1 DEF r
<1> QED
  BY <1>2, <1>4, <1>5, BeginStep DEF Finds!Start

LEMMA StartWalkingStep ==
  ASSUME CatalogueInv, NEW c \in Commands, Finds!StartWalking(c)
  PROVE  CatalogueInv'
<1> DEFINE begins(does, id) ==
      cmd' = [cmd EXCEPT ![c] = [Finds!Idle EXCEPT !.does = does, !.id = id, !.stage = "walk"]]
           r == [Finds!Idle EXCEPT !.does = "arrange", !.stage = "plan"]
<1>1. scene \subseteq Ids
  BY DocumentsStandIn DEF CatalogueInv, Ids
<1>2. filed' = filed /\ cached' = cached /\ strayed' = strayed /\ scene' = scene
  BY DEF Finds!StartWalking
<1>3. {"holds", "drop", "arrange"} \subseteq Asked /\ {"walk", "plan"} \subseteq Stages
  BY DEF Asked, Stages
<1>4. ASSUME NEW does \in {"holds", "drop"}, NEW id \in scene, begins(does, id)
      PROVE  CatalogueInv'
  <2> DEFINE q == [Finds!Idle EXCEPT !.does = does, !.id = id, !.stage = "walk"]
  <2>0. does \in Asked /\ id \in Ids \cup {"none"} /\ "walk" \in Stages
    BY <1>1, <1>3
  <2>1. /\ q \in CommandRecord /\ q.does = does /\ q.id = id /\ q.stage = "walk"
        /\ q.at = Finds!Nothing /\ q.moves = {}
    BY <2>0, AskedOf
  <2>2. cmd' = [cmd EXCEPT ![c] = q]
    BY <1>4
  <2> HIDE DEF q
  <2> QED BY <1>1, <1>2, <2>1, <2>2, BeginStep
<1>5. CASE cmd' = [cmd EXCEPT ![c] = r]
  <2>1. r \in CommandRecord /\ r.does = "arrange" /\ r.stage = "plan" /\ r.at = Finds!Nothing /\ r.moves = {}
    BY <1>3, IdleCommand DEF CommandRecord
  <2> QED BY <1>2, <1>5, <2>1, BeginStep
<1> QED
  BY <1>4, <1>5 DEF Finds!StartWalking

LEMMA TakeStep ==
  ASSUME CatalogueInv, NEW c \in Commands, Finds!Take(c)
  PROVE  CatalogueInv'
<1> DEFINE r == cmd[c]
           at == IF cached = Finds!Nothing THEN Finds!Pass ELSE Finds!WithTheTop(cached)
<1>1. /\ at \in Catalogues /\ NamesPlaces(at)
      /\ \A s \in Documents : AtTheTop(s, filed) => s \in DOMAIN at
      /\ ~strayed => Right(at, filed)
  BY PassSays, WithTheTopSays
<1> HIDE DEF at
<1>2. r \in CommandRecord /\ CommandInv(r, filed) /\ r.stage = "take" /\ r.does \in {"read", "file"}
  BY DEF CatalogueInv, Finds!Take, CommandInv, Proceeds
<1>3. PICK stage \in {"note", "look"} :
        cmd' = [cmd EXCEPT ![c].at = at, ![c].astray = strayed, ![c].stage = stage]
  BY DEF Finds!Take, at
<1> DEFINE q == [r EXCEPT !.at = at, !.astray = strayed, !.stage = stage]
<1>a. stage \in Stages /\ strayed \in BOOLEAN /\ cmd \in [Commands -> CommandRecord]
  BY DEF Stages, CatalogueInv
<1>b. cmd' = [cmd EXCEPT ![c] = q]
  BY <1>1, <1>3, <1>a DEF CommandRecord
<1>4. /\ cmd' \in [Commands -> CommandRecord]
      /\ \A d \in Commands \ {c} : cmd'[d] = cmd[d]
      /\ cmd'[c].at = at /\ cmd'[c].astray = strayed /\ cmd'[c].stage = stage
      /\ cmd'[c].does = r.does /\ cmd'[c].id = r.id /\ cmd'[c].moves = r.moves
  BY <1>1, <1>2, <1>a, <1>b DEF CommandRecord
<1>5. CommandInv(cmd'[c], filed)
  BY <1>1, <1>2, <1>4 DEF CommandInv, Proceeds, Knows, Answered
<1> QED
  BY <1>4, <1>5, QuietStep DEF Finds!Take

LEMMA UpgradeStep ==
  ASSUME CatalogueInv, NEW c \in Commands, Finds!Upgrade(c)
  PROVE  CatalogueInv'
<1> DEFINE r == cmd[c]
<1>1. r \in CommandRecord /\ CommandInv(r, filed) /\ r.stage = "walk"
  BY DEF CatalogueInv, Finds!Upgrade
<1>2. PICK stage \in {"note", "look"} :
        cmd' = [cmd EXCEPT ![c].at = Finds!Pass, ![c].walked = TRUE, ![c].astray = strayed,
                           ![c].stage = stage]
  BY DEF Finds!Upgrade
<1>3. Finds!Pass \in Catalogues
  BY PassSays
<1> DEFINE q == [r EXCEPT !.at = Finds!Pass, !.walked = TRUE, !.astray = strayed, !.stage = stage]
<1>a. stage \in Stages /\ strayed \in BOOLEAN /\ cmd \in [Commands -> CommandRecord]
  BY DEF Stages, CatalogueInv
<1>b. cmd' = [cmd EXCEPT ![c] = q]
  BY <1>2, <1>a DEF CommandRecord
<1>4. /\ cmd' \in [Commands -> CommandRecord]
      /\ \A d \in Commands \ {c} : cmd'[d] = cmd[d]
      /\ cmd'[c].at = Finds!Pass /\ cmd'[c].astray = strayed /\ cmd'[c].stage = stage
      /\ cmd'[c].does = r.does /\ cmd'[c].id = r.id /\ cmd'[c].moves = r.moves
  BY <1>1, <1>3, <1>a, <1>b DEF CommandRecord
<1>5. CommandInv(cmd'[c], filed)
  BY <1>1, <1>4, PassSays DEF CommandInv, Proceeds, Knows, Answered
<1> QED
  BY <1>4, <1>5, QuietStep DEF Finds!Upgrade

\* A command that ends says something; the rest is left as it was.
LEMMA AnswerStep ==
  ASSUME CatalogueInv, NEW c \in Commands, NEW said \in Said, cmd' = Finds!Answer(c, said)
  PROVE  /\ cmd' \in [Commands -> CommandRecord]
         /\ \A d \in Commands \ {c} : cmd'[d] = cmd[d]
         /\ cmd'[c].stage = "done" /\ cmd'[c].said = said /\ cmd'[c].at = Finds!Nothing
         /\ cmd'[c].moves = {} /\ cmd'[c].does = cmd[c].does /\ cmd'[c].id = cmd[c].id
         /\ cmd'[c].moved = cmd[c].moved /\ cmd'[c].astray = cmd[c].astray
         /\ Proceeds(cmd'[c]) /\ Knows(cmd'[c], filed)
<1>1. cmd[c] \in CommandRecord /\ Proceeds(cmd[c])
  BY DEF CatalogueInv, CommandInv
<1> DEFINE q == [cmd[c] EXCEPT !.stage = "done", !.said = said, !.at = Finds!Nothing, !.moves = {},
                              !.looks = {}, !.seen = {}]
<1>a. /\ "done" \in Stages /\ Finds!Nothing \in Catalogues /\ {} \in Renames
      /\ {} \in SUBSET Places /\ {} \in SUBSET Ids
      /\ cmd \in [Commands -> CommandRecord]
  BY NothingIsACatalogue DEF Stages, Renames, CatalogueInv
<1>b. cmd' = [cmd EXCEPT ![c] = q]
  BY <1>a DEF CommandRecord, Finds!Answer
<1>2. /\ cmd' \in [Commands -> CommandRecord]
      /\ \A d \in Commands \ {c} : cmd'[d] = cmd[d]
      /\ cmd'[c].stage = "done" /\ cmd'[c].said = said /\ cmd'[c].at = Finds!Nothing
      /\ cmd'[c].moves = {} /\ cmd'[c].does = cmd[c].does /\ cmd'[c].id = cmd[c].id
      /\ cmd'[c].moved = cmd[c].moved /\ cmd'[c].astray = cmd[c].astray
  <2>1. q \in CommandRecord
    BY <1>1, <1>a DEF CommandRecord
  <2>2. /\ q.stage = "done" /\ q.said = said /\ q.at = Finds!Nothing /\ q.moves = {}
        /\ q.does = cmd[c].does /\ q.id = cmd[c].id /\ q.moved = cmd[c].moved
        /\ q.astray = cmd[c].astray
    BY <1>1 DEF CommandRecord
  <2> HIDE DEF q
  <2> QED BY <1>a, <1>b, <2>1, <2>2
<1> QED
  BY <1>1, <1>2, NothingIsACatalogue DEF Proceeds, Knows

\* A step that only says something: what is said has to be so.
LEMMA SayStep ==
  ASSUME CatalogueInv, NEW c \in Commands, NEW said \in Said, cmd' = Finds!Answer(c, said),
         filed' = filed, cached' = cached, strayed' = strayed, scene' = scene,
         Answered(cmd'[c], filed)
  PROVE  CatalogueInv'
  BY AnswerStep, QuietStep DEF CommandInv

\* What a command takes for standing in for a digest is here.
LEMMA StandingIsHere ==
  ASSUME CatalogueInv, NEW c \in Commands, NEW id
  PROVE  /\ Finds!Standing(c, id) = {s \in Forgetters(id) : s \in DOMAIN cmd[c].at /\ s \in Finds!Range(filed)}
         /\ Forgetters(id) \subseteq Documents
  BY DocumentsStandIn DEF Finds!Standing, Finds!Here, Forgetters

LEMMA BesideIsHere ==
  ASSUME CatalogueInv, NEW c \in Commands, NEW id, NEW p \in DOMAIN Beside
  PROVE  /\ Finds!ForgottenBeside(c, id, p) =>
              \E s \in Forgetters(id) : s \in Finds!Range(filed)
         /\ ~Finds!ForgottenBeside(c, id, p) =>
              /\ Finds!Standing(c, id) = {}
              /\ Uncovered(p, id, cmd[c], filed)
<1>1. Finds!ForgottenBeside(c, id, p) <=>
        \/ Finds!Standing(c, id) # {}
        \/ /\ Beside[p] \in DOMAIN filed
           /\ filed[Beside[p]] \in Forgetters(id)
  BY DEF Finds!ForgottenBeside, Forgetters
<1>2. Beside[p] \in DOMAIN filed => filed[Beside[p]] \in Finds!Range(filed)
  BY DEF Finds!Range
<1> QED
  BY <1>1, <1>2, StandingIsHere DEF Uncovered

LEMMA ReadStep ==
  ASSUME CatalogueInv, NEW c \in Commands, Finds!Read(c)
  PROVE  CatalogueInv'
<1> DEFINE r == cmd[c]
           id == r.id
           at == r.at
<1>1. /\ r \in CommandRecord /\ CommandInv(r, filed) /\ r.stage = "look" /\ r.does = "read"
      /\ id \in Ids /\ NamesPlaces(at)
      /\ filed' = filed /\ cached' = cached /\ strayed' = strayed /\ scene' = scene
  BY DEF CatalogueInv, Finds!Read, CommandInv, Proceeds
<1>2. \A s \in Documents : s \notin r.moved /\ AtTheTop(s, filed) => s \in DOMAIN at
  BY <1>1 DEF CommandInv, Knows
<1>3. \A s \in Documents : AtTheTop(s, filed) => s \in Finds!Range(filed)
  BY DEF AtTheTop, Finds!Range
<1>4. Finds!Standing(c, id) = {} =>
        \A s \in Forgetters(id) : s \notin r.moved => ~AtTheTop(s, filed)
  BY <1>2, <1>3, StandingIsHere
<1>5. CASE Finds!Found(at, id)
  <2>1. id \in DOMAIN at /\ at[id] \in DOMAIN filed /\ filed[at[id]] = id
    BY <1>5 DEF Finds!Found
  <2>2. CASE id \in Payloads
    <3>1. at[id] \in DOMAIN Beside
      BY <1>1, <2>1, <2>2 DEF NamesPlaces
    <3>2. CASE Finds!ForgottenBeside(c, id, at[id])
      <4>1. cmd' = Finds!Answer(c, "refused") /\ "refused" \in Said
        BY <1>1, <1>5, <2>2, <3>2 DEF Finds!Read, Said
      <4>2. Answered(cmd'[c], filed)
        BY <1>1, <4>1, AnswerStep DEF Answered
      <4> QED BY <1>1, <4>1, <4>2, SayStep
    <3>3. CASE ~Finds!ForgottenBeside(c, id, at[id])
      <4>1. cmd' = Finds!Answer(c, "whole") /\ "whole" \in Said
        BY <1>1, <1>5, <2>2, <3>3 DEF Finds!Read, Said
      <4>2. Uncovered(at[id], id, r, filed) /\ Finds!Standing(c, id) = {}
        BY <3>1, <3>3, BesideIsHere
      <4>3. Uncovered(at[id], id, cmd'[c], filed)
        BY <4>1, <4>2, AnswerStep DEF Uncovered
      <4>4. Answered(cmd'[c], filed)
        BY <1>1, <1>4, <2>1, <4>1, <4>2, <4>3, AnswerStep DEF Answered
      <4> QED BY <1>1, <4>1, <4>4, SayStep
    <3> QED BY <3>2, <3>3
  <2>3. CASE id \notin Payloads /\ Finds!Standing(c, id) # {}
    <3>1. cmd' = Finds!Answer(c, "redacted") /\ "redacted" \in Said
      BY <1>1, <1>5, <2>3 DEF Finds!Read, Said
    <3>2. Answered(cmd'[c], filed)
      BY <1>1, <3>1, AnswerStep DEF Answered
    <3> QED BY <1>1, <3>1, <3>2, SayStep
  <2>4. CASE id \notin Payloads /\ Finds!Standing(c, id) = {}
    <3>1. cmd' = Finds!Answer(c, "whole") /\ "whole" \in Said
      BY <1>1, <1>5, <2>4 DEF Finds!Read, Said
    <3>2. Answered(cmd'[c], filed)
      BY <1>1, <1>4, <2>4, <3>1, AnswerStep DEF Answered
    <3> QED BY <1>1, <3>1, <3>2, SayStep
  <2> QED BY <2>2, <2>3, <2>4
<1>6. CASE ~Finds!Found(at, id)
  <2>1. PICK stage \in {"scan", "walk"} : cmd' = [cmd EXCEPT ![c].stage = stage]
    BY <1>1, <1>6 DEF Finds!Read
  <2>2. /\ cmd' \in [Commands -> CommandRecord]
        /\ \A d \in Commands \ {c} : cmd'[d] = cmd[d]
        /\ cmd'[c] = [r EXCEPT !.stage = stage]
    <3>1. stage \in Stages /\ cmd \in [Commands -> CommandRecord]
      BY DEF Stages, CatalogueInv
    <3> QED BY <2>1, <3>1 DEF CommandRecord
  <2>3. /\ cmd'[c].stage = stage /\ cmd'[c].does = "read" /\ cmd'[c].id = id /\ cmd'[c].at = at
        /\ cmd'[c].moves = r.moves /\ cmd'[c].moved = r.moved
    BY <1>1, <2>2 DEF CommandRecord
  <2>4. CommandInv(cmd'[c], filed)
    BY <1>1, <2>3 DEF CommandInv, Proceeds, Knows, Answered
  <2> QED BY <1>1, <2>2, <2>4, QuietStep
<1> QED BY <1>5, <1>6

\* A search that goes on: what it has read it may go by, and it has the rest to read.
LEMMA SearchStep ==
  ASSUME CatalogueInv, NEW c \in Commands,
         filed' = filed, cached' = cached, strayed' = strayed, scene' = scene,
         NEW stage \in Stages, NEW looks \in SUBSET Places, NEW seen \in SUBSET Ids,
         cmd' = [cmd EXCEPT ![c].stage = stage, ![c].looks = looks, ![c].seen = seen],
         cmd[c].does = "read", cmd[c].stage \in {"scan", "sift"}, stage \in {"sift", "found"},
         /\ stage = "sift" /\ cmd[c].id \in Payloads => cmd[c].id \notin seen
         /\ stage = "found" => cmd[c].id \in Payloads,
         stage = "sift" =>
           /\ seen \subseteq Finds!Range(filed) \cup cmd[c].moved
           /\ \A p \in DOMAIN filed : (p \in DOMAIN Beside <=> cmd[c].id \in Payloads) =>
                p \in looks \/ filed[p] \in seen \cup cmd[c].moved,
         stage = "found" => \A p \in looks : p \in DOMAIN Beside /\ p \in DOMAIN filed /\ filed[p] = cmd[c].id
  PROVE  CatalogueInv'
<1> DEFINE r == cmd[c]
           q == cmd'[c]
<1>1. r \in CommandRecord /\ CommandInv(r, filed) /\ cmd \in [Commands -> CommandRecord]
  BY DEF CatalogueInv
<1>2. /\ cmd' \in [Commands -> CommandRecord]
      /\ \A d \in Commands \ {c} : cmd'[d] = cmd[d]
      /\ q.does = r.does /\ q.id = r.id /\ q.stage = stage /\ q.at = r.at
      /\ q.moves = r.moves /\ q.said = r.said /\ q.astray = r.astray /\ q.moved = r.moved
      /\ q.looks = looks /\ q.seen = seen
  BY <1>1 DEF CommandRecord
<1>3. Proceeds(q)
  <2>1. Proceeds(r) /\ r.does = "read"
    BY <1>1 DEF CommandInv
  <2>2. /\ q.stage = "sift" /\ q.id \in Payloads => q.id \notin q.seen
        /\ q.stage = "found" => q.id \in Payloads
    BY <1>2
  <2> QED BY <1>2, <2>1, <2>2 DEF Proceeds
<1>4. Knows(q, filed)
  BY <1>1, <1>2 DEF CommandInv, Knows
<1>5. Answered(q, filed)
  BY <1>2 DEF Answered
<1> QED
  BY <1>2, <1>3, <1>4, <1>5, QuietStep DEF CommandInv

LEMMA ScanStep ==
  ASSUME CatalogueInv, NEW c \in Commands, Finds!Scan(c)
  PROVE  CatalogueInv'
<1> DEFINE r == cmd[c]
           looks == Finds!Listed(r.id)
<1>1. /\ r.stage = "scan" /\ r.does = "read"
      /\ filed' = filed /\ cached' = cached /\ strayed' = strayed /\ scene' = scene
      /\ cmd' = [cmd EXCEPT ![c].stage = "sift", ![c].looks = looks, ![c].seen = {}]
  BY DEF CatalogueInv, Finds!Scan, CommandInv, Proceeds
<1>2. /\ looks \in SUBSET Places
      /\ \A p \in DOMAIN filed : (p \in DOMAIN Beside <=> r.id \in Payloads) => p \in looks
  BY OfADirectory DEF CatalogueInv, Finds!Listed
<1>3. "sift" \in Stages /\ {} \in SUBSET Ids
  BY DEF Stages
<1> HIDE DEF looks
<1> QED BY <1>1, <1>2, <1>3, SearchStep

LEMMA SiftStep ==
  ASSUME CatalogueInv, NEW c \in Commands, Finds!Sift(c)
  PROVE  CatalogueInv'
<1> DEFINE r == cmd[c]
           id == r.id
           held(p) == IF p \in DOMAIN filed THEN {filed[p]} ELSE {}
<1>1. /\ r \in CommandRecord /\ CommandInv(r, filed) /\ r.stage = "sift" /\ r.does = "read"
      /\ filed' = filed /\ cached' = cached /\ strayed' = strayed /\ scene' = scene
  BY DEF CatalogueInv, Finds!Sift, CommandInv, Proceeds
<1>2. PICK p \in r.looks :
        cmd' = IF id \in Payloads /\ id \in held(p)
                 THEN [cmd EXCEPT ![c].stage = "found", ![c].looks = {p}, ![c].seen = {}]
                 ELSE [cmd EXCEPT ![c].looks = @ \ {p}, ![c].seen = @ \cup held(p)]
  BY DEF Finds!Sift
<1>3. r.looks \in SUBSET Places /\ r.seen \in SUBSET Ids /\ "sift" \in Stages /\ "found" \in Stages
  BY <1>1 DEF CommandRecord, Stages
<1>4. p \in DOMAIN filed => filed[p] \in Ids
  BY OfADirectory DEF CatalogueInv
<1>5. CASE id \in Payloads /\ id \in held(p)
  <2>1. p \in DOMAIN filed /\ filed[p] = id
    BY <1>5
  <2>2. p \in DOMAIN Beside
    BY <1>5, <2>1 DEF CatalogueInv, Orderly
  <2>3. {p} \in SUBSET Places /\ {} \in SUBSET Ids
    BY <1>3
  <2>4. cmd' = [cmd EXCEPT ![c].stage = "found", ![c].looks = {p}, ![c].seen = {}]
    BY <1>2, <1>5
  <2>5. \A x \in {p} : x \in DOMAIN Beside /\ x \in DOMAIN filed /\ filed[x] = id
    BY <2>1, <2>2
  <2> DEFINE looks == {p}
  <2> HIDE DEF looks
  <2>6. /\ looks \in SUBSET Places
        /\ cmd' = [cmd EXCEPT ![c].stage = "found", ![c].looks = looks, ![c].seen = {}]
        /\ \A x \in looks : x \in DOMAIN Beside /\ x \in DOMAIN filed /\ filed[x] = id
    BY <2>3, <2>4, <2>5 DEF looks
  <2> QED BY <1>1, <1>3, <1>5, <2>3, <2>6, SearchStep
<1>6. CASE ~(id \in Payloads /\ id \in held(p))
  <2> DEFINE looks == r.looks \ {p}
             seen == r.seen \cup held(p)
  <2>1. cmd' = [cmd EXCEPT ![c].stage = "sift", ![c].looks = looks, ![c].seen = seen]
    <3>1. cmd' = [cmd EXCEPT ![c].looks = looks, ![c].seen = seen]
      BY <1>2, <1>6
    <3>2. cmd \in [Commands -> CommandRecord]
      BY DEF CatalogueInv
    <3> HIDE DEF looks, seen
    <3> QED BY <1>1, <3>1, <3>2 DEF CommandRecord
  <2>2. looks \in SUBSET Places /\ seen \in SUBSET Ids
    BY <1>3, <1>4
  <2>3. id \in Payloads => id \notin seen
    BY <1>1, <1>6 DEF CommandInv, Proceeds
  <2>4. /\ r.seen \subseteq Finds!Range(filed) \cup r.moved
        /\ \A q \in DOMAIN filed : (q \in DOMAIN Beside <=> id \in Payloads) =>
             q \in r.looks \/ filed[q] \in r.seen \cup r.moved
    BY <1>1 DEF CommandInv, Knows
  <2>5. held(p) \subseteq Finds!Range(filed)
    BY DEF Finds!Range
  <2>6. seen \subseteq Finds!Range(filed) \cup r.moved
    BY <2>4, <2>5
  <2>7. \A q \in DOMAIN filed : (q \in DOMAIN Beside <=> id \in Payloads) =>
          q \in looks \/ filed[q] \in seen \cup r.moved
    BY <2>4
  <2> HIDE DEF looks, seen
  <2> QED BY <1>1, <1>3, <2>1, <2>2, <2>3, <2>6, <2>7, SearchStep
<1> QED BY <1>5, <1>6

\* What a search that has read everything has not seen was moved, or is not here.
LEMMA ReadThrough ==
  ASSUME CatalogueInv, NEW c \in Commands, cmd[c].stage = "sift", cmd[c].looks = {}
  PROVE  /\ cmd[c].seen \subseteq Finds!Range(filed) \cup cmd[c].moved
         /\ \A x \in Finds!Range(filed) : (x \in Payloads <=> cmd[c].id \in Payloads) =>
              x \in cmd[c].seen \cup cmd[c].moved
<1>1. CommandInv(cmd[c], filed)
  BY DEF CatalogueInv
<1>2. /\ cmd[c].seen \subseteq Finds!Range(filed) \cup cmd[c].moved
      /\ \A p \in DOMAIN filed : (p \in DOMAIN Beside <=> cmd[c].id \in Payloads) =>
           filed[p] \in cmd[c].seen \cup cmd[c].moved
  BY <1>1 DEF CommandInv, Knows
<1>3. \A p \in DOMAIN filed : p \in DOMAIN Beside <=> filed[p] \in Payloads
  BY DEF CatalogueInv, Orderly
<1> QED BY <1>2, <1>3 DEF Finds!Range

LEMMA EndScanStep ==
  ASSUME CatalogueInv, NEW c \in Commands, Finds!EndScan(c)
  PROVE  CatalogueInv'
<1> DEFINE r == cmd[c]
           id == r.id
           standing == {s \in DOMAIN Stands \cap r.seen : Stands[s] = id}
           found == id \in r.seen \/ (id \in Documents /\ Finds!Found(r.at, id))
<1>1. /\ r \in CommandRecord /\ CommandInv(r, filed) /\ r.stage = "sift" /\ r.does = "read"
      /\ id \in Ids /\ r.looks = {}
      /\ filed' = filed /\ cached' = cached /\ strayed' = strayed /\ scene' = scene
  BY DEF CatalogueInv, Finds!EndScan, CommandInv, Proceeds
<1>2. id \in Payloads => ~found
  BY <1>1, PayloadsHavePlaces DEF CommandInv, Proceeds
<1>3. PICK said \in {"redacted", "whole", "absent"} :
        /\ cmd' = Finds!Answer(c, said)
        /\ said = "whole" => found /\ ~(id \in Documents /\ standing # {})
        /\ said = "absent" => ~found
  BY DEF Finds!EndScan
<1>4. said \in Said
  BY DEF Said
<1>5. said = "absent" /\ id \notin r.moved => id \notin Finds!Range(filed)
  BY <1>1, <1>3, ReadThrough
<1>6. said = "whole" => \A s \in Forgetters(id) : s \notin r.moved => ~AtTheTop(s, filed)
  <2> SUFFICES ASSUME said = "whole", NEW s \in Forgetters(id), s \notin r.moved, AtTheTop(s, filed)
               PROVE  FALSE
    OBVIOUS
  <2>1. s \in Documents /\ s \notin Payloads /\ s \in Finds!Range(filed)
    BY StandingIsHere, PayloadsHavePlaces DEF AtTheTop, Finds!Range
  <2>2. id \in Documents /\ id \notin Payloads
    BY <1>1, <1>2, <1>3, PayloadsHavePlaces DEF Ids
  <2>3. s \in r.seen
    BY <1>1, <2>1, <2>2, ReadThrough
  <2> QED BY <1>3, <2>2, <2>3 DEF Forgetters
<1>7. said = "whole" => id \notin Payloads
  BY <1>2, <1>3
<1>8. Answered(cmd'[c], filed)
  BY <1>1, <1>3, <1>4, <1>5, <1>6, <1>7, AnswerStep DEF Answered
<1> QED BY <1>1, <1>3, <1>4, <1>8, SayStep

LEMMA HandOverStep ==
  ASSUME CatalogueInv, NEW c \in Commands, Finds!HandOver(c)
  PROVE  CatalogueInv'
<1> DEFINE r == cmd[c]
           id == r.id
<1>1. /\ r \in CommandRecord /\ CommandInv(r, filed) /\ r.stage = "found" /\ r.does = "read"
      /\ id \in Payloads
      /\ filed' = filed /\ cached' = cached /\ strayed' = strayed /\ scene' = scene
  BY DEF CatalogueInv, Finds!HandOver, CommandInv, Proceeds
<1>2. PICK p \in r.looks, said \in {"refused", "failed", "whole", "absent"} :
        /\ cmd' = Finds!Answer(c, said)
        /\ said = "whole" => p \in DOMAIN filed /\ filed[p] = id /\ ~Finds!ForgottenBeside(c, id, p)
        /\ said = "absent" => p \in DOMAIN filed /\ filed[p] # id
  BY DEF Finds!HandOver
<1>3. p \in DOMAIN Beside /\ (id \in r.moved \/ (p \in DOMAIN filed /\ filed[p] = id))
  BY <1>1 DEF CommandInv, Knows
<1>4. said \in Said
  BY DEF Said
<1>5. said = "absent" => id \in r.moved
  BY <1>2, <1>3
<1>6. ASSUME said = "whole"
      PROVE  Uncovered(p, id, r, filed) /\ Finds!Standing(c, id) = {}
  BY <1>2, <1>3, <1>6, BesideIsHere
<1>7. said = "whole" => \A s \in Forgetters(id) : s \notin r.moved => ~AtTheTop(s, filed)
  <2>1. \A s \in Documents : s \notin r.moved /\ AtTheTop(s, filed) => s \in DOMAIN r.at
    BY <1>1 DEF CommandInv, Knows
  <2>2. \A s \in Documents : AtTheTop(s, filed) => s \in Finds!Range(filed)
    BY DEF AtTheTop, Finds!Range
  <2> QED BY <1>6, <2>1, <2>2, StandingIsHere
<1>8. said = "whole" => \E q \in DOMAIN filed : filed[q] = id /\ Uncovered(q, id, cmd'[c], filed)
  BY <1>2, <1>4, <1>6, AnswerStep DEF Uncovered
<1>9. Answered(cmd'[c], filed)
  BY <1>1, <1>2, <1>4, <1>5, <1>7, <1>8, AnswerStep DEF Answered
<1> QED BY <1>1, <1>2, <1>4, <1>9, SayStep

LEMMA HoldsStep ==
  ASSUME CatalogueInv, NEW c \in Commands, Finds!Holds(c)
  PROVE  CatalogueInv'
<1> DEFINE r == cmd[c]
           id == r.id
           at == r.at
           found == Finds!Found(at, id) /\ ~Finds!ForgottenBeside(c, id, at[id])
<1>1. /\ r \in CommandRecord /\ CommandInv(r, filed) /\ r.stage = "look" /\ r.does = "holds"
      /\ NamesPlaces(at)
      /\ filed' = filed /\ cached' = cached /\ strayed' = strayed /\ scene' = scene
  BY DEF CatalogueInv, Finds!Holds, CommandInv, Proceeds
<1>2. {"held", "elsewhere"} \subseteq Said
  BY DEF Said
<1>3. CASE found
  <2>1. cmd' = Finds!Answer(c, "held")
    BY <1>1, <1>3 DEF Finds!Holds
  <2>2. ASSUME id \in Payloads
        PROVE  at[id] \in DOMAIN filed /\ filed[at[id]] = id /\ Uncovered(at[id], id, r, filed)
    BY <1>1, <1>3, <2>2, BesideIsHere DEF NamesPlaces, Finds!Found
  <2>3. id \in Payloads =>
          \E p \in DOMAIN filed : filed[p] = id /\ Uncovered(p, id, cmd'[c], filed)
    BY <1>2, <2>1, <2>2, AnswerStep DEF Uncovered
  <2>4. Answered(cmd'[c], filed)
    BY <1>1, <1>2, <2>1, <2>3, AnswerStep DEF Answered
  <2> QED BY <1>1, <1>2, <2>1, <2>4, SayStep
<1>4. CASE ~found
  <2>1. cmd' = Finds!Answer(c, "elsewhere")
    BY <1>1, <1>4 DEF Finds!Holds
  <2>2. ASSUME r.moved = {}, ~r.astray, id \in Finds!Range(filed)
        PROVE  \E s \in Forgetters(id) : s \in Finds!Range(filed)
    <3>1. id \in DOMAIN at /\ Right(at, filed)
      BY <1>1, <2>2 DEF CommandInv, Knows
    <3>2. Finds!Found(at, id)
      BY <3>1 DEF Right, Finds!Found
    <3>3. Finds!ForgottenBeside(c, id, at[id])
      BY <1>4, <3>2
    <3>4. CASE at[id] \in DOMAIN Beside
      BY <3>3, <3>4, BesideIsHere
    <3>5. CASE at[id] \notin DOMAIN Beside
      BY <3>3, <3>5, StandingIsHere DEF Finds!ForgottenBeside
    <3> QED BY <3>4, <3>5
  <2>3. Answered(cmd'[c], filed)
    BY <1>1, <1>2, <2>1, <2>2, AnswerStep DEF Answered
  <2> QED BY <1>1, <1>2, <2>1, <2>3, SayStep
<1> QED BY <1>3, <1>4
-----------------------------------------------------------------------------
\* What the directory is after a file comes, goes or is renamed.
LEMMA PlacedIsOrderly ==
  ASSUME CatalogueInv, NEW p \in Places, NEW id \in Ids,
         p \in DOMAIN filed => filed[p] = id,
         p \in DOMAIN Beside <=> id \in Payloads,
         \A s \in Documents : p = Top[s] => id = s,
         NEW f, f = Finds!Placed(p, id)
  PROVE  /\ f \in Directories /\ Orderly(f)
         /\ OnlyTouched(id, filed, f)
         /\ p \in DOMAIN f /\ f[p] = id
         /\ \A at : Right(at, filed) => Right(at, f)
<1>1. /\ DOMAIN f = DOMAIN filed \cup {p} /\ f[p] = id
      /\ \A q \in DOMAIN filed : f[q] = filed[q]
      /\ f = [q \in DOMAIN filed \cup {p} |-> IF q = p THEN id ELSE filed[q]]
  BY DEF Finds!Placed
<1>2. f \in Directories
  <2>1. DOMAIN filed \in SUBSET Places /\ filed \in [DOMAIN filed -> Ids]
    BY OfADirectory DEF CatalogueInv
  <2>2. f \in [DOMAIN filed \cup {p} -> Ids]
    BY <1>1, <2>1
  <2> QED BY <2>1, <2>2, ADirectory
<1>3. Orderly(f)
  BY <1>1 DEF CatalogueInv, Orderly
<1>4. OnlyTouched(id, filed, f) /\ \A at : Right(at, filed) => Right(at, f)
  BY <1>1 DEF OnlyTouched, Right
<1> QED BY <1>1, <1>2, <1>3, <1>4

LEMMA WithoutIsOrderly ==
  ASSUME CatalogueInv, NEW p \in DOMAIN filed, NEW f, f = Finds!Without(p)
  PROVE  /\ f \in Directories /\ Orderly(f)
         /\ OnlyTouched(filed[p], filed, f)
         /\ DOMAIN f = DOMAIN filed \ {p} /\ \A q \in DOMAIN f : f[q] = filed[q]
<1>1. /\ DOMAIN f = DOMAIN filed \ {p} /\ \A q \in DOMAIN f : f[q] = filed[q]
      /\ f = [q \in DOMAIN filed \ {p} |-> filed[q]]
  BY DEF Finds!Without, Finds!Restrict
<1>2. f \in Directories
  <2>1. DOMAIN filed \in SUBSET Places /\ filed \in [DOMAIN filed -> Ids]
    BY OfADirectory DEF CatalogueInv
  <2>2. f \in [DOMAIN filed \ {p} -> Ids]
    BY <1>1, <2>1
  <2> QED BY <2>1, <2>2, ADirectory
<1> QED BY <1>1, <1>2 DEF CatalogueInv, Orderly, OnlyTouched

LEMMA RenamedIsOrderly ==
  ASSUME CatalogueInv, NEW p \in DOMAIN filed, NEW q \in Places, q \notin DOMAIN filed,
         q \in DOMAIN Beside <=> filed[p] \in Payloads,
         \A s \in Documents : q = Top[s] => filed[p] = s,
         NEW f, f = Finds!Renamed(p, q)
  PROVE  /\ f \in Directories /\ Orderly(f)
         /\ OnlyTouched(filed[p], filed, f)
         /\ Finds!Range(f) = Finds!Range(filed)
         /\ DOMAIN f = (DOMAIN filed \ {p}) \cup {q} /\ f[q] = filed[p]
         /\ \A x \in DOMAIN filed \ {p} : f[x] = filed[x]
<1>1. /\ DOMAIN f = (DOMAIN filed \ {p}) \cup {q} /\ f[q] = filed[p]
      /\ \A x \in DOMAIN filed \ {p} : f[x] = filed[x]
      /\ f = [x \in (DOMAIN filed \ {p}) \cup {q} |-> IF x = q THEN filed[p] ELSE filed[x]]
  BY DEF Finds!Renamed
<1>2. f \in Directories
  <2>1. DOMAIN filed \in SUBSET Places /\ filed \in [DOMAIN filed -> Ids]
    BY OfADirectory DEF CatalogueInv
  <2>2. f \in [(DOMAIN filed \ {p}) \cup {q} -> Ids]
    BY <1>1, <2>1
  <2>3. (DOMAIN filed \ {p}) \cup {q} \in SUBSET Places
    BY <2>1
  <2> QED BY <2>2, <2>3, ADirectory
<1>3. Orderly(f)
  BY <1>1 DEF CatalogueInv, Orderly
<1>4. OnlyTouched(filed[p], filed, f)
  BY <1>1 DEF OnlyTouched
<1>5. Finds!Range(f) = Finds!Range(filed)
  BY <1>1 DEF Finds!Range
<1> QED BY <1>1, <1>2, <1>3, <1>4, <1>5

\* Where a writer files a digest.
LEMMA HomeIsAPlace ==
  ASSUME NEW id \in Ids
  PROVE  /\ Finds!Home(id) \in Places
         /\ Finds!Home(id) \in DOMAIN Beside <=> id \in Payloads
         /\ \A s \in Documents : Finds!Home(id) = Top[s] => id = s
<1>1. CASE id \in Documents
  BY <1>1, DigestsNameTheTop, PayloadsHavePlaces DEF Finds!Home, Places, Finds!Range
<1>2. CASE id \notin Documents
  <2>1. id \in Payloads /\ id \in DOMAIN Arranged /\ Finds!Home(id) = Arranged[id]
    BY <1>2, PayloadsHavePlaces DEF Ids, Finds!Home
  <2> QED BY <2>1, DigestsNameTheTop, PayloadsHavePlaces DEF Places, Finds!Range
<1> QED BY <1>1, <1>2

LEMMA SpotsArePlaces ==
  ASSUME NEW id \in Ids, NEW p \in Spots[id]
  PROVE  /\ p \in Places
         /\ p \in DOMAIN Beside <=> id \in Payloads
         /\ \A s \in Documents : p = Top[s] => id = s
  BY DigestsNameTheTop, PayloadsHavePlaces DEF Ids, Places

\* Where arranging puts a file: only one a revision names moves, for what is at
\* the top is under its own digest already.
LEMMA GoesSomewhere ==
  ASSUME CatalogueInv, NEW p \in DOMAIN filed
  PROVE  Finds!Goes(p) # p => <<p, Finds!Goes(p)>> \in Places \X Places /\ Harmless(<<p, Finds!Goes(p)>>)
<1>1. p \in Places /\ filed[p] \in Ids
  BY OfADirectory DEF CatalogueInv
<1>2. CASE filed[p] \in DOMAIN Arranged
  <2>1. Finds!Goes(p) = Arranged[filed[p]]
    BY <1>2 DEF Finds!Goes
  <2>2. Arranged[filed[p]] \in Places
    BY <1>2 DEF Places, Finds!Range
  <2>3. \A s \in Documents : Arranged[filed[p]] # Top[s]
    BY <1>1, <1>2, DigestsNameTheTop DEF Ids
  <2>4. p \in DOMAIN Beside <=> Arranged[filed[p]] \in DOMAIN Beside
    BY <1>1, <1>2, PayloadsHavePlaces DEF Ids, CatalogueInv, Orderly
  <2> QED BY <1>1, <2>1, <2>2, <2>3, <2>4 DEF Harmless
<1>3. CASE filed[p] \notin DOMAIN Arranged
  <2>1. p \in Finds!Range(Top) => p = Top[filed[p]]
    BY DigestsNameTheTop DEF CatalogueInv, Orderly, Finds!Range
  <2> QED BY <1>3, <2>1 DEF Finds!Goes
<1> QED BY <1>2, <1>3

\* What everybody but the one who moved it is told.
LEMMA ToldOfIt ==
  ASSUME CatalogueInv, NEW x \in Ids, NEW c
  PROVE  /\ Finds!Disturbed({x}, c) \in [Commands -> CommandRecord]
         /\ \A d \in Commands : d = c => Finds!Disturbed({x}, c)[d] = cmd[d]
<1> DEFINE told(d) == IF d = c \/ cmd[d].stage = "idle" THEN cmd[d]
                      ELSE [cmd[d] EXCEPT !.moved = @ \cup {x}]
<1>1. \A d \in Commands : told(d) \in CommandRecord
  <2> SUFFICES ASSUME NEW d \in Commands PROVE told(d) \in CommandRecord
    OBVIOUS
  <2>1. cmd[d] \in CommandRecord
    BY DEF CatalogueInv
  <2>2. [cmd[d] EXCEPT !.moved = @ \cup {x}] \in CommandRecord
    BY <2>1 DEF CommandRecord
  <2> QED BY <2>1, <2>2
<1>2. Finds!Disturbed({x}, c) = [d \in Commands |-> told(d)]
  BY DEF Finds!Disturbed
<1> QED BY <1>1, <1>2

\* A command that steps on the directory: what it is after, and what that takes.
LEMMA DisturbingStep ==
  ASSUME CatalogueInv, NEW c \in Commands, NEW x \in Ids, NEW r \in CommandRecord,
         cmd' \in [Commands -> CommandRecord],
         cmd'[c] = r, \A d \in Commands \ {c} : cmd'[d] = Finds!Disturbed({x}, c)[d],
         filed' \in Directories, Orderly(filed'), OnlyTouched(x, filed, filed'),
         CommandInv(r, filed'),
         cached' = cached, strayed' \in BOOLEAN, ~strayed' => Right(cached, filed'),
         scene' = scene
  PROVE  CatalogueInv'
<1>1. \A d \in Commands : CommandInv(cmd'[d], filed')
  BY TouchingStep
<1> QED
  BY <1>1 DEF CatalogueInv

LEMMA FileStep ==
  ASSUME CatalogueInv, NEW c \in Commands, Finds!File(c)
  PROVE  CatalogueInv'
<1> DEFINE r == cmd[c]
           id == r.id
           home == Finds!Home(id)
<1>1. /\ r \in CommandRecord /\ CommandInv(r, filed) /\ r.stage = "look" /\ r.does = "file"
      /\ id \in Ids /\ NamesPlaces(r.at) /\ r.at \in Catalogues
      /\ cached' = cached /\ strayed' = strayed /\ scene' = scene
      /\ cmd \in [Commands -> CommandRecord]
  BY DEF CatalogueInv, Finds!File, CommandInv, Proceeds, CommandRecord
<1>2. CASE Finds!Found(r.at, id)
  <2>1. cmd' = Finds!Answer(c, "held") /\ filed' = filed /\ "held" \in Said
    BY <1>2 DEF Finds!File, Said
  <2>2. id \in Finds!Range(filed)
    BY <1>2 DEF Finds!Found, Finds!Range
  <2>3. Answered(cmd'[c], filed)
    BY <1>1, <2>1, <2>2, AnswerStep DEF Answered
  <2> QED BY <1>1, <2>1, <2>3, SayStep
<1>3. CASE ~Finds!Found(r.at, id)
  <2> DEFINE at == [y \in DOMAIN r.at \cup {id} |-> IF y = id THEN home ELSE r.at[y]]
             q == [r EXCEPT !.at = at, !.stage = "keep"]
  <2>1. /\ home \in DOMAIN filed => filed[home] = id
        /\ filed' = Finds!Placed(home, id)
        /\ cmd' = [Finds!Disturbed({id}, c) EXCEPT
                      ![c].at = [y \in DOMAIN @ \cup {id} |-> IF y = id THEN home ELSE @[y]],
                      ![c].stage = "keep"]
    BY <1>3 DEF Finds!File
  <2>2. /\ Finds!Disturbed({id}, c) \in [Commands -> CommandRecord]
        /\ Finds!Disturbed({id}, c)[c] = r
    BY <1>1, ToldOfIt
  <2>3. at \in Catalogues /\ NamesPlaces(at)
    <3>1. DOMAIN r.at \in SUBSET Ids /\ r.at \in [DOMAIN r.at -> Places]
      BY <1>1, OfACatalogue
    <3>2. at \in [DOMAIN r.at \cup {id} -> Places]
      BY <1>1, <3>1, HomeIsAPlace
    <3>3. NamesPlaces(at)
      BY <1>1, HomeIsAPlace DEF NamesPlaces
    <3> QED BY <1>1, <3>1, <3>2, <3>3, ACatalogue
  <2> HIDE DEF at
  <2>4. cmd' = [Finds!Disturbed({id}, c) EXCEPT ![c].at = at, ![c].stage = "keep"]
    BY <2>1, <2>2 DEF at
  <2>5. "keep" \in Stages
    BY DEF Stages
  <2>6. cmd' = [Finds!Disturbed({id}, c) EXCEPT ![c] = q]
    BY <2>2, <2>3, <2>4, <2>5 DEF CommandRecord
  <2>7. q \in CommandRecord
    BY <1>1, <2>3, <2>5 DEF CommandRecord
  <2>8. /\ q.stage = "keep" /\ q.at = at /\ q.does = "file" /\ q.id = id /\ q.moves = r.moves
        /\ q.moved = r.moved /\ q.astray = r.astray
    BY <1>1 DEF CommandRecord
  <2> HIDE DEF q
  <2>9. /\ cmd' \in [Commands -> CommandRecord] /\ cmd'[c] = q
        /\ \A d \in Commands \ {c} : cmd'[d] = Finds!Disturbed({id}, c)[d]
    BY <2>2, <2>6, <2>7
  <2>10. /\ filed' \in Directories /\ Orderly(filed') /\ OnlyTouched(id, filed, filed')
         /\ home \in DOMAIN filed' /\ filed'[home] = id
         /\ \A cat : Right(cat, filed) => Right(cat, filed')
    BY <1>1, <2>1, HomeIsAPlace, PlacedIsOrderly
  <2>11. id \in Finds!Range(filed')
    BY <2>10 DEF Finds!Range
  <2>12. r.moved = {} /\ ~r.astray => Right(at, filed')
    <3>1. r.moved = {} /\ ~r.astray => Right(r.at, filed')
      BY <1>1, <2>10 DEF CommandInv, Knows
    <3> QED BY <2>10, <3>1 DEF Right, at
  <2>13. CommandInv(q, filed')
    BY <1>1, <2>3, <2>8, <2>11, <2>12 DEF CommandInv, Proceeds, Knows, Answered
  <2>14. strayed' \in BOOLEAN /\ (~strayed' => Right(cached, filed'))
    BY <1>1, <2>10 DEF CatalogueInv
  <2> QED BY <1>1, <2>7, <2>9, <2>10, <2>13, <2>14, DisturbingStep
<1> QED BY <1>2, <1>3

LEMMA FileRefusedStep ==
  ASSUME CatalogueInv, NEW c \in Commands, Finds!FileRefused(c)
  PROVE  CatalogueInv'
<1>1. /\ cmd' = Finds!Answer(c, "refused") /\ "refused" \in Said
      /\ filed' = filed /\ cached' = cached /\ strayed' = strayed /\ scene' = scene
      /\ cmd[c].does = "file"
  BY DEF Finds!FileRefused, Said
<1>2. Answered(cmd'[c], filed)
  BY <1>1, AnswerStep DEF Answered
<1> QED BY <1>1, <1>2, SayStep

\* The three writes of a catalogue: it is right afterwards, or known not to be.
LEMMA WrittenIsRight ==
  ASSUME CatalogueInv, NEW c \in Commands, cmd[c].stage \in {"note", "keep", "let go"}
  PROVE  /\ Finds!Wrong(c) \in BOOLEAN
         /\ ~Finds!Wrong(c) => Right(cmd[c].at, filed)
         /\ cmd[c].at \in Catalogues /\ NamesPlaces(cmd[c].at)
<1>1. cmd[c] \in CommandRecord /\ CommandInv(cmd[c], filed)
  BY DEF CatalogueInv
<1> QED
  BY <1>1 DEF Finds!Wrong, CommandInv, Knows, Proceeds, CommandRecord

LEMMA WriteStep ==
  ASSUME CatalogueInv, NEW c \in Commands, cmd[c].stage \in {"note", "keep", "let go"},
         filed' = filed, cached' = cmd[c].at, scene' = scene,
         strayed' \in {strayed \/ Finds!Wrong(c), Finds!Wrong(c)},
         cmd' \in [Commands -> CommandRecord],
         \A d \in Commands \ {c} : cmd'[d] = cmd[d],
         CommandInv(cmd'[c], filed)
  PROVE  CatalogueInv'
<1>1. \A d \in Commands : CommandInv(cmd'[d], filed')
  BY OwnStep
<1>2. strayed' \in BOOLEAN /\ (~strayed' => ~Finds!Wrong(c))
  BY DEF CatalogueInv, Finds!Wrong
<1> QED
  BY <1>1, <1>2, WrittenIsRight DEF CatalogueInv

LEMMA NoteStep ==
  ASSUME CatalogueInv, NEW c \in Commands, Finds!Note(c)
  PROVE  CatalogueInv'
<1> DEFINE r == cmd[c]
           q == [r EXCEPT !.stage = "look"]
<1>1. /\ r \in CommandRecord /\ CommandInv(r, filed) /\ r.stage = "note"
      /\ cmd \in [Commands -> CommandRecord] /\ "look" \in Stages
  BY DEF CatalogueInv, Finds!Note, Stages
<1>2. q \in CommandRecord
  BY <1>1 DEF CommandRecord
<1>3. /\ q.stage = "look" /\ q.does = r.does /\ q.id = r.id /\ q.at = r.at /\ q.moves = r.moves
      /\ q.moved = r.moved /\ q.astray = r.astray
  BY <1>1 DEF CommandRecord
<1>4. CommandInv(q, filed)
  BY <1>1, <1>3 DEF CommandInv, Proceeds, Knows, Answered
<1>5. cmd' = [cmd EXCEPT ![c] = q]
  BY <1>1 DEF Finds!Note, CommandRecord
<1> HIDE DEF q
<1>6. cmd' \in [Commands -> CommandRecord] /\ cmd'[c] = q /\ \A d \in Commands \ {c} : cmd'[d] = cmd[d]
  BY <1>1, <1>2, <1>5
<1> QED
  BY <1>1, <1>4, <1>6, WriteStep DEF Finds!Note

LEMMA KeepStep ==
  ASSUME CatalogueInv, NEW c \in Commands, Finds!Keep(c)
  PROVE  CatalogueInv'
<1>1. /\ cmd' = Finds!Answer(c, "filed") /\ "filed" \in Said /\ cmd[c].stage = "keep"
      /\ CommandInv(cmd[c], filed) /\ cmd[c].does = "file"
  BY DEF Finds!Keep, Said, CatalogueInv, CommandInv, Proceeds
<1>2. cmd[c].id \notin cmd[c].moved => cmd[c].id \in Finds!Range(filed)
  BY <1>1 DEF CommandInv, Knows
<1>3. Answered(cmd'[c], filed)
  BY <1>1, <1>2, AnswerStep DEF Answered
<1>4. CommandInv(cmd'[c], filed)
  BY <1>1, <1>3, AnswerStep DEF CommandInv
<1> QED
  BY <1>1, <1>4, AnswerStep, WriteStep DEF Finds!Keep

LEMMA LetGoStep ==
  ASSUME CatalogueInv, NEW c \in Commands, Finds!LetGo(c)
  PROVE  CatalogueInv'
<1>1. /\ cmd' = Finds!Answer(c, "dropped") /\ "dropped" \in Said /\ cmd[c].stage = "let go"
  BY DEF Finds!LetGo, Said
<1>2. CommandInv(cmd'[c], filed)
  BY <1>1, AnswerStep DEF Answered, CommandInv
<1> QED
  BY <1>1, <1>2, AnswerStep, WriteStep DEF Finds!LetGo

LEMMA DropStep ==
  ASSUME CatalogueInv, NEW c \in Commands, Finds!Drop(c)
  PROVE  CatalogueInv'
<1> DEFINE r == cmd[c]
           id == r.id
<1>1. /\ r \in CommandRecord /\ CommandInv(r, filed) /\ r.stage = "look" /\ r.does = "drop"
      /\ id \in Ids /\ NamesPlaces(r.at) /\ r.at \in Catalogues
      /\ cached' = cached /\ scene' = scene /\ cmd \in [Commands -> CommandRecord]
  BY DEF CatalogueInv, Finds!Drop, CommandInv, Proceeds, CommandRecord
<1>2. CASE ~Finds!Found(r.at, id)
  <2>1. cmd' = Finds!Answer(c, "absent") /\ filed' = filed /\ strayed' = strayed /\ "absent" \in Said
    BY <1>2 DEF Finds!Drop, Said
  <2>2. Answered(cmd'[c], filed)
    BY <1>1, <2>1, AnswerStep DEF Answered
  <2> QED BY <1>1, <2>1, <2>2, SayStep
<1>3. CASE Finds!Found(r.at, id)
  <2> DEFINE at == Finds!Restrict(r.at, DOMAIN r.at \ {id})
             q == [r EXCEPT !.at = at, !.stage = "let go"]
             p == r.at[id]
  <2>1. /\ filed' = Finds!Without(p) /\ strayed' = TRUE
        /\ cmd' = [Finds!Disturbed({id}, c) EXCEPT ![c].at = at, ![c].stage = "let go"]
        /\ p \in DOMAIN filed /\ filed[p] = id
    BY <1>3 DEF Finds!Drop, Finds!Found
  <2>2. /\ Finds!Disturbed({id}, c) \in [Commands -> CommandRecord]
        /\ Finds!Disturbed({id}, c)[c] = r
    BY <1>1, ToldOfIt
  <2>3. /\ DOMAIN at = DOMAIN r.at \ {id} /\ \A y \in DOMAIN at : at[y] = r.at[y]
        /\ at = [y \in DOMAIN r.at \ {id} |-> r.at[y]]
    BY DEF Finds!Restrict
  <2>4. at \in Catalogues /\ NamesPlaces(at)
    <3>1. DOMAIN r.at \in SUBSET Ids /\ r.at \in [DOMAIN r.at -> Places]
      BY <1>1, OfACatalogue
    <3>2. at \in [DOMAIN r.at \ {id} -> Places]
      BY <2>3, <3>1
    <3>3. NamesPlaces(at)
      BY <1>1, <2>3 DEF NamesPlaces
    <3> QED BY <3>1, <3>2, <3>3, ACatalogue
  <2> HIDE DEF at
  <2>5. "let go" \in Stages
    BY DEF Stages
  <2>6. cmd' = [Finds!Disturbed({id}, c) EXCEPT ![c] = q]
    BY <2>1, <2>2, <2>4, <2>5 DEF CommandRecord
  <2>7. q \in CommandRecord
    BY <1>1, <2>4, <2>5 DEF CommandRecord
  <2>8. /\ q.stage = "let go" /\ q.at = at /\ q.does = "drop" /\ q.id = id /\ q.moves = r.moves
        /\ q.moved = r.moved /\ q.astray = r.astray
    BY <1>1 DEF CommandRecord
  <2> HIDE DEF q
  <2>9. /\ cmd' \in [Commands -> CommandRecord] /\ cmd'[c] = q
        /\ \A d \in Commands \ {c} : cmd'[d] = Finds!Disturbed({id}, c)[d]
    BY <2>2, <2>6, <2>7
  <2>10. /\ filed' \in Directories /\ Orderly(filed') /\ OnlyTouched(id, filed, filed')
         /\ DOMAIN filed' = DOMAIN filed \ {p} /\ \A y \in DOMAIN filed' : filed'[y] = filed[y]
    BY <2>1, WithoutIsOrderly
  <2>11. r.moved = {} /\ ~r.astray => Right(at, filed')
    <3>1. r.moved = {} /\ ~r.astray => Right(r.at, filed)
      BY <1>1 DEF CommandInv, Knows
    <3> QED BY <2>1, <2>3, <2>10, <3>1 DEF Right
  <2>12. CommandInv(q, filed')
    BY <1>1, <2>4, <2>8, <2>11 DEF CommandInv, Proceeds, Knows, Answered
  <2> QED BY <1>1, <2>1, <2>7, <2>9, <2>10, <2>12, DisturbingStep
<1> QED BY <1>2, <1>3

LEMMA PlanMovesStep ==
  ASSUME CatalogueInv, NEW c \in Commands, Finds!PlanMoves(c)
  PROVE  CatalogueInv'
<1> DEFINE r == cmd[c]
           moves == {<<p, Finds!Goes(p)>> : p \in Finds!Arrangement}
           q == [r EXCEPT !.moves = moves, !.stage = "walk"]
<1>1. /\ r \in CommandRecord /\ CommandInv(r, filed) /\ r.stage = "plan" /\ r.does = "arrange"
      /\ cmd \in [Commands -> CommandRecord] /\ "walk" \in Stages
      /\ filed' = filed /\ cached' = cached /\ strayed' = strayed /\ scene' = scene
  BY DEF CatalogueInv, Finds!PlanMoves, Stages, CommandInv, Proceeds
<1>2. \A m \in moves : m \in Places \X Places /\ Harmless(m)
  <2> SUFFICES ASSUME NEW p \in Finds!Arrangement
               PROVE  <<p, Finds!Goes(p)>> \in Places \X Places /\ Harmless(<<p, Finds!Goes(p)>>)
    OBVIOUS
  <2> QED BY GoesSomewhere DEF Finds!Arrangement
<1>3. moves \in Renames
  BY <1>2 DEF Renames
<1>4. cmd' = [cmd EXCEPT ![c].moves = moves, ![c].stage = "walk"]
  BY DEF Finds!PlanMoves
<1> HIDE DEF moves
<1>5. q \in CommandRecord
  BY <1>1, <1>3 DEF CommandRecord
<1>6. /\ q.stage = "walk" /\ q.does = "arrange" /\ q.id = r.id /\ q.at = r.at /\ q.moves = moves
      /\ q.moved = r.moved /\ q.astray = r.astray
  BY <1>1 DEF CommandRecord
<1>7. cmd' = [cmd EXCEPT ![c] = q]
  BY <1>1, <1>3, <1>4 DEF CommandRecord
<1> HIDE DEF q
<1>8. CommandInv(q, filed)
  BY <1>1, <1>2, <1>6 DEF CommandInv, Proceeds, Knows, Answered
<1>9. cmd' \in [Commands -> CommandRecord] /\ cmd'[c] = q /\ \A d \in Commands \ {c} : cmd'[d] = cmd[d]
  BY <1>1, <1>5, <1>7
<1> QED BY <1>1, <1>8, <1>9, QuietStep

LEMMA MoveStep ==
  ASSUME CatalogueInv, NEW c \in Commands, Finds!Move(c)
  PROVE  CatalogueInv'
<1> DEFINE r == cmd[c]
<1>1. PICK m \in r.moves : Finds!MoveOne(c, m)
  BY DEF Finds!Move
<1>2. /\ r \in CommandRecord /\ CommandInv(r, filed) /\ r.stage = "look" /\ r.does = "arrange"
      /\ NamesPlaces(r.at) /\ r.at \in Catalogues /\ r.moves \in Renames /\ Harmless(m)
      /\ cached' = cached /\ scene' = scene /\ cmd \in [Commands -> CommandRecord]
  BY DEF CatalogueInv, Finds!Move, CommandInv, Proceeds, CommandRecord
<1> DEFINE from == m[1]
           to == m[2]
           moves == r.moves \ {m}
<1>3. moves \in Renames /\ to \in Places /\ \A n \in moves : Harmless(n)
  BY <1>2 DEF Renames, CommandInv, Proceeds
<1>4. CASE /\ to \in DOMAIN filed
           /\ cmd' = [cmd EXCEPT ![c].moves = @ \ {m}]
           /\ filed' = filed /\ strayed' = strayed
  <2> DEFINE q == [r EXCEPT !.moves = moves]
  <2>1. q \in CommandRecord
    BY <1>2, <1>3 DEF CommandRecord
  <2>2. /\ q.stage = "look" /\ q.does = "arrange" /\ q.id = r.id /\ q.at = r.at /\ q.moves = moves
        /\ q.moved = r.moved /\ q.astray = r.astray
    BY <1>2 DEF CommandRecord
  <2>3. cmd' = [cmd EXCEPT ![c] = q]
    BY <1>2, <1>3, <1>4 DEF CommandRecord
  <2> HIDE DEF q
  <2>4. CommandInv(q, filed)
    BY <1>2, <1>3, <2>2 DEF CommandInv, Proceeds, Knows, Answered
  <2>5. cmd' \in [Commands -> CommandRecord] /\ cmd'[c] = q /\ \A d \in Commands \ {c} : cmd'[d] = cmd[d]
    BY <1>2, <2>1, <2>3
  <2> QED BY <1>2, <1>4, <2>4, <2>5, QuietStep
<1>5. CASE cmd' = Finds!Answer(c, "failed") /\ filed' = filed /\ strayed' = strayed
  <2>1. "failed" \in Said
    BY DEF Said
  <2>2. Answered(cmd'[c], filed)
    BY <1>2, <1>5, <2>1, AnswerStep DEF Answered
  <2> QED BY <1>2, <1>5, <2>1, <2>2, SayStep
<1>6. CASE /\ to \notin DOMAIN filed /\ from \in DOMAIN filed
           /\ filed' = Finds!Renamed(from, to) /\ strayed' = TRUE
           /\ cmd' = [Finds!Disturbed({filed[from]}, c) EXCEPT
                         ![c].at = Finds!Told(cmd[c].at, from, to), ![c].moves = @ \ {m}]
  <2> DEFINE at == Finds!Told(r.at, from, to)
             x == filed[from]
             q == [r EXCEPT !.at = at, !.moves = moves]
  <2>1. x \in Ids
    BY <1>6, OfADirectory DEF CatalogueInv
  <2>2. /\ Finds!Disturbed({x}, c) \in [Commands -> CommandRecord]
        /\ Finds!Disturbed({x}, c)[c] = r
    BY <1>2, <2>1, ToldOfIt
  <2>3. /\ DOMAIN at = DOMAIN r.at
        /\ \A y \in DOMAIN at : at[y] = IF r.at[y] = from THEN to ELSE r.at[y]
        /\ at = [y \in DOMAIN r.at |-> IF r.at[y] = from THEN to ELSE r.at[y]]
    BY DEF Finds!Told
  <2>4. at \in Catalogues /\ NamesPlaces(at)
    <3>1. DOMAIN r.at \in SUBSET Ids /\ r.at \in [DOMAIN r.at -> Places]
      BY <1>2, OfACatalogue
    <3>2. at \in [DOMAIN r.at -> Places]
      BY <1>3, <2>3, <3>1
    <3>3. NamesPlaces(at)
      BY <1>2, <2>3 DEF NamesPlaces, Harmless
    <3> QED BY <3>1, <3>2, <3>3, ACatalogue
  <2> HIDE DEF at
  <2>5. cmd' = [Finds!Disturbed({x}, c) EXCEPT ![c].at = at, ![c].moves = moves]
    BY <1>6, <2>2 DEF at
  <2>6. cmd' = [Finds!Disturbed({x}, c) EXCEPT ![c] = q]
    BY <1>3, <2>2, <2>4, <2>5 DEF CommandRecord
  <2>7. q \in CommandRecord
    BY <1>2, <1>3, <2>4 DEF CommandRecord
  <2>8. /\ q.stage = "look" /\ q.at = at /\ q.does = "arrange" /\ q.id = r.id /\ q.moves = moves
        /\ q.moved = r.moved /\ q.astray = r.astray
    BY <1>2 DEF CommandRecord
  <2> HIDE DEF q
  <2>9. /\ cmd' \in [Commands -> CommandRecord] /\ cmd'[c] = q
        /\ \A d \in Commands \ {c} : cmd'[d] = Finds!Disturbed({x}, c)[d]
    BY <2>2, <2>6, <2>7
  <2>10. /\ to \in DOMAIN Beside <=> x \in Payloads
         /\ \A s \in Documents : to = Top[s] => x = s
    BY <1>2, <1>6 DEF Harmless, CatalogueInv, Orderly
  <2>11. /\ filed' \in Directories /\ Orderly(filed') /\ OnlyTouched(x, filed, filed')
         /\ DOMAIN filed' = (DOMAIN filed \ {from}) \cup {to} /\ filed'[to] = x
         /\ \A y \in DOMAIN filed \ {from} : filed'[y] = filed[y]
    <3>1. /\ from \in DOMAIN filed /\ to \in Places /\ to \notin DOMAIN filed
          /\ filed' = Finds!Renamed(from, to)
      BY <1>3, <1>6
    <3> HIDE DEF from, to
    <3>2. /\ to \in DOMAIN Beside <=> filed[from] \in Payloads
          /\ \A s \in Documents : to = Top[s] => filed[from] = s
      BY <2>10
    <3>3. /\ filed' \in Directories /\ Orderly(filed')
          /\ OnlyTouched(filed[from], filed, filed')
          /\ DOMAIN filed' = (DOMAIN filed \ {from}) \cup {to} /\ filed'[to] = filed[from]
          /\ \A y \in DOMAIN filed \ {from} : filed'[y] = filed[y]
      BY <3>1, <3>2, RenamedIsOrderly
    <3> QED BY <3>3
  <2>12. r.moved = {} /\ ~r.astray => Right(at, filed')
    <3>1. r.moved = {} /\ ~r.astray => Right(r.at, filed)
      BY <1>2 DEF CommandInv, Knows
    <3> QED BY <1>6, <2>3, <2>11, <3>1 DEF Right
  <2>13. CommandInv(q, filed')
    BY <1>2, <1>3, <2>4, <2>8, <2>12 DEF CommandInv, Proceeds, Knows, Answered
  <2> QED BY <1>2, <1>6, <2>1, <2>7, <2>9, <2>11, <2>13, DisturbingStep
<1> QED
  BY <1>1, <1>4, <1>5, <1>6 DEF Finds!MoveOne

LEMMA EndArrangeStep ==
  ASSUME CatalogueInv, NEW c \in Commands, Finds!EndArrange(c)
  PROVE  CatalogueInv'
<1> DEFINE r == cmd[c]
           q == [r EXCEPT !.stage = "let go"]
<1>1. /\ r \in CommandRecord /\ CommandInv(r, filed) /\ r.stage = "look" /\ r.does = "arrange"
      /\ cmd \in [Commands -> CommandRecord] /\ "let go" \in Stages
      /\ filed' = filed /\ cached' = cached /\ strayed' = strayed /\ scene' = scene
  BY DEF CatalogueInv, Finds!EndArrange, Stages
<1>2. q \in CommandRecord
  BY <1>1 DEF CommandRecord
<1>3. /\ q.stage = "let go" /\ q.does = r.does /\ q.id = r.id /\ q.at = r.at /\ q.moves = r.moves
      /\ q.moved = r.moved /\ q.astray = r.astray
  BY <1>1 DEF CommandRecord
<1>4. CommandInv(q, filed)
  BY <1>1, <1>3 DEF CommandInv, Proceeds, Knows, Answered
<1>5. cmd' = [cmd EXCEPT ![c] = q]
  BY <1>1 DEF Finds!EndArrange, CommandRecord
<1> HIDE DEF q
<1>6. cmd' \in [Commands -> CommandRecord] /\ cmd'[c] = q /\ \A d \in Commands \ {c} : cmd'[d] = cmd[d]
  BY <1>1, <1>2, <1>5
<1> QED BY <1>1, <1>4, <1>6, QuietStep

LEMMA StopStep ==
  ASSUME CatalogueInv, NEW c \in Commands, Finds!Stop(c)
  PROVE  CatalogueInv'
<1>1. /\ cmd' = [cmd EXCEPT ![c] = Finds!Idle]
      /\ filed' = filed /\ cached' = cached /\ strayed' = strayed /\ scene' = scene
  BY DEF Finds!Stop
<1>2. CommandInv(Finds!Idle, filed)
  BY IdleCommand, NothingIsACatalogue DEF CommandInv, Proceeds, Knows, Answered
<1>3. /\ cmd' \in [Commands -> CommandRecord] /\ cmd'[c] = Finds!Idle
      /\ \A d \in Commands \ {c} : cmd'[d] = cmd[d]
  BY <1>1, IdleCommand DEF CatalogueInv
<1> QED BY <1>1, <1>2, <1>3, QuietStep

-----------------------------------------------------------------------------
\* A hand, a syncer, and a cleared cache.
LEMMA PutStep ==
  ASSUME CatalogueInv, NEW x \in Ids, NEW after, Finds!Put(x, after),
         after \in Directories, Orderly(after), OnlyTouched(x, filed, after),
         DOMAIN filed \subseteq DOMAIN after => \A at : Right(at, filed) => Right(at, after)
  PROVE  CatalogueInv'
<1>1. /\ filed' = after /\ cached' = cached /\ scene' = scene
      /\ cmd' = Finds!Disturbed({x}, "nobody")
      /\ strayed' = (strayed \/ ~(DOMAIN filed \subseteq DOMAIN after))
  BY DEF Finds!Put
<1>2. cmd' \in [Commands -> CommandRecord]
  BY <1>1, ToldOfIt
<1>3. \A d \in Commands : CommandInv(cmd'[d], filed')
  BY <1>1, <1>2, TouchingStep, DocumentsStandIn
<1>4. strayed' \in BOOLEAN /\ (~strayed' => Right(cached', filed'))
  BY <1>1 DEF CatalogueInv
<1> QED BY <1>1, <1>2, <1>3, <1>4 DEF CatalogueInv

LEMMA DeliverStep ==
  ASSUME CatalogueInv, Finds!Deliver
  PROVE  CatalogueInv'
<1>1. PICK id \in scene : \E p \in Spots[id] \ DOMAIN filed : Finds!Put(id, Finds!Placed(p, id))
  BY DEF Finds!Deliver
<1>2. PICK p \in Spots[id] \ DOMAIN filed : Finds!Put(id, Finds!Placed(p, id))
  BY <1>1
<1>3. id \in Ids
  BY DocumentsStandIn DEF CatalogueInv, Ids
<1>4. /\ p \in Places /\ (p \in DOMAIN Beside <=> id \in Payloads)
      /\ \A s \in Documents : p = Top[s] => id = s
  BY <1>2, <1>3, SpotsArePlaces
<1> DEFINE after == Finds!Placed(p, id)
<1>5. /\ after \in Directories /\ Orderly(after) /\ OnlyTouched(id, filed, after)
      /\ \A at : Right(at, filed) => Right(at, after)
  BY <1>2, <1>3, <1>4, PlacedIsOrderly
<1> HIDE DEF after
<1>6. Finds!Put(id, after)
  BY <1>2 DEF after
<1> QED BY <1>3, <1>5, <1>6, PutStep

LEMMA RefileStep ==
  ASSUME CatalogueInv, Finds!Refile
  PROVE  CatalogueInv'
<1>1. PICK p \in DOMAIN filed :
        \E q \in Spots[filed[p]] \ DOMAIN filed : Finds!Put(filed[p], Finds!Renamed(p, q))
  BY DEF Finds!Refile
<1>2. PICK q \in Spots[filed[p]] \ DOMAIN filed : Finds!Put(filed[p], Finds!Renamed(p, q))
  BY <1>1
<1>3. filed[p] \in Ids
  BY OfADirectory DEF CatalogueInv
<1>4. /\ q \in Places /\ (q \in DOMAIN Beside <=> filed[p] \in Payloads)
      /\ \A s \in Documents : q = Top[s] => filed[p] = s
  BY <1>2, <1>3, SpotsArePlaces
<1> DEFINE after == Finds!Renamed(p, q)
<1>5. /\ after \in Directories /\ Orderly(after) /\ OnlyTouched(filed[p], filed, after)
      /\ DOMAIN after = (DOMAIN filed \ {p}) \cup {q}
  BY <1>2, <1>3, <1>4, RenamedIsOrderly
<1>7. ~(DOMAIN filed \subseteq DOMAIN after)
  BY <1>2, <1>5
<1> HIDE DEF after
<1>6. Finds!Put(filed[p], after)
  BY <1>2 DEF after
<1> QED BY <1>3, <1>5, <1>6, <1>7, PutStep

LEMMA TakeAwayStep ==
  ASSUME CatalogueInv, Finds!TakeAway
  PROVE  CatalogueInv'
<1>1. PICK p \in DOMAIN filed : Finds!Put(filed[p], Finds!Without(p))
  BY DEF Finds!TakeAway
<1>2. filed[p] \in Ids
  BY OfADirectory DEF CatalogueInv
<1> DEFINE after == Finds!Without(p)
<1>3. /\ after \in Directories /\ Orderly(after) /\ OnlyTouched(filed[p], filed, after)
      /\ ~(DOMAIN filed \subseteq DOMAIN after)
  BY <1>1, WithoutIsOrderly
<1> HIDE DEF after
<1>4. Finds!Put(filed[p], after)
  BY <1>1 DEF after
<1> QED BY <1>2, <1>3, <1>4, PutStep

LEMMA ClearStep ==
  ASSUME CatalogueInv, Finds!Clear
  PROVE  CatalogueInv'
<1>1. /\ cached' = Finds!Nothing /\ strayed' = FALSE
      /\ filed' = filed /\ cmd' = cmd /\ scene' = scene
  BY DEF Finds!Clear
<1> QED
  BY <1>1, NothingIsACatalogue DEF CatalogueInv, Right
-----------------------------------------------------------------------------
LEMMA CatalogueInvInit ==
  ASSUME Finds!Init
  PROVE  CatalogueInv
<1>1. /\ filed = Finds!Nothing /\ cached = Finds!Nothing /\ strayed = FALSE /\ scene \in Scenes
      /\ cmd = [c \in Commands |-> Finds!Idle]
  BY DEF Finds!Init
<1>2. CommandInv(Finds!Idle, filed)
  BY IdleCommand, NothingIsACatalogue DEF CommandInv, Proceeds, Knows, Answered
<1>3. Orderly(filed) /\ Right(cached, filed)
  BY <1>1, NothingIsACatalogue DEF Orderly, Right
<1> QED
  BY <1>1, <1>2, <1>3, NothingIsACatalogue, IdleCommand DEF CatalogueInv

\* Every step of every command, and everything done to the directory beside
\* them, keeps the invariant.
LEMMA CatalogueInvNext ==
  ASSUME CatalogueInv, Finds!Next
  PROVE  CatalogueInv'
<1>1. ASSUME NEW c \in Commands,
             \/ Finds!Start(c) \/ Finds!StartWalking(c) \/ Finds!Take(c) \/ Finds!Upgrade(c)
             \/ Finds!Note(c) \/ Finds!Read(c) \/ Finds!Scan(c) \/ Finds!Sift(c)
             \/ Finds!EndScan(c) \/ Finds!HandOver(c) \/ Finds!Holds(c)
             \/ Finds!File(c) \/ Finds!FileRefused(c) \/ Finds!Keep(c) \/ Finds!Drop(c)
             \/ Finds!LetGo(c) \/ Finds!PlanMoves(c) \/ Finds!Move(c) \/ Finds!EndArrange(c)
             \/ Finds!Stop(c)
      PROVE  CatalogueInv'
  BY <1>1, StartStep, StartWalkingStep, TakeStep, UpgradeStep, NoteStep, ReadStep, ScanStep,
     SiftStep, EndScanStep, HandOverStep, HoldsStep, FileStep, FileRefusedStep, KeepStep, DropStep, LetGoStep, PlanMovesStep,
     MoveStep, EndArrangeStep, StopStep
<1>2. CASE Finds!Deliver \/ Finds!Refile \/ Finds!TakeAway \/ Finds!Clear
  BY <1>2, DeliverStep, RefileStep, TakeAwayStep, ClearStep
<1> QED
  BY <1>1, <1>2 DEF Finds!Next

LEMMA CatalogueInvStutters ==
  ASSUME CatalogueInv, UNCHANGED findsVars
  PROVE  CatalogueInv'
  BY DEF CatalogueInv, findsVars

\* What the parts of the invariant say of what a command has said.
LEMMA CatalogueInvSuffices ==
  ASSUME CatalogueInv
  PROVE  /\ Finds!TypeOK /\ Finds!NothingHereIsMissed /\ Finds!FiledIsHere
         /\ Finds!OnlyReuseHidesBytes /\ Finds!LinesStayForgotten /\ Finds!BytesStayForgotten
<1>1. \A c \in Commands : cmd[c] \in CommandRecord /\ CommandInv(cmd[c], filed)
  BY DEF CatalogueInv
<1>2. \A c \in Commands : Proceeds(cmd[c]) /\ Answered(cmd[c], filed)
  BY <1>1 DEF CommandInv
<1>3. Finds!TypeOK
  <2>1. Finds!Here \subseteq Finds!Ids
    BY OfADirectory DEF CatalogueInv, Finds!Here, Finds!Range, Finds!Ids, Ids
  <2>2. DOMAIN cached \subseteq Finds!Ids
    BY OfACatalogue DEF CatalogueInv, Finds!Ids, Ids
  <2>3. \A c \in Commands : DOMAIN cmd[c].at \subseteq Finds!Ids
    <3>1. \A c \in Commands : cmd[c].at \in Catalogues
      BY <1>1 DEF CommandRecord
    <3> QED BY <3>1, OfACatalogue DEF Finds!Ids, Ids
  <2> QED BY <1>2, <2>1, <2>2, <2>3 DEF Finds!TypeOK, Proceeds, NamesPlaces
<1>4. Finds!NothingHereIsMissed /\ Finds!FiledIsHere
  BY <1>2 DEF Answered, Finds!NothingHereIsMissed, Finds!FiledIsHere, Finds!Done,
       Finds!Undisturbed, Finds!Here
<1>5. Finds!OnlyReuseHidesBytes
  BY <1>2 DEF Answered, Finds!OnlyReuseHidesBytes, Finds!CalledElsewhere, Finds!Done, Finds!Here,
       Forgetters
<1>6. Finds!LinesStayForgotten
  BY <1>2 DEF Answered, Finds!LinesStayForgotten, Finds!Done, Finds!Undisturbed, Forgetters, AtTheTop
<1>7. Finds!BytesStayForgotten
  BY <1>2 DEF Answered, Finds!BytesStayForgotten, Finds!Undisturbed, Forgetters, Uncovered
<1> QED BY <1>3, <1>4, <1>5, <1>6, <1>7

\* What store/mod.rs and store/catalogue.rs answer of contents, for any digests,
\* places and commands, however many run beside each other, are stopped or have
\* files moved from under them.
THEOREM ContentsFound == MCSpec => []ContentsAreFound
<1>1. MCInit => CatalogueInv
  BY CatalogueInvInit DEF MCInit
<1>2. CatalogueInv /\ [MCNext]_<<part, vars, findsVars, opensVars>> => CatalogueInv'
  BY CatalogueInvNext, CatalogueInvStutters DEF MCNext
<1>3. CatalogueInv => ContentsAreFound
  BY CatalogueInvSuffices DEF ContentsAreFound
<1> QED
  BY <1>1, <1>2, <1>3, PTL DEF MCSpec
-----------------------------------------------------------------------------
(* Seen from outside the directory is a set of contents.                   *)

View == [does : Asked, id : Ids \cup {"none"}, stage : {"idle", "asked", "acted", "done"}, said : Said,
         stirred : SUBSET Ids]

LEMMA SeenIsAView ==
  ASSUME NEW r \in CommandRecord
  PROVE  /\ Seen(r) \in View
         /\ Seen(r).does = r.does /\ Seen(r).id = r.id /\ Seen(r).said = r.said
         /\ Seen(r).stage = Progress(r)
         /\ Seen(r).stirred = IF Progress(r) = "asked" THEN r.moved ELSE {}
<1>1. Progress(r) \in {"idle", "asked", "acted", "done"}
  BY DEF Progress
<1> QED
  BY <1>1 DEF Seen, View, CommandRecord

\* A command that has ended is seen to have said what it says.
LEMMA EndIsSeen ==
  ASSUME NEW r \in CommandRecord, NEW q \in CommandRecord, NEW said \in Said,
         q.does = r.does, q.id = r.id, q.stage = "done", q.said = said
  PROVE  Seen(q) = [Seen(r) EXCEPT !.stage = "done", !.said = said, !.stirred = {}]
<1> DEFINE v == [Seen(r) EXCEPT !.stage = "done", !.said = said, !.stirred = {}]
<1>1. Seen(r) \in View /\ Seen(q) \in View /\ Progress(q) = "done"
  BY SeenIsAView DEF Progress
<1>2. /\ v \in View /\ v.does = r.does /\ v.id = r.id /\ v.stage = "done" /\ v.said = said
      /\ v.stirred = {}
  BY <1>1, SeenIsAView DEF View
<1> HIDE DEF v
<1>3. v = Seen(q)
  BY <1>1, <1>2, SeenIsAView DEF View
<1> QED BY <1>3 DEF v

LEMMA SeenAfter ==
  ASSUME NEW c \in Commands, \A d \in Commands \ {c} : Seen(cmd'[d]) = Seen(cmd[d])
  PROVE  Asking' = [Asking EXCEPT ![c] = Seen(cmd'[c])] /\ Asking'[c] = Seen(cmd'[c])
  BY DEF Asking

\* What others bring, take or move is seen of whoever is asked something.
LEMMA TellingStirs ==
  ASSUME CatalogueInv, NEW x \in Ids, NEW c, NEW d \in Commands
  PROVE  Seen(Finds!Disturbed({x}, c)[d]) = Promises!Stirring(x, c)[d]
<1> DEFINE r == cmd[d]
           q == [r EXCEPT !.moved = @ \cup {x}]
<1>1. r \in CommandRecord /\ Asking[d] = Seen(r) /\ Asking[d].stage = Progress(r)
  BY SeenIsAView DEF CatalogueInv, Asking
<1>2. CASE d = c \/ r.stage = "idle"
  <2>1. Finds!Disturbed({x}, c)[d] = r
    BY <1>2 DEF Finds!Disturbed
  <2>2. d = c \/ Asking[d].stage # "asked"
    BY <1>1, <1>2 DEF Progress
  <2> QED BY <1>1, <2>1, <2>2 DEF Promises!Stirring
<1>3. CASE ~(d = c \/ r.stage = "idle")
  <2>1. Finds!Disturbed({x}, c)[d] = q
    BY <1>3 DEF Finds!Disturbed
  <2>2. /\ q \in CommandRecord /\ q.does = r.does /\ q.id = r.id /\ q.stage = r.stage /\ q.said = r.said
        /\ q.moved = r.moved \cup {x}
    BY <1>1 DEF CommandRecord
  <2> HIDE DEF q
  <2>3. Progress(q) = Progress(r)
    BY <2>2 DEF Progress
  <2>4. CASE Progress(r) # "asked"
    <3>1. Seen(q) = Seen(r)
      BY <2>2, <2>3, <2>4 DEF Seen
    <3> QED BY <1>1, <2>1, <2>4, <3>1 DEF Promises!Stirring
  <2>5. CASE Progress(r) = "asked"
    <3> DEFINE v == [Seen(r) EXCEPT !.stirred = @ \cup {x}]
    <3>1. Seen(r) \in View /\ Seen(q) \in View
      BY <1>1, <2>2, SeenIsAView
    <3>2. /\ v \in View /\ v.does = Seen(r).does /\ v.id = Seen(r).id /\ v.stage = Seen(r).stage
          /\ v.said = Seen(r).said /\ v.stirred = Seen(r).stirred \cup {x}
      BY <3>1 DEF View
    <3> HIDE DEF v
    <3>3. v = Seen(q)
      BY <1>1, <2>2, <2>3, <2>5, <3>1, <3>2, SeenIsAView DEF View
    <3> QED BY <1>1, <1>3, <2>1, <2>5, <3>3 DEF Promises!Stirring, v
  <2> QED BY <2>4, <2>5
<1> QED BY <1>2, <1>3

LEMMA StirringIs ==
  ASSUME NEW x, NEW c
  PROVE  /\ Promises!Stirring(x, c) = [d \in Commands |-> Promises!Stirring(x, c)[d]]
         /\ c \in Commands => Promises!Stirring(x, c)[c] = Asking[c]
  BY DEF Promises!Stirring

\* What one that is asked something may go by.
LEMMA WhatIsStirred ==
  ASSUME CatalogueInv, NEW c \in Commands, Progress(cmd[c]) = "asked"
  PROVE  /\ Asking[c].stirred = cmd[c].moved
         /\ Promises!EverHere(c) = Finds!Here \cup cmd[c].moved
         /\ Promises!AllAlong(c) = Finds!Here \ cmd[c].moved
<1>1. Asking[c].stirred = cmd[c].moved
  BY SeenIsAView DEF Asking, CatalogueInv
<1> QED BY <1>1 DEF Promises!EverHere, Promises!AllAlong

\* A step inside a command.
LEMMA InsideStep ==
  ASSUME CatalogueInv, NEW c \in Commands, filed' = filed, acts' = acts,
         \A d \in Commands \ {c} : cmd'[d] = cmd[d],
         Seen(cmd'[c]) = Seen(cmd[c])
  PROVE  UNCHANGED Promises!vars
<1>1. Asking' = Asking
  BY DEF Asking
<1>2. Finds!Here' = Finds!Here
  BY DEF Finds!Here
<1> QED BY <1>1, <1>2 DEF Promises!vars

LEMMA AsksStep ==
  ASSUME CatalogueInv, NEW c \in Commands, NEW r \in CommandRecord,
         filed' = filed, acts' = acts, cmd' = [cmd EXCEPT ![c] = r],
         cmd[c].stage \in {"idle", "done"},
         r.does \in {"read", "file", "holds", "drop", "arrange"},
         r.stage \in {"take", "walk", "plan"}, r.said = "nothing", r.moved = {}
  PROVE  Promises!Ask(c)
<1>1. cmd'[c] = r /\ \A d \in Commands \ {c} : cmd'[d] = cmd[d]
  BY DEF CatalogueInv
<1>2. Asking' = [Asking EXCEPT ![c] = Seen(r)] /\ Asking'[c] = Seen(r)
  BY <1>1, SeenAfter
<1>3. Seen(r) \in Promises!Questions
  <2>1. Seen(r) = [does |-> r.does, id |-> r.id, stage |-> "asked", said |-> "nothing",
                 stirred |-> {}]
    BY DEF Seen, Progress
  <2>2. r.id \in Ids \cup {"none"}
    BY DEF CommandRecord
  <2> QED BY <2>1, <2>2 DEF Promises!Questions, Promises!Ids, Ids
<1>4. Asking[c].stage \in {"idle", "done"}
  BY DEF Asking, Seen, Progress
<1>5. Finds!Here' = Finds!Here
  BY DEF Finds!Here
<1> QED BY <1>2, <1>3, <1>4, <1>5 DEF Promises!Ask

\* What a command says has to be so of the contents as they stand.
LEMMA SaysStep ==
  ASSUME CatalogueInv, NEW c \in Commands, NEW said \in Said, cmd' = Finds!Answer(c, said),
         filed' = filed, acts' = acts,
         cmd[c].stage \notin {"idle", "done", "keep"},
         ~(cmd[c].stage = "let go" /\ cmd[c].does = "drop"),
         Promises!MaySay(c, cmd[c].does, cmd[c].id, said)
  PROVE  Promises!Say(c)
<1>1. /\ \A d \in Commands \ {c} : cmd'[d] = cmd[d]
      /\ cmd'[c].stage = "done" /\ cmd'[c].said = said
      /\ cmd'[c].does = cmd[c].does /\ cmd'[c].id = cmd[c].id
  BY AnswerStep
<1>2. /\ Asking[c] = Seen(cmd[c]) /\ Asking[c].does = cmd[c].does /\ Asking[c].id = cmd[c].id
      /\ Asking[c].stage = "asked"
  BY SeenIsAView DEF Asking, CatalogueInv, Progress
<1>3. Asking' = [Asking EXCEPT ![c] = Seen(cmd'[c])] /\ Asking'[c] = Seen(cmd'[c])
  BY <1>1, SeenAfter
<1>4. /\ Asking'[c].stage = "done" /\ Asking'[c].said = said
      /\ Seen(cmd'[c]) = [Seen(cmd[c]) EXCEPT !.stage = "done", !.said = said, !.stirred = {}]
  <2>1. cmd[c] \in CommandRecord /\ cmd'[c] \in CommandRecord
    BY AnswerStep DEF CatalogueInv
  <2> QED BY <1>1, <1>3, <2>1, EndIsSeen, SeenIsAView DEF Progress
<1>5. Asking' = [Asking EXCEPT ![c].stage = "done", ![c].said = said, ![c].stirred = {}]
  BY <1>2, <1>3, <1>4 DEF Asking
<1>6. Finds!Here' = Finds!Here
  BY DEF Finds!Here
<1> QED BY <1>2, <1>4, <1>5, <1>6 DEF Promises!Say

LEMMA EndsStep ==
  ASSUME CatalogueInv, NEW c \in Commands, filed' = filed, acts' = acts,
         \/ cmd[c].stage = "keep" /\ cmd[c].does = "file" /\ cmd' = Finds!Answer(c, "filed")
         \/ cmd[c].stage = "let go" /\ cmd[c].does = "drop" /\ cmd' = Finds!Answer(c, "dropped")
  PROVE  Promises!End(c)
<1> DEFINE said == IF cmd[c].does = "file" THEN "filed" ELSE "dropped"
<1>0. cmd' = Finds!Answer(c, said) /\ said \in Said
  BY DEF Said
<1>1. /\ \A d \in Commands \ {c} : cmd'[d] = cmd[d]
      /\ cmd'[c].stage = "done" /\ cmd'[c].said = said
      /\ cmd'[c].does = cmd[c].does /\ cmd'[c].id = cmd[c].id
  BY <1>0, AnswerStep
<1>2. /\ Asking[c] = Seen(cmd[c]) /\ Asking[c].does = cmd[c].does /\ Asking[c].stage = "acted"
  BY SeenIsAView DEF Asking, CatalogueInv, Progress
<1>3. Asking' = [Asking EXCEPT ![c] = Seen(cmd'[c])]
  BY <1>1, SeenAfter
<1>4. Seen(cmd'[c]) = [Seen(cmd[c]) EXCEPT !.stage = "done", !.said = said]
  <2>1. cmd[c] \in CommandRecord /\ cmd'[c] \in CommandRecord
    BY <1>0, AnswerStep DEF CatalogueInv
  <2>2. Seen(cmd'[c]) = [Seen(cmd[c]) EXCEPT !.stage = "done", !.said = said, !.stirred = {}]
    BY <1>0, <1>1, <2>1, EndIsSeen
  <2>3. Seen(cmd[c]) \in View /\ Seen(cmd[c]).stirred = {}
    BY <1>2, <2>1, SeenIsAView DEF Asking
  <2> QED BY <2>2, <2>3 DEF View
<1>5. Asking' = [Asking EXCEPT ![c].stage = "done", ![c].said = said]
  BY <1>2, <1>3, <1>4 DEF Asking
<1>6. Finds!Here' = Finds!Here
  BY DEF Finds!Here
<1>7. said = IF Asking[c].does = "file" THEN "filed" ELSE "dropped"
  BY <1>2
<1> HIDE DEF said
<1>8. Asking' = [Asking EXCEPT ![c].stage = "done",
                               ![c].said = IF Asking[c].does = "file" THEN "filed" ELSE "dropped"]
  BY <1>5, <1>7
<1> QED BY <1>2, <1>6, <1>8 DEF Promises!End

\* The steps a command takes inside: it looks, and has not said anything yet.
Looking == {"take", "walk", "note", "look", "scan", "sift", "found"}

LEMMA LooksStep ==
  ASSUME CatalogueInv, NEW c \in Commands, filed' = filed, acts' = acts,
         cmd[c].stage \in Looking, cmd'[c].stage \in Looking,
         cmd'[c].does = cmd[c].does, cmd'[c].id = cmd[c].id, cmd'[c].said = cmd[c].said,
         cmd'[c].moved = cmd[c].moved,
         \A d \in Commands \ {c} : cmd'[d] = cmd[d]
  PROVE  UNCHANGED Promises!vars
<1>1. Progress(cmd'[c]) = Progress(cmd[c])
  BY DEF Progress, Looking
<1> QED BY <1>1, InsideStep DEF Seen

LEMMA LookAgainStep ==
  ASSUME CatalogueInv, NEW c \in Commands, filed' = filed, acts' = acts, NEW stage \in Looking,
         cmd[c].stage \in Looking, cmd' = [cmd EXCEPT ![c].stage = stage]
  PROVE  UNCHANGED Promises!vars
<1>1. /\ \A d \in Commands \ {c} : cmd'[d] = cmd[d]
      /\ cmd'[c].does = cmd[c].does /\ cmd'[c].id = cmd[c].id /\ cmd'[c].said = cmd[c].said
      /\ cmd'[c].moved = cmd[c].moved /\ cmd'[c].stage = stage
  BY DEF CatalogueInv, CommandRecord
<1> QED BY <1>1, LooksStep

LEMMA TakeShows ==
  ASSUME CatalogueInv, NEW c \in Commands, Finds!Take(c)
  PROVE  UNCHANGED Promises!vars
<1> DEFINE at == IF cached = Finds!Nothing THEN Finds!Pass ELSE Finds!WithTheTop(cached)
<1>1. PICK stage \in {"note", "look"} :
        cmd' = [cmd EXCEPT ![c].at = at, ![c].astray = strayed, ![c].stage = stage]
  BY DEF Finds!Take
<1> HIDE DEF at
<1>2. /\ \A d \in Commands \ {c} : cmd'[d] = cmd[d]
      /\ cmd'[c].does = cmd[c].does /\ cmd'[c].id = cmd[c].id /\ cmd'[c].said = cmd[c].said
      /\ cmd'[c].moved = cmd[c].moved /\ cmd'[c].stage = stage
  BY <1>1 DEF CatalogueInv, CommandRecord
<1> QED BY <1>2, LooksStep DEF Finds!Take, Looking

LEMMA UpgradeShows ==
  ASSUME CatalogueInv, NEW c \in Commands, Finds!Upgrade(c)
  PROVE  UNCHANGED Promises!vars
<1>1. PICK stage \in {"note", "look"} :
        cmd' = [cmd EXCEPT ![c].at = Finds!Pass, ![c].walked = TRUE, ![c].astray = strayed,
                           ![c].stage = stage]
  BY DEF Finds!Upgrade
<1>2. /\ \A d \in Commands \ {c} : cmd'[d] = cmd[d]
      /\ cmd'[c].does = cmd[c].does /\ cmd'[c].id = cmd[c].id /\ cmd'[c].said = cmd[c].said
      /\ cmd'[c].moved = cmd[c].moved /\ cmd'[c].stage = stage
  BY <1>1 DEF CatalogueInv, CommandRecord
<1> QED BY <1>2, LooksStep DEF Finds!Upgrade, Looking

LEMMA NoteShows ==
  ASSUME CatalogueInv, NEW c \in Commands, Finds!Note(c)
  PROVE  UNCHANGED Promises!vars
  BY LookAgainStep DEF Finds!Note, Looking

LEMMA StartShows ==
  ASSUME CatalogueInv, NEW c \in Commands, Finds!Start(c)
  PROVE  Promises!Ask(c)
<1>1. PICK does \in {"read", "file"}, id \in scene :
        cmd' = [cmd EXCEPT ![c] = [Finds!Idle EXCEPT !.does = does, !.id = id, !.stage = "take"]]
  BY DEF Finds!Start
<1> DEFINE r == [Finds!Idle EXCEPT !.does = does, !.id = id, !.stage = "take"]
<1>2. does \in Asked /\ id \in Ids \cup {"none"} /\ "take" \in Stages
  BY DocumentsStandIn DEF CatalogueInv, Ids, Asked, Stages
<1>3. /\ r \in CommandRecord /\ r.does = does /\ r.stage = "take" /\ r.said = "nothing"
      /\ r.moved = {}
  BY <1>2, AskedOf, IdleCommand DEF CommandRecord, Finds!Idle
<1> HIDE DEF r
<1>4. cmd' = [cmd EXCEPT ![c] = r]
  BY <1>1 DEF r
<1> QED BY <1>3, <1>4, AsksStep DEF Finds!Start

LEMMA StartWalkingShows ==
  ASSUME CatalogueInv, NEW c \in Commands, Finds!StartWalking(c)
  PROVE  Promises!Ask(c)
<1> DEFINE begins(does, id) ==
      cmd' = [cmd EXCEPT ![c] = [Finds!Idle EXCEPT !.does = does, !.id = id, !.stage = "walk"]]
           r == [Finds!Idle EXCEPT !.does = "arrange", !.stage = "plan"]
<1>1. scene \subseteq Ids
  BY DocumentsStandIn DEF CatalogueInv, Ids
<1>2. filed' = filed /\ acts' = acts /\ cmd[c].stage \in {"idle", "done"}
  BY DEF Finds!StartWalking
<1>3. {"holds", "drop", "arrange"} \subseteq Asked /\ {"walk", "plan"} \subseteq Stages
  BY DEF Asked, Stages
<1>4. ASSUME NEW does \in {"holds", "drop"}, NEW id \in scene, begins(does, id)
      PROVE  Promises!Ask(c)
  <2> DEFINE q == [Finds!Idle EXCEPT !.does = does, !.id = id, !.stage = "walk"]
  <2>0. does \in Asked /\ id \in Ids \cup {"none"} /\ "walk" \in Stages
    BY <1>1, <1>3
  <2>1. /\ q \in CommandRecord /\ q.does = does /\ q.stage = "walk" /\ q.said = "nothing"
        /\ q.moved = {}
    BY <2>0, AskedOf, IdleCommand DEF CommandRecord, Finds!Idle
  <2>2. cmd' = [cmd EXCEPT ![c] = q]
    BY <1>4
  <2> HIDE DEF q
  <2> QED BY <1>2, <2>1, <2>2, AsksStep
<1>5. CASE cmd' = [cmd EXCEPT ![c] = r]
  <2>1. /\ r \in CommandRecord /\ r.does = "arrange" /\ r.stage = "plan" /\ r.said = "nothing"
        /\ r.moved = {}
    BY <1>3, IdleCommand DEF CommandRecord, Finds!Idle
  <2> QED BY <1>2, <1>5, <2>1, AsksStep
<1> QED
  BY <1>4, <1>5 DEF Finds!StartWalking

\* What the answers rest on.
LEMMA ForgettersAreHere ==
  ASSUME NEW c, NEW id, \E s \in Forgetters(id) : s \in Finds!Range(filed)
  PROVE  \E s \in Promises!EverHere(c) : s \in DOMAIN Stands /\ Stands[s] = id
  BY DEF Forgetters, Promises!EverHere, Finds!Here

LEMMA FoundIsHere ==
  ASSUME NEW at, NEW id, Finds!Found(at, id)
  PROVE  id \in Finds!Here /\ \A c : id \in Promises!EverHere(c)
  BY DEF Finds!Found, Finds!Here, Finds!Range, Promises!EverHere

LEMMA ReadShows ==
  ASSUME CatalogueInv, NEW c \in Commands, Finds!Read(c)
  PROVE  UNCHANGED Promises!vars \/ Promises!Say(c)
<1> DEFINE id == cmd[c].id
           at == cmd[c].at
<1>1. /\ cmd[c].stage = "look" /\ cmd[c].does = "read" /\ filed' = filed /\ acts' = acts
      /\ NamesPlaces(at)
  BY DEF Finds!Read, CatalogueInv, CommandInv, Proceeds
<1>2. ASSUME NEW said \in {"whole", "redacted", "refused"}, cmd' = Finds!Answer(c, said),
             Promises!MaySay(c, "read", id, said)
      PROVE  Promises!Say(c)
  BY <1>1, <1>2, SaysStep DEF Said
<1>3. CASE Finds!Found(at, id)
  <2>1. id \in Promises!EverHere(c)
    BY <1>3, FoundIsHere
  <2>2. CASE cmd' = Finds!Answer(c, "whole")
    BY <1>2, <2>1, <2>2 DEF Promises!MaySay
  <2>3. CASE cmd' = Finds!Answer(c, "refused") /\ id \in Payloads
             /\ Finds!ForgottenBeside(c, id, at[id])
    <3>1. at[id] \in DOMAIN Beside
      BY <1>1, <1>3, <2>3 DEF NamesPlaces, Finds!Found
    <3>2. \E s \in Promises!EverHere(c) : s \in DOMAIN Stands /\ Stands[s] = id
      BY <2>3, <3>1, BesideIsHere, ForgettersAreHere
    <3> QED BY <1>2, <2>3, <3>2 DEF Promises!MaySay
  <2>4. CASE cmd' = Finds!Answer(c, "redacted") /\ Finds!Standing(c, id) # {}
    <3>1. \E s \in Promises!EverHere(c) : s \in DOMAIN Stands /\ Stands[s] = id
      BY <2>4, StandingIsHere, ForgettersAreHere
    <3> QED BY <1>2, <2>4, <3>1 DEF Promises!MaySay
  <2> QED BY <1>3, <2>2, <2>3, <2>4 DEF Finds!Read
<1>4. CASE ~Finds!Found(at, id)
  <2>1. PICK stage \in {"scan", "walk"} : cmd' = [cmd EXCEPT ![c].stage = stage]
    BY <1>1, <1>4 DEF Finds!Read
  <2> QED BY <1>1, <2>1, LookAgainStep DEF Looking
<1> QED BY <1>3, <1>4

LEMMA ScanShows ==
  ASSUME CatalogueInv, NEW c \in Commands, Finds!Scan(c)
  PROVE  UNCHANGED Promises!vars
<1> DEFINE looks == Finds!Listed(cmd[c].id)
<1>1. cmd' = [cmd EXCEPT ![c].stage = "sift", ![c].looks = looks, ![c].seen = {}]
  BY DEF Finds!Scan
<1> HIDE DEF looks
<1>2. /\ \A d \in Commands \ {c} : cmd'[d] = cmd[d]
      /\ cmd'[c].does = cmd[c].does /\ cmd'[c].id = cmd[c].id /\ cmd'[c].said = cmd[c].said
      /\ cmd'[c].moved = cmd[c].moved /\ cmd'[c].stage = "sift"
  BY <1>1 DEF CatalogueInv, CommandRecord
<1> QED BY <1>2, LooksStep DEF Finds!Scan, Looking

LEMMA SiftShows ==
  ASSUME CatalogueInv, NEW c \in Commands, Finds!Sift(c)
  PROVE  UNCHANGED Promises!vars
<1> DEFINE held(p) == IF p \in DOMAIN filed THEN {filed[p]} ELSE {}
<1>1. PICK p \in cmd[c].looks :
        \/ cmd' = [cmd EXCEPT ![c].stage = "found", ![c].looks = {p}, ![c].seen = {}]
        \/ cmd' = [cmd EXCEPT ![c].looks = @ \ {p}, ![c].seen = @ \cup held(p)]
  BY DEF Finds!Sift
<1>2. cmd[c].stage = "sift" /\ filed' = filed /\ acts' = acts
  BY DEF Finds!Sift
<1> HIDE DEF held
<1>3. /\ \A d \in Commands \ {c} : cmd'[d] = cmd[d]
      /\ cmd'[c].does = cmd[c].does /\ cmd'[c].id = cmd[c].id /\ cmd'[c].said = cmd[c].said
      /\ cmd'[c].moved = cmd[c].moved /\ cmd'[c].stage \in {"sift", "found"}
  BY <1>1, <1>2 DEF CatalogueInv, CommandRecord
<1> QED BY <1>2, <1>3, LooksStep DEF Looking

LEMMA EndScanShows ==
  ASSUME CatalogueInv, NEW c \in Commands, Finds!EndScan(c)
  PROVE  Promises!Say(c)
<1> DEFINE r == cmd[c]
           id == r.id
           standing == {s \in DOMAIN Stands \cap r.seen : Stands[s] = id}
           found == id \in r.seen \/ (id \in Documents /\ Finds!Found(r.at, id))
<1>1. r.stage = "sift" /\ r.does = "read" /\ r.looks = {} /\ filed' = filed /\ acts' = acts
  BY DEF Finds!EndScan, CatalogueInv, CommandInv, Proceeds
<1>2. PICK said \in {"redacted", "whole", "absent"} :
        /\ cmd' = Finds!Answer(c, said)
        /\ said = "redacted" => standing # {}
        /\ said = "whole" => found
        /\ said = "absent" => ~found
  BY DEF Finds!EndScan
<1>3. /\ Promises!EverHere(c) = Finds!Here \cup r.moved
      /\ Promises!AllAlong(c) = Finds!Here \ r.moved
  BY <1>1, WhatIsStirred DEF Progress
<1>4. r.seen \subseteq Promises!EverHere(c)
  BY <1>1, <1>3, ReadThrough DEF Finds!Here
<1>5. found => id \in Promises!EverHere(c)
  BY <1>4, FoundIsHere
<1>6. ~found => id \notin Promises!AllAlong(c)
  BY <1>1, <1>3, ReadThrough DEF Finds!Here
<1>7. standing # {} => \E s \in Promises!EverHere(c) : s \in DOMAIN Stands /\ Stands[s] = id
  BY <1>4
<1> HIDE DEF standing, found
<1>8. Promises!MaySay(c, "read", id, said)
  BY <1>2, <1>5, <1>6, <1>7 DEF Promises!MaySay
<1> QED BY <1>1, <1>2, <1>8, SaysStep DEF Said

LEMMA HandOverShows ==
  ASSUME CatalogueInv, NEW c \in Commands, Finds!HandOver(c)
  PROVE  Promises!Say(c)
<1> DEFINE r == cmd[c]
           id == r.id
<1>1. /\ r.stage = "found" /\ r.does = "read" /\ filed' = filed /\ acts' = acts
      /\ CommandInv(r, filed)
  BY DEF Finds!HandOver, CatalogueInv, CommandInv, Proceeds
<1>2. PICK p \in r.looks, said \in {"refused", "failed", "whole", "absent"} :
        /\ cmd' = Finds!Answer(c, said)
        /\ said = "refused" => Finds!ForgottenBeside(c, id, p)
        /\ said = "failed" => p \notin DOMAIN filed
        /\ said = "whole" => p \in DOMAIN filed /\ filed[p] = id
        /\ said = "absent" => p \in DOMAIN filed /\ filed[p] # id
  BY DEF Finds!HandOver
<1>3. p \in DOMAIN Beside /\ (id \in r.moved \/ (p \in DOMAIN filed /\ filed[p] = id))
  BY <1>1 DEF CommandInv, Knows
<1>4. /\ Asking[c].stirred = r.moved
      /\ Promises!EverHere(c) = Finds!Here \cup r.moved
      /\ Promises!AllAlong(c) = Finds!Here \ r.moved
  BY <1>1, WhatIsStirred DEF Progress
<1>5. said = "refused" => \E s \in Promises!EverHere(c) : s \in DOMAIN Stands /\ Stands[s] = id
  BY <1>2, <1>3, BesideIsHere, ForgettersAreHere
<1>6. said = "whole" => id \in Promises!EverHere(c)
  BY <1>2, <1>4 DEF Finds!Here, Finds!Range
<1>7. said \in {"failed", "absent"} => id \in Asking[c].stirred /\ id \notin Promises!AllAlong(c)
  BY <1>2, <1>3, <1>4
<1>8. Promises!MaySay(c, "read", id, said)
  BY <1>5, <1>6, <1>7 DEF Promises!MaySay
<1> QED BY <1>1, <1>2, <1>8, SaysStep DEF Said

LEMMA HoldsShows ==
  ASSUME CatalogueInv, NEW c \in Commands, Finds!Holds(c)
  PROVE  Promises!Say(c)
<1>1. PICK said \in {"held", "elsewhere"} :
        /\ cmd' = Finds!Answer(c, said)
        /\ said = "held" => Finds!Found(cmd[c].at, cmd[c].id)
  BY DEF Finds!Holds
<1>2. Promises!MaySay(c, "holds", cmd[c].id, said)
  BY <1>1, FoundIsHere DEF Promises!MaySay
<1> QED BY <1>1, <1>2, SaysStep DEF Finds!Holds, Said

LEMMA FileRefusedShows ==
  ASSUME CatalogueInv, NEW c \in Commands, Finds!FileRefused(c)
  PROVE  Promises!Say(c)
<1>1. Promises!MaySay(c, "file", cmd[c].id, "refused") /\ "refused" \in Said
  BY DEF Promises!MaySay, Said
<1> QED BY <1>1, SaysStep DEF Finds!FileRefused

\* A step on the directory: the others are told.
LEMMA OthersAreTold ==
  ASSUME CatalogueInv, NEW c \in Commands, NEW x \in Ids,
         \A d \in Commands \ {c} : cmd'[d] = Finds!Disturbed({x}, c)[d]
  PROVE  Asking' = [Promises!Stirring(x, c) EXCEPT ![c] = Seen(cmd'[c])]
<1>1. \A d \in Commands \ {c} : Seen(cmd'[d]) = Promises!Stirring(x, c)[d]
  <2> SUFFICES ASSUME NEW d \in Commands \ {c} PROVE Seen(cmd'[d]) = Promises!Stirring(x, c)[d]
    OBVIOUS
  <2>1. Seen(Finds!Disturbed({x}, c)[d]) = Promises!Stirring(x, c)[d]
    BY TellingStirs
  <2> QED BY <2>1
<1>2. Asking' = [d \in Commands |-> Seen(cmd'[d])]
  BY DEF Asking
<1> QED BY <1>1, <1>2, StirringIs

LEMMA ActIsSeen ==
  ASSUME NEW r \in CommandRecord, NEW q \in CommandRecord,
         q.does = r.does, q.id = r.id, q.said = r.said, Progress(q) = "acted"
  PROVE  Seen(q) = [Seen(r) EXCEPT !.stage = "acted", !.stirred = {}]
<1> DEFINE v == [Seen(r) EXCEPT !.stage = "acted", !.stirred = {}]
<1>1. Seen(r) \in View /\ Seen(q) \in View
  BY SeenIsAView
<1>2. /\ v \in View /\ v.does = r.does /\ v.id = r.id /\ v.stage = "acted" /\ v.said = r.said
      /\ v.stirred = {}
  BY <1>1, SeenIsAView DEF View
<1> HIDE DEF v
<1>3. v = Seen(q)
  BY <1>1, <1>2, SeenIsAView DEF View
<1> QED BY <1>3 DEF v

\* What filing, destroying and renaming do to the contents.
LEMMA FilingAddsIt ==
  ASSUME NEW p, NEW id, p \in DOMAIN filed => filed[p] = id, filed' = Finds!Placed(p, id)
  PROVE  Finds!Here' = Finds!Here \cup {id}
<1>1. /\ DOMAIN filed' = DOMAIN filed \cup {p} /\ filed'[p] = id
      /\ \A q \in DOMAIN filed : filed'[q] = filed[q]
  BY DEF Finds!Placed
<1> QED BY <1>1 DEF Finds!Here, Finds!Range

LEMMA DestroyingTakesOne ==
  ASSUME NEW p \in DOMAIN filed, filed' = Finds!Without(p)
  PROVE  Finds!Here' \in {Finds!Here, Finds!Here \ {filed[p]}}
<1>1. DOMAIN filed' = DOMAIN filed \ {p} /\ \A q \in DOMAIN filed' : filed'[q] = filed[q]
  BY DEF Finds!Without, Finds!Restrict
<1>2. CASE \E q \in DOMAIN filed \ {p} : filed[q] = filed[p]
  BY <1>1, <1>2 DEF Finds!Here, Finds!Range
<1>3. CASE ~ \E q \in DOMAIN filed \ {p} : filed[q] = filed[p]
  BY <1>1, <1>3 DEF Finds!Here, Finds!Range
<1> QED BY <1>2, <1>3

LEMMA RenamingKeepsAll ==
  ASSUME NEW p \in DOMAIN filed, NEW q, q \notin DOMAIN filed, filed' = Finds!Renamed(p, q)
  PROVE  Finds!Here' = Finds!Here
<1>1. /\ DOMAIN filed' = (DOMAIN filed \ {p}) \cup {q} /\ filed'[q] = filed[p]
      /\ \A x \in DOMAIN filed \ {p} : filed'[x] = filed[x]
  BY DEF Finds!Renamed
<1> QED BY <1>1 DEF Finds!Here, Finds!Range

LEMMA FileShows ==
  ASSUME CatalogueInv, CatalogueInv', NEW c \in Commands, Finds!File(c)
  PROVE  Promises!File(c) \/ Promises!Say(c)
<1> DEFINE r == cmd[c]
           id == r.id
           home == Finds!Home(id)
<1>1. /\ r \in CommandRecord /\ r.stage = "look" /\ r.does = "file" /\ id \in Ids /\ acts' = acts
      /\ cmd'[c] \in CommandRecord
  BY DEF CatalogueInv, Finds!File, CommandInv, Proceeds
<1>2. CASE Finds!Found(r.at, id)
  <2>1. cmd' = Finds!Answer(c, "held") /\ filed' = filed /\ "held" \in Said
    BY <1>2 DEF Finds!File, Said
  <2>2. Promises!MaySay(c, "file", id, "held")
    BY <1>2, FoundIsHere DEF Promises!MaySay
  <2> QED BY <1>1, <2>1, <2>2, SaysStep
<1>3. CASE ~Finds!Found(r.at, id)
  <2> DEFINE at == [y \in DOMAIN r.at \cup {id} |-> IF y = id THEN home ELSE r.at[y]]
             told == Finds!Disturbed({id}, c)
  <2>1. /\ home \in DOMAIN filed => filed[home] = id
        /\ filed' = Finds!Placed(home, id)
        /\ cmd' = [told EXCEPT
                      ![c].at = [y \in DOMAIN @ \cup {id} |-> IF y = id THEN home ELSE @[y]],
                      ![c].stage = "keep"]
    BY <1>3 DEF Finds!File
  <2>2. told \in [Commands -> CommandRecord] /\ told[c] = r
    BY <1>1, ToldOfIt
  <2>3. cmd' = [told EXCEPT ![c].at = at, ![c].stage = "keep"]
    BY <2>1, <2>2
  <2> HIDE DEF at, told
  <2>4. /\ cmd'[c].does = "file" /\ cmd'[c].id = id /\ cmd'[c].said = r.said
        /\ cmd'[c].stage = "keep" /\ \A d \in Commands \ {c} : cmd'[d] = told[d]
    BY <1>1, <2>2, <2>3 DEF CommandRecord
  <2>5. Asking' = [Promises!Stirring(id, c) EXCEPT ![c] = Seen(cmd'[c])]
    BY <1>1, <2>4, OthersAreTold DEF told
  <2>6. Seen(cmd'[c]) = [Seen(r) EXCEPT !.stage = "acted", !.stirred = {}]
    <3>1. Progress(cmd'[c]) = "acted"
      BY <2>4 DEF Progress
    <3>2. cmd'[c].does = r.does
      BY <1>1, <2>4
    <3> QED BY <1>1, <2>4, <3>1, <3>2, ActIsSeen
  <2>7. Asking[c] = Seen(r) /\ Seen(r).does = "file" /\ Seen(r).id = id /\ Seen(r).stage = "asked"
    BY <1>1, SeenIsAView DEF Asking, Progress
  <2>8. Asking' = [Promises!Stirring(id, c) EXCEPT ![c].stage = "acted", ![c].stirred = {}]
    <3>1. Promises!Stirring(id, c)[c] = Seen(r)
      BY <2>7, StirringIs
    <3> QED BY <2>5, <2>6, <3>1, StirringIs
  <2>9. Finds!Here' = Finds!Here \cup {id}
    BY <2>1, FilingAddsIt
  <2> QED BY <1>1, <2>7, <2>8, <2>9 DEF Promises!File
<1> QED BY <1>2, <1>3

LEMMA DropShows ==
  ASSUME CatalogueInv, CatalogueInv', NEW c \in Commands, Finds!Drop(c)
  PROVE  Promises!Drop(c) \/ Promises!Say(c)
<1> DEFINE r == cmd[c]
           id == r.id
<1>1. /\ r \in CommandRecord /\ r.stage = "look" /\ r.does = "drop" /\ id \in Ids /\ acts' = acts
      /\ cmd'[c] \in CommandRecord
  BY DEF CatalogueInv, Finds!Drop, CommandInv, Proceeds
<1>2. CASE ~Finds!Found(r.at, id)
  <2>1. cmd' = Finds!Answer(c, "absent") /\ filed' = filed /\ "absent" \in Said
    BY <1>2 DEF Finds!Drop, Said
  <2>2. Promises!MaySay(c, "drop", id, "absent")
    BY DEF Promises!MaySay
  <2> QED BY <1>1, <2>1, <2>2, SaysStep
<1>3. CASE Finds!Found(r.at, id)
  <2> DEFINE at == Finds!Restrict(r.at, DOMAIN r.at \ {id})
             told == Finds!Disturbed({id}, c)
             p == r.at[id]
  <2>1. /\ filed' = Finds!Without(p) /\ p \in DOMAIN filed /\ filed[p] = id
        /\ cmd' = [told EXCEPT ![c].at = at, ![c].stage = "let go"]
    BY <1>3 DEF Finds!Drop, Finds!Found
  <2>2. told \in [Commands -> CommandRecord] /\ told[c] = r
    BY <1>1, ToldOfIt
  <2> HIDE DEF at, told
  <2>4. /\ cmd'[c].does = "drop" /\ cmd'[c].id = id /\ cmd'[c].said = r.said
        /\ cmd'[c].stage = "let go" /\ \A d \in Commands \ {c} : cmd'[d] = told[d]
    BY <1>1, <2>1, <2>2 DEF CommandRecord
  <2>5. Asking' = [Promises!Stirring(id, c) EXCEPT ![c] = Seen(cmd'[c])]
    BY <1>1, <2>4, OthersAreTold DEF told
  <2>6. Seen(cmd'[c]) = [Seen(r) EXCEPT !.stage = "acted", !.stirred = {}]
    <3>1. Progress(cmd'[c]) = "acted"
      BY <2>4 DEF Progress
    <3>2. cmd'[c].does = r.does
      BY <1>1, <2>4
    <3> QED BY <1>1, <2>4, <3>1, <3>2, ActIsSeen
  <2>7. Asking[c] = Seen(r) /\ Seen(r).does = "drop" /\ Seen(r).id = id /\ Seen(r).stage = "asked"
    BY <1>1, SeenIsAView DEF Asking, Progress
  <2>8. Asking' = [Promises!Stirring(id, c) EXCEPT ![c].stage = "acted", ![c].stirred = {}]
    <3>1. Promises!Stirring(id, c)[c] = Seen(r)
      BY <2>7, StirringIs
    <3> QED BY <2>5, <2>6, <3>1, StirringIs
  <2>9. Finds!Here' \in {Finds!Here, Finds!Here \ {id}} /\ id \in Finds!Here
    BY <1>3, <2>1, DestroyingTakesOne, FoundIsHere
  <2> QED BY <1>1, <2>7, <2>8, <2>9 DEF Promises!Drop
<1> QED BY <1>2, <1>3

LEMMA KeepShows ==
  ASSUME CatalogueInv, NEW c \in Commands, Finds!Keep(c)
  PROVE  Promises!End(c)
<1>1. cmd[c].does = "file"
  BY DEF Finds!Keep, CatalogueInv, CommandInv, Proceeds
<1> QED BY <1>1, EndsStep DEF Finds!Keep

LEMMA LetGoShows ==
  ASSUME CatalogueInv, NEW c \in Commands, Finds!LetGo(c)
  PROVE  Promises!End(c) \/ Promises!Say(c)
<1>1. /\ cmd[c].does \in {"drop", "arrange"} /\ cmd[c].stage = "let go"
      /\ cmd' = Finds!Answer(c, "dropped") /\ filed' = filed /\ acts' = acts /\ "dropped" \in Said
  BY DEF Finds!LetGo, CatalogueInv, CommandInv, Proceeds, Said
<1>2. CASE cmd[c].does = "drop"
  BY <1>1, <1>2, EndsStep
<1>3. CASE cmd[c].does = "arrange"
  <2>1. Promises!MaySay(c, cmd[c].does, cmd[c].id, "dropped")
    BY <1>3 DEF Promises!MaySay
  <2> QED BY <1>1, <1>3, <2>1, SaysStep
<1> QED BY <1>1, <1>2, <1>3

LEMMA StepInsideShows ==
  ASSUME CatalogueInv, NEW c \in Commands, filed' = filed, acts' = acts,
         \A d \in Commands \ {c} : cmd'[d] = cmd[d],
         cmd'[c].does = cmd[c].does, cmd'[c].id = cmd[c].id, cmd'[c].said = cmd[c].said,
         cmd'[c].moved = cmd[c].moved, Progress(cmd'[c]) = Progress(cmd[c])
  PROVE  UNCHANGED Promises!vars
<1>1. Seen(cmd'[c]) = Seen(cmd[c])
  BY DEF Seen
<1> QED BY <1>1, InsideStep

LEMMA PlanMovesShows ==
  ASSUME CatalogueInv, NEW c \in Commands, Finds!PlanMoves(c)
  PROVE  UNCHANGED Promises!vars
<1> DEFINE moves == {<<p, Finds!Goes(p)>> : p \in Finds!Arrangement}
<1>1. cmd' = [cmd EXCEPT ![c].moves = moves, ![c].stage = "walk"]
      /\ cmd[c].stage = "plan" /\ filed' = filed /\ acts' = acts
  BY DEF Finds!PlanMoves
<1> HIDE DEF moves
<1>2. /\ \A d \in Commands \ {c} : cmd'[d] = cmd[d]
      /\ cmd'[c].does = cmd[c].does /\ cmd'[c].id = cmd[c].id /\ cmd'[c].said = cmd[c].said
      /\ cmd'[c].moved = cmd[c].moved /\ cmd'[c].stage = "walk"
  BY <1>1 DEF CatalogueInv, CommandRecord
<1>3. Progress(cmd'[c]) = Progress(cmd[c])
  BY <1>1, <1>2 DEF Progress
<1> QED BY <1>1, <1>2, <1>3, StepInsideShows

LEMMA EndArrangeShows ==
  ASSUME CatalogueInv, NEW c \in Commands, Finds!EndArrange(c)
  PROVE  UNCHANGED Promises!vars
<1>1. /\ \A d \in Commands \ {c} : cmd'[d] = cmd[d]
      /\ cmd'[c].does = "arrange" /\ cmd'[c].id = cmd[c].id /\ cmd'[c].said = cmd[c].said
      /\ cmd'[c].moved = cmd[c].moved /\ cmd'[c].stage = "let go"
      /\ cmd[c].stage = "look" /\ cmd[c].does = "arrange" /\ filed' = filed /\ acts' = acts
  BY DEF Finds!EndArrange, CatalogueInv, CommandRecord
<1>2. Progress(cmd'[c]) = Progress(cmd[c])
  BY <1>1 DEF Progress
<1> QED BY <1>1, <1>2, StepInsideShows

\* Renaming changes no content, and stirs the one it renames; a rename that fails ends the command.
LEMMA MoveShows ==
  ASSUME CatalogueInv, NEW c \in Commands, Finds!Move(c)
  PROVE  UNCHANGED Promises!vars \/ Promises!Say(c) \/ Promises!Arrange(c)
<1> DEFINE r == cmd[c]
<1>1. PICK m \in r.moves : Finds!MoveOne(c, m)
  BY DEF Finds!Move
<1>2. /\ r \in CommandRecord /\ r.stage = "look" /\ r.does = "arrange" /\ acts' = acts
  BY DEF CatalogueInv, Finds!Move
<1> DEFINE from == m[1]
           to == m[2]
           moves == r.moves \ {m}
<1>4. CASE cmd' = [cmd EXCEPT ![c].moves = @ \ {m}] /\ filed' = filed
  <2>1. /\ \A d \in Commands \ {c} : cmd'[d] = cmd[d]
        /\ cmd'[c].does = r.does /\ cmd'[c].id = r.id /\ cmd'[c].said = r.said
        /\ cmd'[c].moved = r.moved /\ cmd'[c].stage = "look"
    BY <1>2, <1>4 DEF CatalogueInv, CommandRecord
  <2>2. Progress(cmd'[c]) = Progress(cmd[c])
    BY <1>2, <2>1 DEF Progress
  <2> QED BY <1>2, <1>4, <2>1, <2>2, StepInsideShows
<1>5. CASE cmd' = Finds!Answer(c, "failed") /\ filed' = filed
  <2>1. "failed" \in Said /\ Promises!MaySay(c, r.does, r.id, "failed")
    BY <1>2 DEF Said, Promises!MaySay
  <2> QED BY <1>2, <1>5, <2>1, SaysStep
<1>6. CASE /\ to \notin DOMAIN filed /\ from \in DOMAIN filed
           /\ filed' = Finds!Renamed(from, to)
           /\ cmd' = [Finds!Disturbed({filed[from]}, c) EXCEPT
                         ![c].at = Finds!Told(cmd[c].at, from, to), ![c].moves = @ \ {m}]
  <2> DEFINE at == Finds!Told(r.at, from, to)
             x == filed[from]
             told == Finds!Disturbed({x}, c)
  <2>1. x \in Ids
    BY <1>6, OfADirectory DEF CatalogueInv
  <2>2. told \in [Commands -> CommandRecord] /\ told[c] = r
    BY <1>2, <2>1, ToldOfIt
  <2>3. cmd' = [told EXCEPT ![c].at = at, ![c].moves = moves]
    BY <1>6, <2>2
  <2> HIDE DEF at, moves, told
  <2>4. /\ cmd'[c].does = r.does /\ cmd'[c].id = r.id /\ cmd'[c].said = r.said
        /\ cmd'[c].moved = r.moved /\ cmd'[c].stage = "look"
        /\ \A d \in Commands \ {c} : cmd'[d] = told[d]
    BY <1>2, <2>2, <2>3 DEF CommandRecord
  <2>5. Seen(cmd'[c]) = Seen(r)
    BY <1>2, <2>4 DEF Seen, Progress
  <2>6. Asking' = [Promises!Stirring(x, c) EXCEPT ![c] = Seen(cmd'[c])]
    BY <2>1, <2>4, OthersAreTold DEF told
  <2>7. Asking[c] = Seen(r) /\ Asking[c].does = "arrange" /\ Asking[c].stage = "asked"
    BY <1>2, SeenIsAView DEF Asking, Progress
  <2>8. Asking' = Promises!Stirring(x, c)
    BY <2>5, <2>6, <2>7, StirringIs
  <2>9. Finds!Here' = Finds!Here /\ x \in Finds!Here
    BY <1>6, RenamingKeepsAll DEF Finds!Here, Finds!Range
  <2> HIDE DEF x
  <2> QED BY <1>2, <2>7, <2>8, <2>9 DEF Promises!Arrange
<1> QED BY <1>1, <1>4, <1>5, <1>6 DEF Finds!MoveOne

LEMMA StopShows ==
  ASSUME CatalogueInv, NEW c \in Commands, Finds!Stop(c)
  PROVE  Promises!Stop(c)
<1>1. cmd' = [cmd EXCEPT ![c] = Finds!Idle] /\ filed' = filed /\ acts' = acts + 1
  BY DEF Finds!Stop
<1>2. Seen(Finds!Idle) = Promises!Unasked
  BY DEF Seen, Progress, Finds!Idle, Promises!Unasked
<1>3. cmd'[c] = Finds!Idle /\ \A d \in Commands \ {c} : cmd'[d] = cmd[d]
  BY <1>1 DEF CatalogueInv
<1>4. Asking' = [Asking EXCEPT ![c] = Promises!Unasked]
  BY <1>2, <1>3, SeenAfter
<1>5. Finds!Here' = Finds!Here
  BY <1>1 DEF Finds!Here
<1> QED BY <1>1, <1>4, <1>5 DEF Promises!Stop

\* What a hand or a syncer does.
LEMMA PutShows ==
  ASSUME CatalogueInv, NEW x \in Ids, NEW after, Finds!Put(x, after),
         Finds!Range(after) \in {Finds!Here, Finds!Here \cup {x}, Finds!Here \ {x}}
  PROVE  Promises!Meddle
<1>1. filed' = after /\ cmd' = Finds!Disturbed({x}, "nobody") /\ acts' = acts + 1
  BY DEF Finds!Put
<1>2. \A d \in Commands : Seen(cmd'[d]) = Promises!Stirring(x, "nobody")[d]
  BY <1>1, TellingStirs
<1>3. Asking' = Promises!Stirring(x, "nobody")
  <2>1. Asking' = [d \in Commands |-> Seen(cmd'[d])]
    BY DEF Asking
  <2> QED BY <1>2, <2>1, StirringIs
<1>4. Finds!Here' = Finds!Range(after)
  BY <1>1 DEF Finds!Here
<1> QED BY <1>1, <1>3, <1>4 DEF Promises!Meddle, Promises!Ids, Ids

LEMMA DeliverShows ==
  ASSUME CatalogueInv, Finds!Deliver
  PROVE  Promises!Meddle
<1>1. PICK id \in scene : \E p \in Spots[id] \ DOMAIN filed : Finds!Put(id, Finds!Placed(p, id))
  BY DEF Finds!Deliver
<1>2. PICK p \in Spots[id] \ DOMAIN filed : Finds!Put(id, Finds!Placed(p, id))
  BY <1>1
<1>3. id \in Ids
  BY DocumentsStandIn DEF CatalogueInv, Ids
<1>4. filed' = Finds!Placed(p, id)
  BY <1>2 DEF Finds!Put
<1>5. Finds!Range(filed') = Finds!Here \cup {id}
  BY <1>2, <1>4, FilingAddsIt DEF Finds!Here
<1>6. Finds!Put(id, filed')
  BY <1>2, <1>4
<1> QED BY <1>3, <1>5, <1>6, PutShows

LEMMA RefileShows ==
  ASSUME CatalogueInv, Finds!Refile
  PROVE  Promises!Meddle
<1>1. PICK p \in DOMAIN filed :
        \E q \in Spots[filed[p]] \ DOMAIN filed : Finds!Put(filed[p], Finds!Renamed(p, q))
  BY DEF Finds!Refile
<1>2. PICK q \in Spots[filed[p]] \ DOMAIN filed : Finds!Put(filed[p], Finds!Renamed(p, q))
  BY <1>1
<1>3. filed[p] \in Ids
  BY OfADirectory DEF CatalogueInv
<1>4. filed' = Finds!Renamed(p, q)
  BY <1>2 DEF Finds!Put
<1>5. Finds!Here' = Finds!Here
  BY <1>2, <1>4, RenamingKeepsAll
<1>6. Finds!Put(filed[p], filed')
  BY <1>2, <1>4
<1> QED BY <1>3, <1>5, <1>6, PutShows DEF Finds!Here

LEMMA TakeAwayShows ==
  ASSUME CatalogueInv, Finds!TakeAway
  PROVE  Promises!Meddle
<1>1. PICK p \in DOMAIN filed : Finds!Put(filed[p], Finds!Without(p))
  BY DEF Finds!TakeAway
<1>2. filed[p] \in Ids
  BY OfADirectory DEF CatalogueInv
<1>3. filed' = Finds!Without(p)
  BY <1>1 DEF Finds!Put
<1>4. Finds!Here' \in {Finds!Here, Finds!Here \ {filed[p]}}
  BY <1>3, DestroyingTakesOne
<1>5. Finds!Put(filed[p], filed')
  BY <1>1, <1>3
<1> QED BY <1>2, <1>4, <1>5, PutShows DEF Finds!Here

LEMMA ClearShows ==
  ASSUME CatalogueInv, Finds!Clear
  PROVE  Promises!Meddle
<1>1. filed' = filed /\ cmd' = cmd /\ acts' = acts + 1
  BY DEF Finds!Clear
<1>2. Asking' = Asking /\ Finds!Here' = Finds!Here
  BY <1>1 DEF Asking, Finds!Here
<1> QED BY <1>1, <1>2 DEF Promises!Meddle

-----------------------------------------------------------------------------
LEMMA ContentsBegin ==
  ASSUME Finds!Init
  PROVE  Promises!Init
<1>1. Finds!Here = {}
  BY DEF Finds!Init, Finds!Here, Finds!Nothing, Finds!Range
<1>2. Seen(Finds!Idle) = Promises!Unasked
  BY DEF Seen, Progress, Finds!Idle, Promises!Unasked
<1>3. Asking = [c \in Commands |-> Promises!Unasked]
  BY <1>2 DEF Asking, Finds!Init
<1> QED BY <1>1, <1>3 DEF Promises!Init, Finds!Init

LEMMA ContentsGoOn ==
  ASSUME CatalogueInv, CatalogueInv', Finds!Next
  PROVE  [Promises!Next]_(Promises!vars)
<1>1. ASSUME NEW c \in Commands,
             \/ Finds!Start(c) \/ Finds!StartWalking(c) \/ Finds!Take(c) \/ Finds!Upgrade(c)
             \/ Finds!Note(c) \/ Finds!Read(c) \/ Finds!Scan(c) \/ Finds!Sift(c)
             \/ Finds!EndScan(c) \/ Finds!HandOver(c) \/ Finds!Holds(c)
             \/ Finds!File(c) \/ Finds!FileRefused(c) \/ Finds!Keep(c) \/ Finds!Drop(c)
             \/ Finds!LetGo(c) \/ Finds!PlanMoves(c) \/ Finds!Move(c) \/ Finds!EndArrange(c)
             \/ Finds!Stop(c)
      PROVE  \/ UNCHANGED Promises!vars
             \/ Promises!Ask(c) \/ Promises!Say(c) \/ Promises!File(c) \/ Promises!Drop(c)
             \/ Promises!Arrange(c) \/ Promises!End(c) \/ Promises!Stop(c)
  BY <1>1, StartShows, StartWalkingShows, TakeShows, UpgradeShows, NoteShows, ReadShows,
     ScanShows, SiftShows, EndScanShows, HandOverShows, HoldsShows, FileShows, FileRefusedShows, KeepShows, DropShows, LetGoShows,
     PlanMovesShows, MoveShows, EndArrangeShows, StopShows
<1>2. CASE Finds!Deliver \/ Finds!Refile \/ Finds!TakeAway \/ Finds!Clear
  BY <1>2, DeliverShows, RefileShows, TakeAwayShows, ClearShows DEF Promises!Next
<1> QED
  BY <1>1, <1>2 DEF Finds!Next, Promises!Next

LEMMA ContentsStandStill ==
  ASSUME UNCHANGED findsVars
  PROVE  UNCHANGED Promises!vars
  BY DEF findsVars, Promises!vars, Asking, Finds!Here

\* The commands of store/mod.rs and store/arrange.rs, with their catalogues, caches
\* and walks, are for whoever asks them a set of contents: Cataloguing implements
\* Contents, for any digests, places and commands.
THEOREM ContentsKept == MCSpec => ContentsAreKept
<1>1. MCInit => CatalogueInv /\ Promises!Init
  BY CatalogueInvInit, ContentsBegin DEF MCInit
<1>2. CatalogueInv /\ [MCNext]_<<part, vars, findsVars, opensVars>> => CatalogueInv'
  BY CatalogueInvNext, CatalogueInvStutters DEF MCNext
<1>3. CatalogueInv /\ CatalogueInv' /\ [MCNext]_<<part, vars, findsVars, opensVars>>
        => [Promises!Next]_(Promises!vars)
  BY ContentsGoOn, ContentsStandStill DEF MCNext
<1> QED
  BY <1>1, <1>2, <1>3, PTL DEF MCSpec, ContentsAreKept, Promises!Spec
-----------------------------------------------------------------------------
(* Opening.  What an entry says of a path is so whenever the path holds the *)
(* time the entry was made under, or `unseen` says why not; and everything  *)
(* that touches a path tells the readers under way.                         *)

Held == UNION {[D -> [text : RevisionTexts \ Unparsable, at : Nat]] : D \in SUBSET Paths}
Caches == [at : Nat, held : Held]
Filed == UNION {[D -> [text : RevisionTexts, at : Nat \ {0}]] : D \in SUBSET Paths}
Named == UNION {[D -> RevisionTexts] : D \in SUBSET Names}
Stamps == UNION {[D -> Nat] : D \in SUBSET Paths}
Documented == UNION {[D -> RevisionTexts \ Unparsable] : D \in SUBSET Paths}
OpenRecord ==
  [stage : {"closed", "walk", "load", "names", "open", "refused"}, dirs : SUBSET Opens!Dirs,
   todo : SUBSET Paths, held : Caches, taken : SUBSET Paths, stamped : Stamps,
   docs : Documented, named : Named, disturbed : SUBSET Paths, filed : SUBSET RevisionTexts]

\* Entries were made no later than the cache they are in, and none at no time.
InTime(h, now) ==
  /\ h.at <= now
  /\ \A p \in DOMAIN h.held : h.held[p].at \in 1 .. h.at

\* Whenever the file is of the time that was noted, it is what was noted.
SaysSo(p, at, t, f, hidden) ==
  p \in DOMAIN f /\ f[p].at = at => p \in hidden \/ f[p].text = t
Vouches(h, f, hidden) ==
  \A p \in DOMAIN h.held : h.held[p].at < h.at => SaysSo(p, h.held[p].at, h.held[p].text, f, hidden)
Stamped(o, f, hidden) ==
  \A p \in DOMAIN o.docs : SaysSo(p, o.stamped[p], o.docs[p], f, hidden)

\* An open on its way knows of each file that stood still since it began.
OnItsWay(o, f) ==
  /\ o.stage = "walk" => \A p \in DOMAIN f : p \in o.disturbed \/ DirOf[p] \in o.dirs \/ p \in o.todo
  /\ o.stage = "load" => \A p \in DOMAIN f : p \in o.disturbed \/ p \in o.todo \/ p \in DOMAIN o.docs
  /\ o.stage \in {"names", "open"} => \A p \in DOMAIN f : p \in o.disturbed \/ p \in DOMAIN o.docs
  /\ o.stage \in {"walk", "load"} => \A p \in o.todo : p \in o.disturbed \/ p \in DOMAIN f

\* What it took a file to hold, and what it was told of one that was touched.
TookIt(o, f, hidden) ==
  \A p \in DOMAIN o.docs :
     \/ p \in o.disturbed \cup hidden
     \/ p \notin DOMAIN f
     \/ f[p].text = o.docs[p]
WasTold(o, f) ==
  o.stage # "closed" => \A p \in o.disturbed : p \in DOMAIN f => f[p].text \in o.filed

HasNamed(o, f, hidden) ==
  o.stage = "open" => \A b \in DOMAIN o.named :
     \/ o.named[b] \in Opens!Range(o.docs)
     \/ o.named[b] \in o.filed
     \/ \A p \in DOMAIN f : f[p].text = o.named[b] => p \in hidden
GaveUp(o, f) ==
  o.stage = "refused" => o.disturbed # {} \/ \E p \in DOMAIN f : f[p].text \in Unparsable

Under == {"walk", "load", "names"}
Opener(o, f, hidden, now) ==
  /\ InTime(o.held, now)
  /\ \A p \in DOMAIN o.stamped : o.stamped[p] <= now
  /\ DOMAIN o.docs \subseteq DOMAIN o.stamped
  /\ o.stage = "closed" => o = Opens!Closed
  /\ o.stage = "walk" => o.docs = Opens!Nothing
  /\ o.stage \in Under => Vouches(o.held, f, hidden)
  /\ o.stage = "load" => Stamped(o, f, hidden)
  /\ OnItsWay(o, f) /\ TookIt(o, f, hidden) /\ WasTold(o, f)
  /\ HasNamed(o, f, hidden) /\ GaveUp(o, f)

OpeningInv ==
  /\ clock \in Nat \ {0}
  /\ texts \in Filed /\ \A p \in DOMAIN texts : texts[p].at <= clock
  /\ names \in Named /\ pending \in Named
  /\ cache \in Caches /\ InTime(cache, clock) /\ Vouches(cache, texts, unseen)
  /\ opening \in [Readers -> OpenRecord]
  /\ \A r \in Readers : Opener(opening[r], texts, unseen, clock)
  /\ unseen \subseteq Paths
-----------------------------------------------------------------------------
\* A function over some of a set stays one when a value is added or taken away.
LEMMA WithStays ==
  ASSUME NEW S, NEW V, NEW D \in SUBSET S, NEW g \in [D -> V], NEW x \in S, NEW y \in V
  PROVE  Opens!With(g, x, y) \in UNION {[E -> V] : E \in SUBSET S}
<1>1. Opens!With(g, x, y) \in [D \cup {x} -> V]
  BY DEF Opens!With
<1>2. D \cup {x} \in SUBSET S
  OBVIOUS
<1> QED BY <1>1, <1>2

LEMMA WithoutStays ==
  ASSUME NEW S, NEW V, NEW D \in SUBSET S, NEW g \in [D -> V], NEW x
  PROVE  Opens!Without(g, x) \in UNION {[E -> V] : E \in SUBSET S}
<1>1. Opens!Without(g, x) \in [D \ {x} -> V]
  BY DEF Opens!Without, Opens!Restrict
<1>2. D \ {x} \in SUBSET S
  OBVIOUS
<1> QED BY <1>1, <1>2

LEMMA OfAFunction ==
  ASSUME NEW S, NEW V, NEW g \in UNION {[E -> V] : E \in SUBSET S}
  PROVE  DOMAIN g \in SUBSET S /\ g \in [DOMAIN g -> V]
  OBVIOUS

LEMMA NothingYet ==
  /\ DOMAIN Opens!Nothing = {}
  /\ Opens!Nothing \in Held /\ Opens!Nothing \in Stamps /\ Opens!Nothing \in Documented
  /\ Opens!Nothing \in Named /\ Opens!Nothing \in Filed
<1>1. DOMAIN Opens!Nothing = {} /\ \A V : Opens!Nothing \in [{} -> V]
  BY DEF Opens!Nothing
<1>2. \A S : {} \in SUBSET S
  OBVIOUS
<1> QED BY <1>1, <1>2 DEF Held, Stamps, Documented, Named, Filed

LEMMA ClosedReader ==
  /\ Opens!NoCache \in Caches /\ Opens!NoCache.at = 0 /\ Opens!NoCache.held = Opens!Nothing
  /\ Opens!Closed \in OpenRecord /\ Opens!Closed.stage = "closed"
  /\ Opens!Closed.todo = {} /\ Opens!Closed.held = Opens!NoCache /\ Opens!Closed.docs = Opens!Nothing
  /\ Opens!Closed.stamped = Opens!Nothing /\ Opens!Closed.named = Opens!Nothing
  /\ Opens!Closed.disturbed = {}
<1>1. Opens!NoCache \in Caches /\ Opens!NoCache.at = 0 /\ Opens!NoCache.held = Opens!Nothing
  BY NothingYet DEF Opens!NoCache, Caches
<1>2. {} \in SUBSET Opens!Dirs /\ {} \in SUBSET Paths /\ {} \in SUBSET RevisionTexts
  OBVIOUS
<1>3. Opens!Closed \in OpenRecord
  BY <1>1, <1>2, NothingYet DEF Opens!Closed, OpenRecord
<1> QED BY <1>1, <1>3 DEF Opens!Closed

\* A step of one reader: only what it has taken changes.
LEMMA ReaderStep ==
  ASSUME OpeningInv, NEW r \in Readers, NEW q \in OpenRecord,
         opening' = [opening EXCEPT ![r] = q], Opener(q, texts, unseen, clock),
         texts' = texts, names' = names, clock' = clock, pending' = pending, unseen' = unseen,
         cache' \in Caches, InTime(cache', clock), Vouches(cache', texts, unseen)
  PROVE  OpeningInv'
<1>1. /\ opening' \in [Readers -> OpenRecord] /\ opening'[r] = q
      /\ \A s \in Readers \ {r} : opening'[s] = opening[s]
  BY DEF OpeningInv
<1> QED BY <1>1 DEF OpeningInv

LEMMA CacheStands ==
  ASSUME OpeningInv, cache' = cache
  PROVE  cache' \in Caches /\ InTime(cache', clock) /\ Vouches(cache', texts, unseen)
  BY DEF OpeningInv

LEMMA OpenStep ==
  ASSUME OpeningInv, NEW r \in Readers, Opens!Open(r)
  PROVE  OpeningInv'
<1> DEFINE q == [Opens!Closed EXCEPT !.stage = "walk", !.dirs = Opens!Dirs]
<1>1. /\ opening' = [opening EXCEPT ![r] = q] /\ cache' = cache
      /\ texts' = texts /\ names' = names /\ clock' = clock /\ pending' = pending /\ unseen' = unseen
  BY DEF Opens!Open
<1>2. q \in OpenRecord
  BY ClosedReader DEF OpenRecord
<1>3. /\ q.stage = "walk" /\ q.dirs = Opens!Dirs /\ q.todo = {} /\ q.held = Opens!NoCache
      /\ q.docs = Opens!Nothing /\ q.stamped = Opens!Nothing /\ q.disturbed = {}
  BY ClosedReader DEF OpenRecord
<1> HIDE DEF q
<1>4. \A p \in DOMAIN texts : DirOf[p] \in Opens!Dirs
  <2>1. DOMAIN texts \subseteq Paths
    BY OfAFunction DEF OpeningInv, Filed
  <2> QED BY <2>1, PathsHaveDirectories DEF Opens!Dirs, Opens!Range
<1>5. InTime(q.held, clock) /\ Vouches(q.held, texts, unseen)
  BY <1>3, ClosedReader, NothingYet DEF InTime, Vouches, OpeningInv
<1>6. Opener(q, texts, unseen, clock)
  BY <1>3, <1>4, <1>5, NothingYet DEF Opener, Under, OnItsWay, TookIt, WasTold, HasNamed, GaveUp
<1> QED BY <1>1, <1>2, <1>6, CacheStands, ReaderStep

LEMMA ListStep ==
  ASSUME OpeningInv, NEW r \in Readers, Opens!List(r)
  PROVE  OpeningInv'
<1> DEFINE o == opening[r]
<1>1. /\ o \in OpenRecord /\ Opener(o, texts, unseen, clock) /\ o.stage = "walk"
      /\ opening \in [Readers -> OpenRecord] /\ cache' = cache
      /\ texts' = texts /\ names' = names /\ clock' = clock /\ pending' = pending /\ unseen' = unseen
  BY DEF OpeningInv, Opens!List
<1>2. PICK d \in o.dirs :
        opening' = [opening EXCEPT ![r].dirs = @ \ {d},
                                   ![r].todo = @ \cup {p \in DOMAIN texts : DirOf[p] = d}]
  BY DEF Opens!List
<1> DEFINE there == {p \in DOMAIN texts : DirOf[p] = d}
           q == [o EXCEPT !.dirs = @ \ {d}, !.todo = @ \cup there]
<1>3. DOMAIN texts \subseteq Paths
  BY OfAFunction DEF OpeningInv, Filed
<1>4. there \subseteq Paths
  BY <1>3
<1>5. opening' = [opening EXCEPT ![r].dirs = @ \ {d}, ![r].todo = @ \cup there]
  BY <1>2
<1>6. \A p \in DOMAIN texts : p \in there <=> DirOf[p] = d
  OBVIOUS
<1>7. there \subseteq DOMAIN texts
  OBVIOUS
<1> HIDE DEF there
<1>8. q \in OpenRecord
  BY <1>1, <1>4 DEF OpenRecord
<1>9. /\ q.stage = "walk" /\ q.dirs = o.dirs \ {d} /\ q.todo = o.todo \cup there /\ q.held = o.held
      /\ q.docs = o.docs /\ q.stamped = o.stamped /\ q.disturbed = o.disturbed /\ q.filed = o.filed
  BY <1>1 DEF OpenRecord
<1>10. opening' = [opening EXCEPT ![r] = q]
  BY <1>1, <1>4, <1>5 DEF OpenRecord
<1> HIDE DEF q
<1>11. Opener(q, texts, unseen, clock)
  BY <1>1, <1>6, <1>7, <1>9 DEF Opener, Under, OnItsWay, TookIt, WasTold, HasNamed, GaveUp
<1> QED BY <1>1, <1>8, <1>10, <1>11, CacheStands, ReaderStep

LEMMA HeldDocumentsStep ==
  ASSUME OpeningInv, NEW r \in Readers, Opens!HeldDocuments(r)
  PROVE  OpeningInv'
<1> DEFINE o == opening[r]
           q == [o EXCEPT !.stage = "load", !.held = cache]
<1>1. /\ o \in OpenRecord /\ Opener(o, texts, unseen, clock) /\ o.stage = "walk" /\ o.dirs = {}
      /\ opening \in [Readers -> OpenRecord] /\ cache' = cache /\ cache \in Caches
      /\ InTime(cache, clock) /\ Vouches(cache, texts, unseen)
      /\ texts' = texts /\ names' = names /\ clock' = clock /\ pending' = pending /\ unseen' = unseen
      /\ opening' = [opening EXCEPT ![r].stage = "load", ![r].held = cache]
  BY DEF OpeningInv, Opens!HeldDocuments
<1>2. q \in OpenRecord
  BY <1>1 DEF OpenRecord
<1>3. /\ q.stage = "load" /\ q.todo = o.todo /\ q.held = cache
      /\ q.docs = o.docs /\ q.stamped = o.stamped /\ q.disturbed = o.disturbed /\ q.filed = o.filed
  BY <1>1 DEF OpenRecord
<1>4. opening' = [opening EXCEPT ![r] = q]
  BY <1>1 DEF OpenRecord
<1> HIDE DEF q
<1>5. o.docs = Opens!Nothing
  BY <1>1 DEF Opener
<1>6. Stamped(q, texts, unseen)
  BY <1>3, <1>5, NothingYet DEF Stamped
<1>7. Opener(q, texts, unseen, clock)
  BY <1>1, <1>3, <1>6 DEF Opener, Under, OnItsWay, TookIt, WasTold, HasNamed, GaveUp
<1> QED BY <1>1, <1>2, <1>4, <1>7, CacheStands, ReaderStep

\* The entries of a cache, and what is there.
LEMMA OfAHeld ==
  ASSUME NEW h \in Caches
  PROVE  /\ h.at \in Nat /\ DOMAIN h.held \in SUBSET Paths
         /\ \A p \in DOMAIN h.held : h.held[p].text \in RevisionTexts \ Unparsable /\ h.held[p].at \in Nat
<1>1. h.held \in Held /\ h.at \in Nat
  BY DEF Caches
<1>2. DOMAIN h.held \in SUBSET Paths
      /\ h.held \in [DOMAIN h.held -> [text : RevisionTexts \ Unparsable, at : Nat]]
  BY <1>1, OfAFunction DEF Held
<1> QED BY <1>1, <1>2

LEMMA OfTheFiles ==
  ASSUME OpeningInv
  PROVE  /\ DOMAIN texts \in SUBSET Paths
         /\ \A p \in DOMAIN texts : texts[p].text \in RevisionTexts /\ texts[p].at \in Nat \ {0}
                                    /\ texts[p].at <= clock /\ texts[p] \in [text : RevisionTexts, at : Nat \ {0}]
         /\ texts \in [DOMAIN texts -> [text : RevisionTexts, at : Nat \ {0}]]
<1>1. DOMAIN texts \in SUBSET Paths /\ texts \in [DOMAIN texts -> [text : RevisionTexts, at : Nat \ {0}]]
  BY OfAFunction DEF OpeningInv, Filed
<1> QED BY <1>1 DEF OpeningInv

LEMMA OfAnOpen ==
  ASSUME NEW o \in OpenRecord
  PROVE  /\ o.stamped \in Stamps /\ o.docs \in Documented /\ o.held \in Caches /\ o.todo \subseteq Paths
         /\ DOMAIN o.stamped \in SUBSET Paths /\ o.stamped \in [DOMAIN o.stamped -> Nat]
         /\ DOMAIN o.docs \in SUBSET Paths /\ o.docs \in [DOMAIN o.docs -> RevisionTexts \ Unparsable]
<1>1. o.stamped \in Stamps /\ o.docs \in Documented /\ o.held \in Caches /\ o.todo \subseteq Paths
  BY DEF OpenRecord
<1> QED BY <1>1, OfAFunction DEF Stamps, Documented

LEMMA StampStep ==
  ASSUME OpeningInv, NEW r \in Readers, Opens!Stamp(r)
  PROVE  OpeningInv'
<1> DEFINE o == opening[r]
<1>1. /\ o \in OpenRecord /\ Opener(o, texts, unseen, clock) /\ o.stage = "load"
      /\ opening \in [Readers -> OpenRecord] /\ cache' = cache /\ clock \in Nat
      /\ texts' = texts /\ names' = names /\ clock' = clock /\ pending' = pending /\ unseen' = unseen
  BY DEF OpeningInv, Opens!Stamp
<1>2. PICK p \in o.todo \ DOMAIN o.stamped :
        \/ /\ p \in DOMAIN texts /\ Opens!Believed(o.held, p, texts[p].at)
           /\ opening' = [opening EXCEPT
                 ![r].todo = @ \ {p},
                 ![r].taken = @ \cup {p},
                 ![r].stamped = Opens!With(@, p, texts[p].at),
                 ![r].docs = Opens!With(@, p, o.held.held[p].text)]
        \/ opening' = [opening EXCEPT
                 ![r].stamped = Opens!With(@, p, IF p \in DOMAIN texts THEN texts[p].at ELSE 0)]
  BY DEF Opens!Stamp
<1>3. p \in Paths /\ p \notin DOMAIN o.docs
  BY <1>1, <1>2, OfAnOpen DEF Opener
<1>4. CASE /\ p \in DOMAIN texts /\ Opens!Believed(o.held, p, texts[p].at)
           /\ opening' = [opening EXCEPT
                 ![r].todo = @ \ {p},
                 ![r].taken = @ \cup {p},
                 ![r].stamped = Opens!With(@, p, texts[p].at),
                 ![r].docs = Opens!With(@, p, o.held.held[p].text)]
  <2> DEFINE t == o.held.held[p].text
             at == texts[p].at
             stamped == Opens!With(o.stamped, p, at)
             docs == Opens!With(o.docs, p, t)
             q == [o EXCEPT !.todo = @ \ {p}, !.taken = @ \cup {p}, !.stamped = stamped, !.docs = docs]
  <2>1. /\ p \in DOMAIN o.held.held /\ o.held.held[p].at = at /\ at < o.held.at
    BY <1>4 DEF Opens!Believed
  <2>2. t \in RevisionTexts \ Unparsable /\ at \in Nat /\ at <= clock
    BY <1>1, <1>4, <2>1, OfAHeld, OfTheFiles, OfAnOpen
  <2>3. SaysSo(p, at, t, texts, unseen)
    BY <1>1, <2>1 DEF Opener, Under, Vouches
  <2>4. p \in unseen \/ texts[p].text = t
    BY <1>4, <2>3 DEF SaysSo
  <2>5. opening' = [opening EXCEPT ![r].todo = @ \ {p}, ![r].taken = @ \cup {p},
                                   ![r].stamped = stamped, ![r].docs = docs]
    BY <1>1, <1>4
  <2>6. /\ DOMAIN docs = DOMAIN o.docs \cup {p} /\ docs[p] = t
        /\ \A z \in DOMAIN o.docs \ {p} : docs[z] = o.docs[z]
        /\ DOMAIN stamped = DOMAIN o.stamped \cup {p} /\ stamped[p] = at
        /\ \A z \in DOMAIN o.stamped \ {p} : stamped[z] = o.stamped[z]
    <3> HIDE DEF t, at
    <3> QED BY DEF Opens!With
  <2>7. stamped \in Stamps /\ docs \in Documented
    <3> HIDE DEF t, at
    <3> QED BY <1>1, <1>3, <2>2, OfAnOpen, WithStays DEF Stamps, Documented
  <2> HIDE DEF t, at, stamped, docs
  <2>8. q \in OpenRecord
    BY <1>1, <1>3, <2>7 DEF OpenRecord
  <2>9. /\ q.stage = "load" /\ q.todo = o.todo \ {p} /\ q.held = o.held /\ q.stamped = stamped
        /\ q.docs = docs /\ q.disturbed = o.disturbed /\ q.filed = o.filed
    BY <1>1 DEF OpenRecord
  <2>10. opening' = [opening EXCEPT ![r] = q]
    BY <1>1, <1>3, <2>5, <2>7 DEF OpenRecord
  <2> HIDE DEF q
  <2>11. Stamped(q, texts, unseen)
    BY <1>1, <1>3, <2>3, <2>6, <2>9 DEF Opener, Stamped, SaysSo
  <2>12. TookIt(q, texts, unseen)
    BY <1>1, <1>3, <2>4, <2>6, <2>9 DEF Opener, TookIt
  <2>13. OnItsWay(q, texts)
    BY <1>1, <2>6, <2>9 DEF Opener, OnItsWay
  <2>14. (\A z \in DOMAIN q.stamped : q.stamped[z] <= clock) /\ DOMAIN q.docs \subseteq DOMAIN q.stamped
    BY <1>1, <2>2, <2>6, <2>9 DEF Opener
  <2>15. Opener(q, texts, unseen, clock)
    BY <1>1, <2>9, <2>11, <2>12, <2>13, <2>14 DEF Opener, Under, WasTold, HasNamed, GaveUp
  <2> QED BY <1>1, <2>8, <2>10, <2>15, CacheStands, ReaderStep
<1>5. CASE opening' = [opening EXCEPT
                 ![r].stamped = Opens!With(@, p, IF p \in DOMAIN texts THEN texts[p].at ELSE 0)]
  <2> DEFINE at == IF p \in DOMAIN texts THEN texts[p].at ELSE 0
             stamped == Opens!With(o.stamped, p, at)
             q == [o EXCEPT !.stamped = stamped]
  <2>1. at \in Nat /\ at <= clock
    BY <1>1, OfTheFiles
  <2>2. opening' = [opening EXCEPT ![r].stamped = stamped]
    BY <1>1, <1>5
  <2>3. /\ DOMAIN stamped = DOMAIN o.stamped \cup {p} /\ stamped[p] = at
        /\ \A z \in DOMAIN o.stamped \ {p} : stamped[z] = o.stamped[z]
    <3> HIDE DEF at
    <3> QED BY DEF Opens!With
  <2>4. stamped \in Stamps
    <3> HIDE DEF at
    <3> QED BY <1>1, <1>3, <2>1, OfAnOpen, WithStays DEF Stamps
  <2> HIDE DEF at, stamped
  <2>5. q \in OpenRecord
    BY <1>1, <2>4 DEF OpenRecord
  <2>6. /\ q.stage = "load" /\ q.todo = o.todo /\ q.held = o.held /\ q.stamped = stamped
        /\ q.docs = o.docs /\ q.disturbed = o.disturbed /\ q.filed = o.filed
    BY <1>1 DEF OpenRecord
  <2>7. opening' = [opening EXCEPT ![r] = q]
    BY <1>1, <2>2, <2>4 DEF OpenRecord
  <2> HIDE DEF q
  <2>8. Stamped(q, texts, unseen)
    BY <1>1, <1>3, <2>3, <2>6 DEF Opener, Stamped, SaysSo
  <2>9. (\A z \in DOMAIN q.stamped : q.stamped[z] <= clock) /\ DOMAIN q.docs \subseteq DOMAIN q.stamped
    BY <1>1, <2>1, <2>3, <2>6 DEF Opener
  <2>10. Opener(q, texts, unseen, clock)
    BY <1>1, <2>6, <2>8, <2>9 DEF Opener, Under, OnItsWay, TookIt, WasTold, HasNamed, GaveUp
  <2> QED BY <1>1, <2>5, <2>7, <2>10, CacheStands, ReaderStep
<1> QED BY <1>2, <1>4, <1>5

LEMMA ReadFileStep ==
  ASSUME OpeningInv, NEW r \in Readers, Opens!ReadFile(r)
  PROVE  OpeningInv'
<1> DEFINE o == opening[r]
<1>1. /\ o \in OpenRecord /\ Opener(o, texts, unseen, clock) /\ o.stage = "load"
      /\ opening \in [Readers -> OpenRecord] /\ cache' = cache
      /\ texts' = texts /\ names' = names /\ clock' = clock /\ pending' = pending /\ unseen' = unseen
  BY DEF OpeningInv, Opens!ReadFile
<1>2. PICK p \in o.todo \cap DOMAIN o.stamped :
        \/ /\ p \in DOMAIN texts /\ texts[p].text \notin Unparsable
           /\ opening' = [opening EXCEPT ![r].todo = @ \ {p},
                                         ![r].docs = Opens!With(@, p, texts[p].text)]
        \/ /\ ~(p \in DOMAIN texts /\ texts[p].text \notin Unparsable)
           /\ opening' = [opening EXCEPT ![r].stage = "refused"]
  BY DEF Opens!ReadFile
<1>3. p \in Paths
  BY <1>1, <1>2, OfAnOpen
<1>4. CASE /\ p \in DOMAIN texts /\ texts[p].text \notin Unparsable
           /\ opening' = [opening EXCEPT ![r].todo = @ \ {p},
                                         ![r].docs = Opens!With(@, p, texts[p].text)]
  <2> DEFINE t == texts[p].text
             docs == Opens!With(o.docs, p, t)
             q == [o EXCEPT !.todo = @ \ {p}, !.docs = docs]
  <2>1. t \in RevisionTexts \ Unparsable
    BY <1>4, OfTheFiles
  <2>2. opening' = [opening EXCEPT ![r].todo = @ \ {p}, ![r].docs = docs]
    BY <1>1, <1>4
  <2>3. /\ DOMAIN docs = DOMAIN o.docs \cup {p} /\ docs[p] = t
        /\ \A z \in DOMAIN o.docs \ {p} : docs[z] = o.docs[z]
    <3> HIDE DEF t
    <3> QED BY DEF Opens!With
  <2>4. docs \in Documented
    <3> HIDE DEF t
    <3> QED BY <1>1, <1>3, <2>1, OfAnOpen, WithStays DEF Documented
  <2>5. t = texts[p].text
    OBVIOUS
  <2> HIDE DEF t, docs
  <2>6. q \in OpenRecord
    BY <1>1, <2>4 DEF OpenRecord
  <2>7. /\ q.stage = "load" /\ q.todo = o.todo \ {p} /\ q.held = o.held /\ q.stamped = o.stamped
        /\ q.docs = docs /\ q.disturbed = o.disturbed /\ q.filed = o.filed
    BY <1>1 DEF OpenRecord
  <2>8. opening' = [opening EXCEPT ![r] = q]
    BY <1>1, <2>2, <2>4 DEF OpenRecord
  <2> HIDE DEF q
  <2>9. Stamped(q, texts, unseen) /\ TookIt(q, texts, unseen)
    BY <1>1, <2>3, <2>5, <2>7 DEF Opener, Stamped, SaysSo, TookIt
  <2>10. OnItsWay(q, texts)
    BY <1>1, <2>3, <2>7 DEF Opener, OnItsWay
  <2>11. Opener(q, texts, unseen, clock)
    BY <1>1, <1>2, <2>3, <2>7, <2>9, <2>10 DEF Opener, Under, WasTold, HasNamed, GaveUp
  <2> QED BY <1>1, <2>6, <2>8, <2>11, CacheStands, ReaderStep
<1>5. CASE /\ ~(p \in DOMAIN texts /\ texts[p].text \notin Unparsable)
           /\ opening' = [opening EXCEPT ![r].stage = "refused"]
  <2> DEFINE q == [o EXCEPT !.stage = "refused"]
  <2>1. q \in OpenRecord
    BY <1>1 DEF OpenRecord
  <2>2. /\ q.stage = "refused" /\ q.todo = o.todo /\ q.held = o.held /\ q.stamped = o.stamped
        /\ q.docs = o.docs /\ q.disturbed = o.disturbed /\ q.filed = o.filed
    BY <1>1 DEF OpenRecord
  <2>3. opening' = [opening EXCEPT ![r] = q]
    BY <1>1, <1>5 DEF OpenRecord
  <2> HIDE DEF q
  <2>4. GaveUp(q, texts)
    BY <1>1, <1>2, <1>5, <2>2 DEF Opener, OnItsWay, GaveUp
  <2>5. Opener(q, texts, unseen, clock)
    BY <1>1, <2>2, <2>4 DEF Opener, Under, OnItsWay, TookIt, WasTold, HasNamed
  <2> QED BY <1>1, <2>1, <2>3, <2>5, CacheStands, ReaderStep
<1> QED BY <1>2, <1>4, <1>5

\* What is written back says of each file what the open took it to hold under the
\* time it had looked up before.
LEMMA RenderedVouches ==
  ASSUME OpeningInv, NEW r \in Readers, opening[r].stage = "load"
  PROVE  LET h == Opens!Rendered(opening[r])
         IN  h \in Caches /\ InTime(h, clock) /\ Vouches(h, texts, unseen)
<1> DEFINE o == opening[r]
           h == Opens!Rendered(o)
           D == {p \in DOMAIN o.docs : o.stamped[p] > 0}
           held == [p \in D |-> [text |-> o.docs[p], at |-> o.stamped[p]]]
<1>1. /\ o \in OpenRecord /\ Opener(o, texts, unseen, clock) /\ clock \in Nat
  BY DEF OpeningInv
<1>2. h = [at |-> clock, held |-> held]
  BY DEF Opens!Rendered
<1>3. D \in SUBSET Paths /\ \A p \in D : /\ o.docs[p] \in RevisionTexts \ Unparsable
                                         /\ o.stamped[p] \in Nat /\ o.stamped[p] \in 1 .. clock
  BY <1>1, OfAnOpen DEF Opener
<1>4. held \in [D -> [text : RevisionTexts \ Unparsable, at : Nat]]
  BY <1>3
<1>5. held \in Held
  BY <1>3, <1>4 DEF Held
<1>6. h \in Caches
  BY <1>1, <1>2, <1>5 DEF Caches
<1>7. h.at = clock /\ DOMAIN h.held = D
      /\ \A p \in D : h.held[p].text = o.docs[p] /\ h.held[p].at = o.stamped[p]
  BY <1>2
<1>8. Stamped(o, texts, unseen)
  BY <1>1 DEF Opener
<1> HIDE DEF h
<1>9. InTime(h, clock)
  BY <1>1, <1>3, <1>7 DEF InTime
<1>10. Vouches(h, texts, unseen)
  BY <1>7, <1>8 DEF Vouches, Stamped
<1> QED BY <1>6, <1>9, <1>10 DEF h

LEMMA WriteBackStep ==
  ASSUME OpeningInv, NEW r \in Readers, Opens!Write(r)
  PROVE  OpeningInv'
<1> DEFINE o == opening[r]
           q == [o EXCEPT !.stage = "names"]
<1>1. /\ o \in OpenRecord /\ Opener(o, texts, unseen, clock) /\ o.stage = "load" /\ o.todo = {}
      /\ opening \in [Readers -> OpenRecord]
      /\ texts' = texts /\ names' = names /\ clock' = clock /\ pending' = pending /\ unseen' = unseen
      /\ opening' = [opening EXCEPT ![r].stage = "names"]
      /\ cache' \in {cache, Opens!Rendered(o)}
  BY DEF OpeningInv, Opens!Write
<1>2. q \in OpenRecord
  BY <1>1 DEF OpenRecord
<1>3. /\ q.stage = "names" /\ q.todo = o.todo /\ q.held = o.held /\ q.stamped = o.stamped
      /\ q.docs = o.docs /\ q.disturbed = o.disturbed /\ q.filed = o.filed
  BY <1>1 DEF OpenRecord
<1>4. opening' = [opening EXCEPT ![r] = q]
  BY <1>1 DEF OpenRecord
<1> HIDE DEF q
<1>5. Opener(q, texts, unseen, clock)
  BY <1>1, <1>3 DEF Opener, Under, OnItsWay, TookIt, WasTold, HasNamed, GaveUp
<1>6. cache' \in Caches /\ InTime(cache', clock) /\ Vouches(cache', texts, unseen)
  BY <1>1, CacheStands, RenderedVouches
<1> QED BY <1>1, <1>2, <1>4, <1>5, <1>6, ReaderStep

\* The bookmarks are read last, so what they name is in the history already, or
\* somebody filed it meanwhile, or another text is believed to be in its file.
LEMMA ReadNamesStep ==
  ASSUME OpeningInv, NEW r \in Readers, Opens!ReadNames(r)
  PROVE  OpeningInv'
<1> DEFINE o == opening[r]
           q == [o EXCEPT !.stage = "open", !.named = names, !.held = Opens!NoCache]
<1>1. /\ o \in OpenRecord /\ Opener(o, texts, unseen, clock) /\ o.stage = "names"
      /\ opening \in [Readers -> OpenRecord] /\ cache' = cache /\ names \in Named /\ clock \in Nat
      /\ texts' = texts /\ names' = names /\ clock' = clock /\ pending' = pending /\ unseen' = unseen
      /\ opening' = [opening EXCEPT ![r].stage = "open", ![r].named = names, ![r].held = Opens!NoCache]
  BY DEF OpeningInv, Opens!ReadNames
<1>2. q \in OpenRecord
  BY <1>1, ClosedReader DEF OpenRecord
<1>3. /\ q.stage = "open" /\ q.todo = o.todo /\ q.held = Opens!NoCache /\ q.stamped = o.stamped
      /\ q.docs = o.docs /\ q.disturbed = o.disturbed /\ q.filed = o.filed /\ q.named = names
  BY <1>1 DEF OpenRecord
<1>4. opening' = [opening EXCEPT ![r] = q]
  BY <1>1, ClosedReader DEF OpenRecord
<1> HIDE DEF q
<1>5. InTime(q.held, clock)
  BY <1>1, <1>3, ClosedReader, NothingYet DEF InTime
<1>6. HasNamed(q, texts, unseen)
  <2> SUFFICES ASSUME NEW b \in DOMAIN names, names[b] \notin Opens!Range(o.docs),
                      names[b] \notin o.filed,
                      NEW p \in DOMAIN texts, texts[p].text = names[b]
               PROVE  p \in unseen
    BY <1>3 DEF HasNamed
  <2>1. p \notin o.disturbed
    BY <1>1 DEF Opener, WasTold
  <2>2. p \in DOMAIN o.docs
    BY <1>1, <2>1 DEF Opener, OnItsWay
  <2>3. o.docs[p] # names[b]
    BY <2>2 DEF Opens!Range
  <2> QED BY <1>1, <2>1, <2>2, <2>3 DEF Opener, TookIt
<1>7. Opener(q, texts, unseen, clock)
  BY <1>1, <1>3, <1>5, <1>6 DEF Opener, Under, OnItsWay, TookIt, WasTold, GaveUp
<1> QED BY <1>1, <1>2, <1>4, <1>7, CacheStands, ReaderStep
-----------------------------------------------------------------------------
(* Everybody else: what touches a path tells whoever is opening, and hides  *)
(* the path where it puts another text there under a time that was noted.   *)

LEMMA NotedIs ==
  ASSUME NEW p
  PROVE  /\ p \in DOMAIN cache.held /\ cache.held[p].at < cache.at =>
              cache.held[p].at \in Opens!Noted(p)
         /\ \A r \in Readers : opening[r].stage \in Under =>
              /\ p \in DOMAIN opening[r].held.held /\ opening[r].held.held[p].at < opening[r].held.at =>
                   opening[r].held.held[p].at \in Opens!Noted(p)
              /\ p \in DOMAIN opening[r].stamped => opening[r].stamped[p] \in Opens!Noted(p)
<1>1. \A r \in Readers : opening[r].stage \in Under => r \in Opens!Underway
  BY DEF Opens!Underway, Under
<1> DEFINE all == {cache} \cup {opening[r].held : r \in Opens!Underway}
<1>2. cache \in all /\ \A r \in Opens!Underway : opening[r].held \in all
  OBVIOUS
<1>3. \A h \in all : p \in DOMAIN h.held /\ h.held[p].at < h.at => h.held[p].at \in Opens!Noted(p)
  BY DEF Opens!Noted
<1>4. \A r \in Opens!Underway : p \in DOMAIN opening[r].stamped => opening[r].stamped[p] \in Opens!Noted(p)
  BY DEF Opens!Noted
<1> HIDE DEF all
<1> QED BY <1>1, <1>2, <1>3, <1>4

\* Two directories that differ at some paths only, and what is hidden in each.
Alter(ps, f, g, hidden, hid) ==
  /\ \A p \in Paths \ ps : /\ p \in DOMAIN g <=> p \in DOMAIN f
                           /\ p \in DOMAIN f => g[p] = f[p]
                           /\ p \in hid <=> p \in hidden
  /\ DOMAIN f \subseteq Paths /\ DOMAIN g \subseteq Paths

LEMMA VouchesStill ==
  ASSUME NEW ps, NEW f, NEW g, NEW hidden, NEW hid, Alter(ps, f, g, hidden, hid),
         NEW h, Vouches(h, f, hidden),
         \A p \in ps \cap DOMAIN g :
            p \in DOMAIN h.held /\ h.held[p].at < h.at /\ h.held[p].at = g[p].at => p \in hid
  PROVE  Vouches(h, g, hid)
  BY DEF Vouches, SaysSo, Alter

LEMMA StampedStill ==
  ASSUME NEW ps, NEW f, NEW g, NEW hidden, NEW hid, Alter(ps, f, g, hidden, hid),
         NEW o, Stamped(o, f, hidden), DOMAIN o.docs \subseteq DOMAIN o.stamped,
         \A p \in ps \cap DOMAIN g : p \in DOMAIN o.stamped /\ o.stamped[p] = g[p].at => p \in hid
  PROVE  Stamped(o, g, hid)
  BY DEF Stamped, SaysSo, Alter

LEMMA NobodyIsOpening ==
  ASSUME NEW f, NEW hidden, clock \in Nat
  PROVE  Opener(Opens!Closed, f, hidden, clock)
  BY ClosedReader, NothingYet
     DEF Opener, Under, InTime, OnItsWay, TookIt, WasTold, HasNamed, GaveUp

LEMMA OpenerIsTold ==
  ASSUME OpeningInv, NEW r \in Readers, NEW ps \in SUBSET Paths, ps # {}, NEW ts \in SUBSET RevisionTexts,
         NEW g, NEW hid, Alter(ps, texts, g, unseen, hid),
         \A p \in ps \cap DOMAIN g :
            g[p].text \in ts /\ (g[p].at \in Opens!Noted(p) => p \in hid),
         NEW q, q = Opens!Disturb(ps, ts)[r]
  PROVE  q \in OpenRecord /\ Opener(q, g, hid, clock)
<1> DEFINE o == opening[r]
<1>1. o \in OpenRecord /\ Opener(o, texts, unseen, clock) /\ clock \in Nat
  BY DEF OpeningInv
<1>2. CASE o.stage = "closed"
  <2>1. q = Opens!Closed
    BY <1>1, <1>2 DEF Opens!Disturb, Opener
  <2> QED BY <1>1, <2>1, ClosedReader, NobodyIsOpening
<1>3. CASE o.stage # "closed"
  <2>1. q = [o EXCEPT !.disturbed = @ \cup ps, !.filed = @ \cup ts]
    BY <1>3 DEF Opens!Disturb
  <2>2. q \in OpenRecord
    BY <1>1, <2>1 DEF OpenRecord
  <2>3. /\ q.stage = o.stage /\ q.dirs = o.dirs /\ q.todo = o.todo /\ q.held = o.held
        /\ q.stamped = o.stamped /\ q.docs = o.docs /\ q.named = o.named
        /\ q.disturbed = o.disturbed \cup ps /\ q.filed = o.filed \cup ts
    BY <1>1, <2>1 DEF OpenRecord
  <2>4. o.todo \subseteq Paths /\ DOMAIN o.docs \subseteq Paths
    BY <1>1, OfAnOpen
  <2>5. q.stage \in Under => Vouches(q.held, g, hid)
    <3> SUFFICES ASSUME o.stage \in Under PROVE Vouches(o.held, g, hid)
      BY <2>3
    <3>1. Vouches(o.held, texts, unseen)
      BY <1>1 DEF Opener
    <3>2. \A p \in ps \cap DOMAIN g :
             p \in DOMAIN o.held.held /\ o.held.held[p].at < o.held.at /\ o.held.held[p].at = g[p].at
               => p \in hid
      BY NotedIs
    <3> HIDE DEF o
    <3> QED BY <3>1, <3>2, VouchesStill
  <2>6. q.stage = "load" => Stamped(q, g, hid)
    <3> SUFFICES ASSUME o.stage = "load" PROVE Stamped(o, g, hid)
      BY <2>3 DEF Stamped
    <3>1. Stamped(o, texts, unseen) /\ DOMAIN o.docs \subseteq DOMAIN o.stamped
      BY <1>1 DEF Opener
    <3>2. \A p \in ps \cap DOMAIN g : p \in DOMAIN o.stamped /\ o.stamped[p] = g[p].at => p \in hid
      BY NotedIs DEF Under
    <3> HIDE DEF o
    <3> QED BY <3>1, <3>2, StampedStill
  <2> HIDE DEF o
  <2>7. OnItsWay(q, g)
    BY <1>1, <2>3, <2>4 DEF Opener, OnItsWay, Alter
  <2>8. TookIt(q, g, hid) /\ WasTold(q, g)
    BY <1>1, <1>3, <2>3, <2>4 DEF Opener, TookIt, WasTold, Alter
  <2>9. HasNamed(q, g, hid)
    BY <1>1, <2>3 DEF Opener, HasNamed, Alter
  <2>10. GaveUp(q, g)
    BY <2>3 DEF GaveUp
  <2> QED BY <1>1, <1>3, <2>2, <2>3, <2>5, <2>6, <2>7, <2>8, <2>9, <2>10 DEF Opener, Under
<1> QED BY <1>2, <1>3

LEMMA TouchStep ==
  ASSUME OpeningInv, NEW ps \in SUBSET Paths, ps # {}, NEW ts \in SUBSET RevisionTexts,
         opening' = Opens!Disturb(ps, ts), texts' \in Filed,
         Alter(ps, texts, texts', unseen, unseen'),
         \A p \in ps \cap DOMAIN texts' :
            /\ texts'[p].text \in ts /\ texts'[p].at <= clock
            /\ texts'[p].at \in Opens!Noted(p) => p \in unseen',
         unseen' \subseteq Paths, clock' = clock, cache' = cache,
         names' \in Named, pending' \in Named
  PROVE  OpeningInv'
<1>1. \A r \in Readers : opening'[r] \in OpenRecord /\ Opener(opening'[r], texts', unseen', clock)
  BY OpenerIsTold
<1>2. opening' \in [Readers -> OpenRecord]
  BY <1>1 DEF Opens!Disturb
<1>3. Vouches(cache, texts', unseen')
  <2>1. Vouches(cache, texts, unseen)
    BY DEF OpeningInv
  <2> QED BY <2>1, NotedIs, VouchesStill
<1>4. \A p \in DOMAIN texts' : texts'[p].at <= clock
  BY DEF OpeningInv, Alter
<1> QED BY <1>1, <1>2, <1>3, <1>4 DEF OpeningInv

\* A text comes to a path under a time.
LEMMA PutAlters ==
  ASSUME OpeningInv, NEW p \in Paths, NEW f, NEW g, NEW at, NEW hidden,
         hidden = Opens!Unseen(p, at), NEW ps \in SUBSET Paths, p \in ps,
         \A x \in Paths \ ps : /\ x \in DOMAIN g <=> x \in DOMAIN f
                               /\ x \in DOMAIN f => g[x] = f[x],
         DOMAIN f \subseteq Paths, DOMAIN g \subseteq Paths
  PROVE  /\ Alter(ps, f, g, unseen, hidden) /\ hidden \subseteq Paths
         /\ at \in Opens!Noted(p) => p \in hidden
  BY DEF Alter, Opens!Unseen, OpeningInv

LEMMA RecordStep ==
  ASSUME OpeningInv, Opens!Record
  PROVE  OpeningInv'
<1>1. PICK b \in Names \ DOMAIN pending, t \in RevisionTexts \ (Opens!TextsHere \cup Unparsable),
           p \in Paths \ DOMAIN texts :
        /\ texts' = Opens!With(texts, p, [text |-> t, at |-> clock])
        /\ pending' = Opens!With(pending, b, t)
        /\ opening' = Opens!Disturb({p}, {t})
        /\ unseen' = Opens!Unseen(p, clock)
  BY DEF Opens!Record
<1>2. names' = names /\ cache' = cache /\ clock' = clock /\ clock \in Nat \ {0} /\ names \in Named
      /\ pending \in Named
  BY DEF Opens!Record, OpeningInv
<1> DEFINE file == [text |-> t, at |-> clock]
<1>3. file \in [text : RevisionTexts, at : Nat \ {0}] /\ file.text = t /\ file.at = clock
  BY <1>2
<1> HIDE DEF file
<1>4. texts' = Opens!With(texts, p, file)
  BY <1>1 DEF file
<1>5. texts' \in Filed
  BY <1>3, <1>4, OfTheFiles, WithStays DEF Filed
<1>6. pending' \in Named
  <2>1. DOMAIN pending \in SUBSET Names /\ pending \in [DOMAIN pending -> RevisionTexts]
    BY <1>2, OfAFunction DEF Named
  <2> QED BY <1>1, <2>1, WithStays DEF Named
<1>7. /\ DOMAIN texts' = DOMAIN texts \cup {p} /\ texts'[p] = file
      /\ \A x \in DOMAIN texts \ {p} : texts'[x] = texts[x]
  BY <1>4 DEF Opens!With
<1>8. /\ Alter({p}, texts, texts', unseen, unseen') /\ unseen' \subseteq Paths
      /\ clock \in Opens!Noted(p) => p \in unseen'
  <2>1. DOMAIN texts \subseteq Paths /\ DOMAIN texts' \subseteq Paths /\ {p} \in SUBSET Paths
    BY <1>1, <1>7, OfTheFiles
  <2>2. \A x \in Paths \ {p} : /\ x \in DOMAIN texts' <=> x \in DOMAIN texts
                               /\ x \in DOMAIN texts => texts'[x] = texts[x]
    BY <1>7
  <2> QED BY <1>1, <2>1, <2>2, PutAlters
<1> QED BY <1>1, <1>2, <1>3, <1>5, <1>6, <1>7, <1>8, TouchStep

LEMMA EditStep ==
  ASSUME OpeningInv, Opens!Edit
  PROVE  OpeningInv'
<1>1. PICK p \in DOMAIN texts, t \in RevisionTexts \ Opens!TextsHere :
        /\ texts' = [texts EXCEPT ![p] = [text |-> t, at |-> clock]]
        /\ opening' = Opens!Disturb({p}, {t, texts[p].text})
        /\ unseen' = Opens!Unseen(p, clock)
  BY DEF Opens!Edit
<1>2. names' = names /\ cache' = cache /\ clock' = clock /\ clock \in Nat \ {0} /\ names \in Named
      /\ pending \in Named /\ pending' = pending
  BY DEF Opens!Edit, OpeningInv
<1> DEFINE file == [text |-> t, at |-> clock]
<1>3. file \in [text : RevisionTexts, at : Nat \ {0}] /\ file.text = t /\ file.at = clock
  BY <1>2
<1> HIDE DEF file
<1>4. texts' = [texts EXCEPT ![p] = file]
  BY <1>1 DEF file
<1>5. texts' \in [DOMAIN texts -> [text : RevisionTexts, at : Nat \ {0}]] /\ DOMAIN texts \in SUBSET Paths
  BY <1>3, <1>4, OfTheFiles
<1>6. texts' \in Filed
  BY <1>5 DEF Filed
<1>7. /\ DOMAIN texts' = DOMAIN texts /\ texts'[p] = file
      /\ \A x \in DOMAIN texts \ {p} : texts'[x] = texts[x]
  BY <1>1, <1>4, OfTheFiles
<1>8. /\ Alter({p}, texts, texts', unseen, unseen') /\ unseen' \subseteq Paths
      /\ clock \in Opens!Noted(p) => p \in unseen'
  <2>1. DOMAIN texts \subseteq Paths /\ DOMAIN texts' \subseteq Paths /\ {p} \in SUBSET Paths
        /\ p \in Paths
    BY <1>5, <1>7
  <2>2. \A x \in Paths \ {p} : /\ x \in DOMAIN texts' <=> x \in DOMAIN texts
                               /\ x \in DOMAIN texts => texts'[x] = texts[x]
    BY <1>7
  <2>3. unseen' = Opens!Unseen(p, clock)
    BY <1>1
  <2> QED BY <2>1, <2>2, <2>3, PutAlters
<1>9. {t, texts[p].text} \in SUBSET RevisionTexts /\ {p} \in SUBSET Paths
  BY <1>1, OfTheFiles
<1>10. \A x \in {p} \cap DOMAIN texts' :
         /\ texts'[x].text \in {t, texts[p].text} /\ texts'[x].at <= clock
         /\ texts'[x].at \in Opens!Noted(x) => x \in unseen'
  BY <1>2, <1>3, <1>7, <1>8
<1>11. opening' = Opens!Disturb({p}, {t, texts[p].text})
  BY <1>1
<1> QED BY <1>2, <1>6, <1>8, <1>9, <1>10, <1>11, TouchStep

LEMMA RenameStep ==
  ASSUME OpeningInv, Opens!Rename
  PROVE  OpeningInv'
<1>1. PICK p \in DOMAIN texts, q \in Paths \ DOMAIN texts :
        /\ texts' = Opens!With(Opens!Without(texts, p), q, texts[p])
        /\ opening' = Opens!Disturb({p, q}, {texts[p].text})
        /\ unseen' = Opens!Unseen(q, texts[p].at) \ {p}
  BY DEF Opens!Rename
<1>2. names' = names /\ cache' = cache /\ clock' = clock /\ names \in Named
      /\ pending \in Named /\ pending' = pending
  BY DEF Opens!Rename, OpeningInv
<1>3. /\ DOMAIN texts' = (DOMAIN texts \ {p}) \cup {q} /\ texts'[q] = texts[p]
      /\ \A x \in DOMAIN texts \ {p} : texts'[x] = texts[x]
  BY <1>1 DEF Opens!With, Opens!Without, Opens!Restrict
<1>4. texts' \in Filed
  <2>1. Opens!Without(texts, p) \in Filed
    BY OfTheFiles, WithoutStays DEF Filed
  <2>2. /\ DOMAIN Opens!Without(texts, p) \in SUBSET Paths
        /\ Opens!Without(texts, p) \in
              [DOMAIN Opens!Without(texts, p) -> [text : RevisionTexts, at : Nat \ {0}]]
    BY <2>1, OfAFunction DEF Filed
  <2>3. texts[p] \in [text : RevisionTexts, at : Nat \ {0}]
    BY <1>1, OfTheFiles
  <2> QED BY <1>1, <2>2, <2>3, WithStays DEF Filed
<1> DEFINE hidden == Opens!Unseen(q, texts[p].at)
<1>5. /\ Alter({p, q}, texts, texts', unseen, hidden) /\ hidden \subseteq Paths
      /\ texts[p].at \in Opens!Noted(q) => q \in hidden
  <2> DEFINE at == texts[p].at
  <2>1. DOMAIN texts \subseteq Paths /\ DOMAIN texts' \subseteq Paths /\ {p, q} \in SUBSET Paths
    BY <1>1, <1>3, OfTheFiles
  <2>2. hidden = Opens!Unseen(q, at)
    OBVIOUS
  <2> HIDE DEF at, hidden
  <2>3. /\ Alter({p, q}, texts, texts', unseen, hidden) /\ hidden \subseteq Paths
        /\ at \in Opens!Noted(q) => q \in hidden
    BY <1>1, <1>3, <2>1, <2>2, PutAlters
  <2> QED BY <2>3 DEF at
<1>6. unseen' = hidden \ {p} /\ p # q
  BY <1>1
<1> HIDE DEF hidden
<1>7. /\ Alter({p, q}, texts, texts', unseen, unseen') /\ unseen' \subseteq Paths
      /\ texts[p].at \in Opens!Noted(q) => q \in unseen'
  BY <1>5, <1>6 DEF Alter
<1>8. {texts[p].text} \in SUBSET RevisionTexts /\ {p, q} \in SUBSET Paths /\ texts[p].at <= clock
      /\ {p, q} \cap DOMAIN texts' = {q}
  BY <1>1, <1>3, OfTheFiles
<1> QED BY <1>1, <1>2, <1>3, <1>4, <1>7, <1>8, TouchStep

LEMMA PruneFileStep ==
  ASSUME OpeningInv, Opens!Prune
  PROVE  OpeningInv'
<1>1. PICK p \in DOMAIN texts :
        /\ texts' = Opens!Without(texts, p)
        /\ opening' = Opens!Disturb({p}, {texts[p].text})
        /\ unseen' = unseen \ {p}
  BY DEF Opens!Prune
<1>2. names' = names /\ cache' = cache /\ clock' = clock /\ names \in Named
      /\ pending \in Named /\ pending' = pending /\ unseen \subseteq Paths
  BY DEF Opens!Prune, OpeningInv
<1>3. /\ DOMAIN texts' = DOMAIN texts \ {p}
      /\ \A x \in DOMAIN texts \ {p} : texts'[x] = texts[x]
  BY <1>1 DEF Opens!Without, Opens!Restrict
<1>4. texts' \in Filed
  BY <1>1, OfTheFiles, WithoutStays DEF Filed
<1>5. Alter({p}, texts, texts', unseen, unseen') /\ unseen' \subseteq Paths
  BY <1>1, <1>2, <1>3, OfTheFiles DEF Alter
<1>6. {texts[p].text} \in SUBSET RevisionTexts /\ {p} \in SUBSET Paths /\ {p} \cap DOMAIN texts' = {}
  BY <1>3, OfTheFiles
<1> QED BY <1>1, <1>2, <1>4, <1>5, <1>6, TouchStep

LEMMA BookmarkStep ==
  ASSUME OpeningInv, Opens!MoveTheName \/ Opens!StopRecording
  PROVE  OpeningInv'
<1>1. /\ texts' = texts /\ cache' = cache /\ clock' = clock /\ opening' = opening /\ unseen' = unseen
      /\ names \in Named /\ pending \in Named
  BY DEF Opens!MoveTheName, Opens!StopRecording, OpeningInv
<1>2. DOMAIN pending \in SUBSET Names /\ pending \in [DOMAIN pending -> RevisionTexts]
      /\ DOMAIN names \in SUBSET Names /\ names \in [DOMAIN names -> RevisionTexts]
  BY <1>1, OfAFunction DEF Named
<1>3. PICK b \in DOMAIN pending :
        /\ pending' = Opens!Without(pending, b)
        /\ names' = names \/ names' = Opens!With(names, b, pending[b])
  BY DEF Opens!MoveTheName, Opens!StopRecording
<1>4. pending' \in Named
  BY <1>2, <1>3, WithoutStays DEF Named
<1>5. names' \in Named
  <2>1. b \in Names /\ pending[b] \in RevisionTexts
    BY <1>2
  <2>2. Opens!With(names, b, pending[b]) \in Named
    BY <1>2, <2>1, WithStays DEF Named
  <2> QED BY <1>1, <1>3, <2>2
<1> QED BY <1>1, <1>4, <1>5 DEF OpeningInv

LEMMA LaterIsInTime ==
  ASSUME NEW now \in Nat, NEW h \in Caches, InTime(h, now)
  PROVE  InTime(h, now + 1)
  BY OfAHeld DEF InTime

LEMMA TickStep ==
  ASSUME OpeningInv, Opens!Tick
  PROVE  OpeningInv'
<1>1. /\ clock' = clock + 1 /\ texts' = texts /\ names' = names /\ cache' = cache
      /\ pending' = pending /\ opening' = opening /\ unseen' = unseen
      /\ clock \in Nat \ {0} /\ cache \in Caches
  BY DEF Opens!Tick, OpeningInv
<1>2. \A r \in Readers : Opener(opening[r], texts, unseen, clock + 1)
  <2> SUFFICES ASSUME NEW r \in Readers PROVE Opener(opening[r], texts, unseen, clock + 1)
    OBVIOUS
  <2> DEFINE o == opening[r]
  <2>1. o \in OpenRecord /\ Opener(o, texts, unseen, clock)
    BY DEF OpeningInv
  <2> HIDE DEF o
  <2>2. o.held \in Caches /\ DOMAIN o.stamped \in SUBSET Paths /\ o.stamped \in [DOMAIN o.stamped -> Nat]
    BY <2>1, OfAnOpen
  <2>3. InTime(o.held, clock + 1)
    BY <1>1, <2>1, <2>2, LaterIsInTime DEF Opener
  <2>4. \A p \in DOMAIN o.stamped : o.stamped[p] <= clock + 1
    BY <1>1, <2>1, <2>2 DEF Opener
  <2>5. Opener(o, texts, unseen, clock + 1)
    BY <2>1, <2>3, <2>4 DEF Opener
  <2> QED BY <2>5 DEF o
<1>3. InTime(cache, clock + 1)
  BY <1>1, LaterIsInTime DEF OpeningInv
<1>4. \A p \in DOMAIN texts : texts[p].at <= clock + 1
  BY <1>1, OfTheFiles
<1> QED BY <1>1, <1>2, <1>3, <1>4 DEF OpeningInv

-----------------------------------------------------------------------------
LEMMA OpeningInvInit ==
  ASSUME Opens!Init
  PROVE  OpeningInv
<1>1. /\ texts = Opens!Nothing /\ names = Opens!Nothing /\ pending = Opens!Nothing
      /\ cache = Opens!NoCache /\ clock = 1 /\ unseen = {}
      /\ opening = [r \in Readers |-> Opens!Closed]
  BY DEF Opens!Init
<1>2. InTime(cache, clock) /\ Vouches(cache, texts, unseen)
  BY <1>1, ClosedReader, NothingYet DEF InTime, Vouches
<1>3. \A r \in Readers : Opener(opening[r], texts, unseen, clock)
  BY <1>1, NobodyIsOpening
<1> QED
  BY <1>1, <1>2, <1>3, ClosedReader, NothingYet DEF OpeningInv

LEMMA OpeningInvNext ==
  ASSUME OpeningInv, Opens!Next
  PROVE  OpeningInv'
<1>1. ASSUME NEW r \in Readers,
             \/ Opens!Open(r) \/ Opens!List(r) \/ Opens!HeldDocuments(r) \/ Opens!Stamp(r)
             \/ Opens!ReadFile(r) \/ Opens!Write(r) \/ Opens!ReadNames(r)
      PROVE  OpeningInv'
  BY <1>1, OpenStep, ListStep, HeldDocumentsStep, StampStep, ReadFileStep, WriteBackStep,
     ReadNamesStep
<1>2. CASE \/ Opens!Record \/ Opens!MoveTheName \/ Opens!StopRecording \/ Opens!Edit
           \/ Opens!Rename \/ Opens!Prune \/ Opens!Tick
  BY <1>2, RecordStep, BookmarkStep, EditStep, RenameStep, PruneFileStep, TickStep
<1> QED BY <1>1, <1>2 DEF Opens!Next

LEMMA OpeningInvStutters ==
  ASSUME OpeningInv, UNCHANGED opensVars
  PROVE  OpeningInv'
  BY DEF OpeningInv, opensVars

LEMMA OpeningInvSuffices ==
  ASSUME OpeningInv
  PROVE  /\ Opens!TypeOK /\ Opens!StaleOnlyUnderAnOldTime /\ Opens!StandingRevisionsAreRead
         /\ Opens!NamesFindTheirRevisions /\ Opens!RefusedForAReason
<1>1. \A r \in Readers : Opener(opening[r], texts, unseen, clock)
  BY DEF OpeningInv
<1>2. Opens!TypeOK
  <2>1. DOMAIN texts \subseteq Paths
    BY OfTheFiles
  <2>2. DOMAIN names \subseteq Names
    BY OfAFunction DEF OpeningInv, Named
  <2>3. \A p \in DOMAIN cache.held : cache.held[p].text \in RevisionTexts \ Unparsable
                                     /\ cache.held[p].at \in 1 .. cache.at
    BY OfAHeld DEF OpeningInv, InTime
  <2>4. \A r \in Readers : DOMAIN opening[r].docs \subseteq DOMAIN opening[r].stamped
    BY <1>1 DEF Opener
  <2> QED BY <2>1, <2>2, <2>3, <2>4 DEF Opens!TypeOK
<1>3. Opens!StaleOnlyUnderAnOldTime
  BY <1>1 DEF Opener, TookIt, Opens!StaleOnlyUnderAnOldTime
<1>4. Opens!StandingRevisionsAreRead
  BY <1>1 DEF Opener, OnItsWay, Opens!StandingRevisionsAreRead, Opens!Opened
<1>5. Opens!NamesFindTheirRevisions
  BY <1>1 DEF Opener, HasNamed, Opens!NamesFindTheirRevisions, Opens!Opened
<1>6. Opens!RefusedForAReason
  <2>1. ASSUME NEW p \in DOMAIN texts, texts[p].text \in Unparsable
        PROVE  Opens!TextsHere \cap Unparsable # {}
    BY <2>1 DEF Opens!TextsHere
  <2> QED BY <1>1, <2>1 DEF Opener, GaveUp, Opens!RefusedForAReason
<1> QED BY <1>2, <1>3, <1>4, <1>5, <1>6

\* What store/mod.rs holds of revisions after `Store::open`, for any paths, texts,
\* bookmarks and readers, however the files are written, edited, renamed and pruned
\* beside it.
THEOREM OpeningReads == MCSpec => []OpeningReadsWhatStands
<1>1. MCInit => OpeningInv
  BY OpeningInvInit DEF MCInit
<1>2. OpeningInv /\ [MCNext]_<<part, vars, findsVars, opensVars>> => OpeningInv'
  BY OpeningInvNext, OpeningInvStutters DEF MCNext
<1>3. OpeningInv => OpeningReadsWhatStands
  BY OpeningInvSuffices DEF OpeningReadsWhatStands
<1> QED
  BY <1>1, <1>2, <1>3, PTL DEF MCSpec

=============================================================================
