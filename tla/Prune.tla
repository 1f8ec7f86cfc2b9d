------------------------------- MODULE Prune -------------------------------
(***************************************************************************)
(* `prune': the one command that deletes revisions (src/store/prune.rs).   *)
(*                                                                         *)
(* A complete store is open: `documents' is what it read of                *)
(* revisions/ when it was opened, `files' and `bodies' are the files of    *)
(* revisions/ and of operations/ as the disk holds them now.  The command  *)
(* works out a set of revisions to let go of, a fixpoint reached one       *)
(* revision at a time; reads off which contents nothing kept names; and    *)
(* then removes files one by one, revisions before contents.  It may be    *)
(* stopped between any two removals: by a crash, or by a removal that the  *)
(* filesystem refuses, which returns early and leaves the rest in place.   *)
(***************************************************************************)
EXTENDS History

CONSTANTS
  MaxId,        \* documents are numbered 1..MaxId
  Writer,       \* who may have written a revision
  Followed,     \* the writers this copy's rule accepts
  Content,      \* operation documents, payloads and resolutions
  StandIn,      \* the contents that are forgetting documents
  Forgets       \* Forgets[f]: the content the forgetting document f stands in for

ASSUME MaxIdAssumption == MaxId \in Nat
ASSUME FollowedAssumption == Followed \subseteq Writer
ASSUME StandInAssumption == StandIn \subseteq Content
                            /\ Forgets \in [StandIn -> Content \ StandIn]

VARIABLES
  doc,          \* the digest map
  files,        \* revisions on the disk
  bodies,       \* contents on the disk
  documents,    \* revisions in memory, as they were when the store was opened
  kept,         \* the working set of deletable_revisions
  dropped,      \* contents the command is to remove
  phase

vars == <<doc, files, bodies, documents, kept, dropped, phase>>

RevisionId == 1..MaxId
Document == [parents    : SUBSET RevisionId,
             supersedes : SUBSET RevisionId,
             writer     : Writer,
             names      : SUBSET (Content \ StandIn)]

\* What a store can say in place of a content: its bytes, or a forgetting
\* document that answers for them.
Answers(B, c) == c \in B \/ \E f \in B \cap StandIn : Forgets[f] = c

\* Slips the properties must catch: the guard on evidence forgotten, or the
\* guard on descendants.
Removable_NoEvidence(K, x) ==
  x \in K /\ x \in Superseded(doc, K) /\ x \notin ParentsOf(doc, K)
Removable_StoodOn(K, x) ==
  x \in K /\ x \in Superseded(doc, K) /\ doc[x].supersedes \cap K = {}

\* One pass of the loop of deletable_revisions lets go of x: a kept revision
\* supersedes it, no kept revision stands on it, and it is not itself the
\* evidence that some kept revision was superseded.
Removable(K, x) ==
  /\ x \in K
  /\ x \in Superseded(doc, K)
  /\ x \notin ParentsOf(doc, K)
  /\ doc[x].supersedes \cap K = {}

\* Slip: a stand-in is taken for content nobody names.
Referenced_ByNameOnly(K, B) == UNION {doc[x].names : x \in K}

\* The contents the kept revisions name, and the forgetting documents that
\* answer for one of them.
Referenced(K, B) ==
  LET named == UNION {doc[x].names : x \in K}
  IN  named \cup {f \in B \cap StandIn : Forgets[f] \in named}
-----------------------------------------------------------------------------
\* parents and supersedes lines a hash allows
Lines == {f \in [RevisionId -> SUBSET RevisionId] :
            \A x \in RevisionId : \A y \in f[x] : y < x}

\* Any history at all, since revisions arrive by copy from any writer, in a
\* store that is complete: every content a held revision names is answered for.
\* Parents may be missing.
Init ==
  /\ \E p, s \in Lines, w \in [RevisionId -> Writer],
        n \in [RevisionId -> SUBSET (Content \ StandIn)] :
       doc = [x \in RevisionId |-> [parents |-> p[x], supersedes |-> s[x],
                                   writer |-> w[x], names |-> n[x]]]
  /\ files \in SUBSET RevisionId
  /\ bodies \in SUBSET Content
  /\ \A x \in files : \A c \in doc[x].names : Answers(bodies, c)
  /\ documents = files
  /\ kept = {} /\ dropped = {} /\ phase = "idle"

Begin ==
  /\ phase = "idle"
  /\ kept' = documents
  /\ phase' = "planning"
  /\ UNCHANGED <<doc, files, bodies, documents, dropped>>

\* One revision leaves the working set.
Shrink(x) ==
  /\ phase = "planning"
  /\ Removable(kept, x)
  /\ kept' = kept \ {x}
  /\ UNCHANGED <<doc, files, bodies, documents, dropped, phase>>

\* Slip: one pass over the revisions in place of a fixpoint.
Planned_OnePass ==
  /\ phase = "planning"
  /\ dropped' = bodies \ Referenced(kept, bodies)
  /\ phase' = "revisions"
  /\ UNCHANGED <<doc, files, bodies, documents, kept>>

\* The loop found nothing more; the contents to drop are read off.
Planned ==
  /\ phase = "planning"
  /\ \A x \in kept : ~Removable(kept, x)
  /\ dropped' = bodies \ Referenced(kept, bodies)
  /\ phase' = "revisions"
  /\ UNCHANGED <<doc, files, bodies, documents, kept>>

\* A revision file is removed.  Files are walked in an order the filesystem
\* trait does not promise, so any of those remaining may be the next.
RemoveRevision(x) ==
  /\ phase = "revisions"
  /\ x \in files \cap (documents \ kept)
  /\ files' = files \ {x}
  /\ UNCHANGED <<doc, bodies, documents, kept, dropped, phase>>

\* A content file is removed, once no revision file is left to remove.
RemoveContent(c) ==
  /\ phase \in {"revisions", "content"}
  /\ files \cap (documents \ kept) = {}
  /\ c \in bodies \cap dropped
  /\ bodies' = bodies \ {c}
  /\ phase' = "content"
  /\ UNCHANGED <<doc, files, documents, kept, dropped>>

\* Everything planned is gone, and memory is brought level with the disk.
Finish ==
  /\ phase \in {"revisions", "content"}
  /\ files \cap (documents \ kept) = {}
  /\ bodies \cap dropped = {}
  /\ documents' = files
  /\ phase' = "pruned"
  /\ UNCHANGED <<doc, files, bodies, kept, dropped>>

\* Slip: what was planned outlives the interruption.
Interrupted_KeepsPlan ==
  /\ phase \in {"revisions", "content"}
  /\ documents' = files
  /\ phase' = "idle"
  /\ UNCHANGED <<doc, files, bodies, kept, dropped>>

\* Stopped between two removals; the next command opens what is left.
Interrupted ==
  /\ phase \in {"revisions", "content"}
  /\ documents' = files
  /\ kept' = {} /\ dropped' = {}
  /\ phase' = "idle"
  /\ UNCHANGED <<doc, files, bodies>>

Next ==
  \/ Begin \/ Planned \/ Finish \/ Interrupted
  \/ \E x \in RevisionId : Shrink(x) \/ RemoveRevision(x)
  \/ \E c \in Content : RemoveContent(c)

Spec == Init /\ [][Next]_vars
-----------------------------------------------------------------------------
TypeOK ==
  /\ doc \in [RevisionId -> Document] /\ Merkle(doc)
  /\ files \subseteq documents /\ documents \subseteq RevisionId
  /\ kept \subseteq documents
  /\ bodies \subseteq Content /\ dropped \subseteq Content
  /\ phase \in {"idle", "planning", "revisions", "content", "pruned"}
  /\ phase = "idle" => kept = {} /\ dropped = {}

\* Letting go of superseded work changes no answer about current work: at
\* every step of the loop the working set has the current revisions and the
\* tips of the whole store.  deletable_revisions removes one revision at a
\* time, and each removal takes away the supersedes and parent lines of the
\* revision it removes as well.
PlanKeepsTips ==
  phase # "idle" =>
    /\ Current(doc, kept) = Current(doc, documents)
    /\ Tips(doc, kept) = Tips(doc, documents)

\* However far a prune got, the disk has every current revision and, because
\* the working set never loses a revision another member stands on, everything
\* a kept revision stands on that the store had: no head loses its history.
PruneLosesNoWork ==
  phase # "idle" =>
    /\ Current(doc, documents) \subseteq kept
    /\ ParentsOf(doc, kept) \cap documents \subseteq kept
    /\ kept \subseteq files

\* However far a prune got, each revision still on the disk has every content
\* it names, or a forgetting document that answers for it: revisions go first,
\* and a stand-in stays while what it stands in for is named.
NamedContentAnswered ==
  \A x \in files : \A c \in doc[x].names : Answers(bodies, c)

\* Running it twice removes nothing the second time (decision 0013).
SecondPruneIsEmpty ==
  phase = "pruned" =>
    /\ \A x \in files : ~Removable(files, x)
    /\ bodies \subseteq Referenced(files, bodies)

\* The heads a copy derives by its rule, from a set of revisions it holds.
Rule == INSTANCE Following
          WITH held <- documents, view <- kept, MaxParents <- MaxId, MaxSupersedes <- MaxId
HeadsOf(H) == Rule!Derive(H, Rule!FollowedSet(H)).heads

\* Decision 0086: "a held revision that supersedes a followed one does not
\* make the followed one stop being current, for this copy", and decision 0013
\* lets prune take no head.  What prune keeps has the heads of the whole store.
PruneKeepsHeads ==
  phase = "revisions" => HeadsOf(kept) = HeadsOf(documents)

\* The comment on deletable_revisions: deleting the evidence of a supersession
\* "would resurrect the kept revision as current work".  No removal may leave
\* on the disk, as current, a revision the disk had superseded.
NothingResurrected ==
  [][\A x \in files' : x \in Superseded(doc, files)
                         => x \in Superseded(doc', files')]_vars
=============================================================================
