------------------------------ MODULE MCHistory ------------------------------
(* The graph of revisions: which of it a copy follows, and how acts rewrite *)
(* it.  Each behaviour is of one component, and the others' variables stand *)
(* still.                                                                   *)
EXTENDS Following, Sequences

CONSTANTS
  Parts  \* the components this run takes

MCWriter == {"mine", "theirs"}
MCFollowed == {"mine"}

\* A recorded revision on the parents P, the n-th document, and a chain of three.
Kept(n, P) ==
  [parents |-> P, supersedes |-> {}, change |-> n, stamp |-> 0, bare |-> FALSE]
Chain3 == <<Kept(1, {}), Kept(2, {1}), Kept(3, {2})>>
\* Digests that sort as the documents were written.
InOrder(n) == [i \in 1..n |-> i]

VARIABLES
  part,   \* which component this behaviour is of
  docs, held_by, mark, act

One == INSTANCE Rewriting
  WITH Copy <- {"a"}, Marking <- {"a"}, Start <- Chain3, MaxDocs <- 6,
       MaxWork <- 1, MaxParents <- 2, MaxRewrites <- 2, Digest <- InOrder(6),
       held <- held_by
Two == INSTANCE Rewriting
  WITH Copy <- {"a", "b"}, Marking <- {}, Start <- Chain3, MaxDocs <- 7,
       MaxWork <- 1, MaxParents <- 1, MaxRewrites <- 1, Digest <- InOrder(7),
       held <- held_by

oneVars == <<docs, held_by, mark, act>>

\* A revision with no parents comes among the first, not every one but the
\* first supersedes another, and both writers have written.
Telling ==
  /\ doc[MaxId].parents # {}
  /\ \E x \in RevisionId \ {1} : doc[x].supersedes = {}
  /\ {doc[x].writer : x \in RevisionId} = Writer

MCInit ==
  /\ part \in Parts
  /\ IF part = "following" THEN Init /\ Telling
     ELSE /\ doc = [x \in RevisionId |-> [parents |-> {}, supersedes |-> {}, writer |-> "mine"]]
          /\ held = {} /\ view = Derive({}, {})
  /\ \/ part = "one copy" /\ One!Init
     \/ part = "two copies" /\ Two!Init
     \/ /\ part \notin {"one copy", "two copies"}
        /\ docs = <<>> /\ held_by = <<>> /\ mark = <<>> /\ act = <<>>

MCNext ==
  /\ part' = part
  /\ \/ /\ part = "following" /\ Next
        /\ UNCHANGED oneVars
     \/ /\ part = "one copy" /\ One!Next
        /\ UNCHANGED vars
     \/ /\ part = "two copies" /\ Two!Next
        /\ UNCHANGED vars

MCSpec == MCInit /\ [][MCNext]_<<part, vars, oneVars>>
------------------------------------------------------------------------------
\* One copy that keeps a bookmark runs every act: a change never gets two current
\* revisions, an act that finished has carried all it stranded, and the sweep of
\* `repair` leaves nothing for a second (record/mod.rs, record/carry.rs).
ActsLeaveOneOfEach ==
  part = "one copy" =>
    One!TypeOK /\ One!ActsDoNotDiverge /\ One!ActsCarryWhatTheyStrand /\ One!RepairLeavesNothing

\* That, and two copies that exchange a rewrite file by file, each of which may
\* carry, have written the same documents where they meet (record/carry.rs).
RewritesConverge ==
  ActsLeaveOneOfEach /\ (part = "two copies" => Two!TypeOK /\ Two!RepairsConverge)

\* A carry that was stopped is taken up where it stood, on the same parents.
\* And a bookmark is never left on what an act abandoned.
CarryResumes == [][part = "one copy" => One!CarryIsResumed /\ One!MarkKeepsUp]_<<part, oneVars>>
==============================================================================
