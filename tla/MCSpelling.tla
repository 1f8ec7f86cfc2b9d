----------------------------- MODULE MCSpelling -----------------------------
(* What a document says: four recordings, two edits and two resolutions, each *)
(* written and marred; and what the documents of a history say of a file, in  *)
(* whatever order they come. Each behaviour is of one of the two, and the     *)
(* other's variables stand still.                                             *)
EXTENDS Spelling, TLC

CONSTANTS
  Parts,  \* the components this run takes
  Text    \* Reading's texts

Line(k, f, v) == [key |-> k, file |-> f, value |-> v]

\* A root that adds two files, one with its text; a merge's rewrite, which moves
\* one, drops another and states bytes; and a revision that adds a link.
MCRecordings ==
  {[message |-> m, facts |-> {Line("change", 0, 1), Line("author", 0, 1), Line("when", 0, 1)} \cup f] :
     m \in {"words"},
     f \in {{Line("parent", 0, 1), Line("move", 1, Garbled)},
            {Line("add", 1, 1), Line("add", 2, 2), Line("text", 1, 1), Line("bytes", 2, 1)},
            {Line("parent", 0, 1), Line("parent", 0, 2), Line("supersedes", 0, 1), Line("revised", 0, 1),
             Line("move", 1, 1), Line("edit", 1, 1), Line("drop", 2, 0)},
            {Line("parent", 0, 1), Line("add", 2, 1), Line("link", 2, 1), Line("mode", 1, 1), Line("tool", 1, 1)}}}
\* The same, and an editor that saved the message with carriage returns.
MCReturns == MCRecordings \cup {[r EXCEPT !.message = "return"] : r \in MCRecordings}

MCHeaderLines ==
  {Line(k, 0, v) : k \in {"change", "parent", "supersedes", "author", "when", "revisedBy", "revised"}, v \in {1, 2, Garbled}}
    \cup {Line(k, f, v) : k \in Tree \cup {"tool"}, f \in {1, 2}, v \in {1, 2}}
    \cup {Line("add", 1, Garbled), Line("other", 0, 1)}

Op(k, at, n, marked) ==
  [kind |-> k, at |-> at, count |-> n,
   items |-> [i \in 1..n |-> [text |-> 1, gone |-> FALSE, ended |-> ~(marked /\ i = n)]]]
MCEdits ==
  {<<Op("delete", 0, 2, FALSE), Op("insert", 0, 1, FALSE), Op("insert", 2, 1, FALSE)>>,
   <<Op("insert", 2, 1, TRUE), Op("delete", 1, 1, TRUE)>>}
Piece(k, at, n) == [Op(k, at, n, FALSE) EXCEPT !.items = IF k = "keep" THEN <<>> ELSE @]
MCResolutions ==
  {<<Piece("keep", 0, 1), Op("mint", 0, 2, FALSE), Piece("keep", 1, 1)>>,
   <<Piece("keep", 0, 1), Piece("keep", 2, 1), Op("mint", 0, 1, TRUE)>>}
MCBodyLines ==
  {<<w, x, n>> : w \in {"delete", "keep"}, x \in 0..2, n \in 0..2}
    \cup {<<"insert", x, 0>> : x \in 0..2}
    \cup {<<w, 0, 0>> : w \in {"gone", "bare", "mint", "blank", "forgets", "result", "length"}}
    \cup {<<w, 1, 0>> : w \in {"-", "+"}}

\* Two texts are interchangeable.
Alike == Permutations(Text)

VARIABLES
  part,   \* which component this behaviour is of
  history, meant, borrowed, tree, refused

Reads == INSTANCE Reading
  WITH MaxEvents <- 4, MaxLines <- 4, MaxParents <- 2, MaxBorrowed <- 1

readsVars == <<history, meant, borrowed, tree, refused>>

MCInit ==
  /\ part \in Parts
  /\ IF part = "spelling" THEN Init
     ELSE kind = "none" /\ lines = <<>> /\ message = "none" /\ slips = 0
  /\ IF part = "reading" THEN Reads!Init
     ELSE /\ history = <<>> /\ meant = <<>> /\ borrowed = {} /\ tree = <<>> /\ refused = FALSE

MCNext ==
  /\ part' = part
  /\ \/ /\ part = "spelling" /\ Next
        /\ UNCHANGED readsVars
     \/ /\ part = "reading" /\ Reads!Next
        /\ UNCHANGED vars

MCSpec == MCInit /\ [][MCNext]_<<part, vars, readsVars>>
-----------------------------------------------------------------------------
\* One meaning has one spelling, but for a resolution that marks one line twice as
\* having no newline: whatever lines a hand strikes, types or moves, a document
\* that reads is the one its writer would have written. The light reader agrees
\* with the whole one, and operations are apart (format/). That a resolution has
\* one spelling too, as its module says, is OneSpelling, which fails.
DocumentsReadAlike ==
  part = "spelling" =>
    TypeOK /\ OneSpellingButForMarks /\ ReadByItsGrammar /\ ReadingsAgree /\ OperationsAreApart
      /\ WhatIsRecordedIsRead

\* What a copy shows of a file is one text, whoever computes it: in whatever
\* order its revisions are taken (merge.rs), by the fast path of a history
\* without concurrency (store/mod.rs), and where lines of work meet; a recorded
\* revision reads as its author's file, and a run of lines stays together.
OneTextIsShown ==
  part = "reading" =>
    /\ Reads!TypeOK /\ Reads!OrderIndependent /\ Reads!FastPathAgrees /\ Reads!WalkReadsTheRule
    /\ Reads!QuietMergesMeetNowhere /\ Reads!RecordedIsRead /\ Reads!RunsStayTogether
=============================================================================
