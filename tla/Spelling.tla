------------------------------ MODULE Spelling ------------------------------
(* The text documents a store holds, and what a hand that edits one can make  *)
(* of it. A document's identity is the digest of its bytes, so the format     *)
(* admits one byte sequence per set of facts: the parsers refuse every other  *)
(* order, repetition and padding rather than tolerating it. Three documents   *)
(* are read here: a revision (twice over: `revision_named` reads the graph's  *)
(* part of it when a store opens, `RevisionDocument::parse` all of it), an    *)
(* operation document and a resolution.                                       *)
(* A text is a sequence of lines and, for a revision, the message below them. *)
(* A line is its key or word and its fields, which sort as the bytes do.      *)
(* Encodings, terminators, preambles and the characters of a value are left   *)
(* out: a value is legible or it is `Garbled`.                                *)
EXTENDS Naturals, SequencesExt

CONSTANTS
  Recordings,   \* what a writer is asked to record: [facts, message]
  Edits,        \* the operation documents a diff composes: sequences of operations
  Resolutions,  \* the resolution documents a merge composes: sequences of pieces
  HeaderLines,  \* the header lines a hand may type
  BodyLines,    \* the lines a hand may type into the other two
  MaxSlips      \* how many edits a hand makes

VARIABLES
  kind,     \* "none", "revision", or "content": an operation document or a resolution
  lines,    \* the document's lines, preamble aside
  message,  \* a revision's message: "none", "words", "return" or "void"
  slips     \* how many edits a hand has made

vars == <<kind, lines, message, slips>>

Garbled == 9

----------------------------------------------------------------------------
(* A revision document. A header line is [key, file, value]; `file` is 0 for  *)
(* a header that names no file.                                               *)

Graph == {"change", "parent", "supersedes"}
Tree == {"add", "move", "mode", "drop", "edit", "text", "bytes", "link"}

\* Where a key may appear. A key with a dot is some tool's, and any other is
\* unknown.
Rank == [change |-> 0, parent |-> 1, supersedes |-> 2, author |-> 3, when |-> 4,
         revisedBy |-> 5, revised |-> 6, add |-> 7, move |-> 8, mode |-> 9,
         drop |-> 10, edit |-> 11, text |-> 12, bytes |-> 13, link |-> 14, tool |-> 15]
Known(l) == l.key \in DOMAIN Rank
Repeatable(l) == l.key \in {"parent", "supersedes", "tool"} \cup Tree

\* One key's lines sort by their bytes, where a file comes first; a tool's by
\* their keys, which `file` stands for.
Below(l, k) ==
  \/ Rank[l.key] < Rank[k.key]
  \/ /\ l.key = k.key
     /\ Repeatable(l)
     /\ \/ l.file < k.file
        \/ l.key # "tool" /\ l.file = k.file /\ l.value < k.value

InOrder_Repeating(ls) ==
  /\ \A i \in 1..Len(ls) : Known(ls[i])
  /\ \A i \in 1..(Len(ls) - 1) : Below(ls[i], ls[i + 1]) \/ ls[i] = ls[i + 1]

\* `check_order`, shared by the two readings: each line against the one before.
InOrder(ls) ==
  /\ \A i \in 1..Len(ls) : Known(ls[i])
  /\ \A i \in 1..(Len(ls) - 1) : Below(ls[i], ls[i + 1])

Says(ls, key) == {l \in Range(ls) : l.key = key}
Legible(l) == l.value # Garbled

\* What neither reading can pass over: a carriage return anywhere, and a
\* separator with nothing below it.
Intact(m) == m \notin {"return", "void"}

Refused == [ok |-> FALSE]

Light_WithoutRequiring(ls, m) ==
  IF /\ Intact(m)
     /\ InOrder(ls)
     /\ \A l \in Range(ls) : l.key \in Graph => Legible(l)
     /\ \A key \in {"change", "author", "when"} : Says(ls, key) # {}
     /\ Says(ls, "supersedes") = {} => Says(ls, "revised") = {} /\ Says(ls, "revisedBy") = {}
     /\ \A by \in Says(ls, "revisedBy"), a \in Says(ls, "author") : by.value # a.value
    THEN [ok |-> TRUE, graph |-> {l \in Range(ls) : l.key \in Graph}, message |-> m]
    ELSE Refused

\* `revision_named`: the revision a text states, its tree stepped over.
Light(ls, m) ==
  IF /\ Intact(m)
     /\ InOrder(ls)
     /\ \A l \in Range(ls) : l.key \in Graph => Legible(l)
     /\ \A key \in {"change", "author", "when"} : Says(ls, key) # {}
     /\ IF Says(ls, "supersedes") = {}
          THEN Says(ls, "revised") = {} /\ Says(ls, "revisedBy") = {}
          ELSE Says(ls, "revised") # {}
     /\ \A by \in Says(ls, "revisedBy"), a \in Says(ls, "author") : by.value # a.value
    THEN [ok |-> TRUE, graph |-> {l \in Range(ls) : l.key \in Graph}, message |-> m]
    ELSE Refused

\* The maps a reading of the whole fills keep the last line of a key and file.
Filled(ls) ==
  {ls[i] : i \in {i \in 1..Len(ls) :
     ls[i].key \in {"parent", "supersedes"}
       \/ \A j \in (i + 1)..Len(ls) : <<ls[j].key, ls[j].file>> # <<ls[i].key, ls[i].file>>}}

StatedOnce_OfEditsOnly(ls) ==
  \A i, j \in 1..Len(ls) :
    ls[i].key = "edit" /\ ls[i].key = ls[j].key /\ ls[i].file = ls[j].file => i = j

\* One file is stated once under a key.
StatedOnce(ls) ==
  \A i, j \in 1..Len(ls) :
    ls[i].key \in Tree /\ ls[i].key = ls[j].key /\ ls[i].file = ls[j].file => i = j

Files(ls, key) == {l.file : l \in Says(ls, key)}

\* What one revision may not say twice of one file.
Contradictions ==
  {{"add", "move"}, {"add", "drop"}, {"add", "edit"}, {"move", "drop"}, {"drop", "edit"},
   {"drop", "bytes"}, {"drop", "mode"}, {"drop", "link"}, {"link", "text"}, {"link", "bytes"},
   {"link", "edit"}, {"link", "mode"}, {"text", "bytes"}, {"edit", "bytes"}}

Consistent(ls) ==
  /\ \A c \in Contradictions : \A k, n \in c : k # n => Files(ls, k) \cap Files(ls, n) = {}
  /\ Files(ls, "text") \subseteq Files(ls, "add")

\* `RevisionDocument::parse`: every fact a text states.
Whole(ls, m) ==
  IF /\ Intact(m)
     /\ InOrder(ls)
     /\ \A i \in 1..Len(ls) : Legible(ls[i])
     /\ StatedOnce(ls)
     /\ \A key \in {"change", "author", "when"} : Says(ls, key) # {}
     /\ IF Says(ls, "supersedes") = {}
          THEN Says(ls, "revised") = {} /\ Says(ls, "revisedBy") = {}
          ELSE Says(ls, "revised") # {}
     /\ \A by \in Says(ls, "revisedBy"), a \in Says(ls, "author") : by.value # a.value
     /\ Consistent(ls)
    THEN [ok |-> TRUE, facts |-> Filled(ls), message |-> m]
    ELSE Refused

\* `RevisionDocument::write`.
Write(doc) ==
  [i \in 1..Cardinality(doc.facts) |->
     CHOOSE l \in doc.facts : Cardinality({k \in doc.facts : Below(k, l)}) = i - 1]

----------------------------------------------------------------------------
(* An operation document. A line is <<word, x, y>>: "delete" with a position  *)
(* and a count, "insert" with a position, "-" and "+" with a text, "gone" for *)
(* the mark of a forgotten item, and "bare" for the mark that the item above  *)
(* has no newline. The header lines are "forgets", "result" and the separator *)
(* "blank".                                                                   *)

Item(t, gone) == [text |-> t, gone |-> gone, ended |-> TRUE]

Words(ls) == [i \in 1..Len(ls) |-> ls[i][1]]

\* How many lines the headers take, the separator with them; 0 if they are not
\* as they must be. `result` is refused beside `forgets`, and a resolution that
\* forgets nothing owes one.
HeadLength(ls, owesResult) ==
  LET heads == {<<"forgets", "blank">>, <<"result", "blank">>}
                 \cup (IF owesResult THEN {} ELSE {<<"blank">>})
      fits == {h \in heads : IsPrefix(h, Words(ls))}
  IN IF fits = {} THEN 0 ELSE Len(CHOOSE h \in fits : TRUE)

Body(ls, n) == SubSeq(ls, n + 1, Len(ls))

\* A parser's state: what it has read, and whether it has refused a line.
Nothing == [ok |-> TRUE, read |-> <<>>]
Refuse(s) == [s EXCEPT !.ok = FALSE]

\* The last thing read takes one more item, or unmarks the one it took.
Taking(s, item) == [s EXCEPT !.read[Len(s.read)].items = Append(@, item)]
Bared(s) ==
  LET n == Len(s.read)
  IN [s EXCEPT !.read[n].items[Len(s.read[n].items)].ended = FALSE]

\* An operation reads as many items as a delete stated, or until a line that is
\* not its own; and an operation owes at least one.
Wants(op) == op.kind = "insert" \/ Len(op.items) < op.count
Complete(op) == IF op.kind = "delete" THEN Len(op.items) = op.count ELSE op.items # <<>>

\* `Parser::operation`, `items` and `marker`, one line at a time.
ReadOperation(s, l) ==
  LET any == s.read # <<>>
      op == Last(s.read)
  IN CASE ~s.ok -> s
       [] l[1] = "delete" /\ l[3] > 0 /\ (any => Complete(op)) ->
            [s EXCEPT !.read = Append(@, [kind |-> "delete", at |-> l[2], count |-> l[3], items |-> <<>>])]
       [] l[1] = "insert" /\ (any => Complete(op)) ->
            [s EXCEPT !.read = Append(@, [kind |-> "insert", at |-> l[2], count |-> 0, items |-> <<>>])]
       [] l[1] = "-" /\ any /\ op.kind = "delete" /\ Wants(op) -> Taking(s, Item(l[2], FALSE))
       [] l[1] = "+" /\ any /\ op.kind = "insert" -> Taking(s, Item(l[2], FALSE))
       [] l[1] = "gone" /\ any /\ Wants(op) -> Taking(s, Item(0, TRUE))
       [] l[1] = "bare" /\ any /\ op.items # <<>> /\ Last(op.items).ended -> Bared(s)
       [] OTHER -> Refuse(s)

\* One past the last position an operation covers.
End(op) == IF op.kind = "delete" THEN op.at + Len(op.items) ELSE op.at

\* `follows`: whether one operation may come after another.
Follows(op, next) ==
  \/ next.at = op.at /\ op.kind = "delete" /\ next.kind = "insert"
  \/ /\ next.at > op.at
     /\ op.kind = "delete" => /\ next.at >= End(op)
                              /\ next.at = End(op) => next.kind = "insert"

Admitted_AfterTheLast(ops) == \A i \in 2..Len(ops) : Follows(ops[i - 1], ops[i])

\* `Ordered::push`: each is admitted against the one before it, and against the
\* last delete before it, which an insert at its position must not hide.
Admitted(ops) ==
  \A i \in 2..Len(ops) :
    LET deletes == {j \in 1..(i - 1) : ops[j].kind = "delete"}
    IN \A j \in {i - 1} \cup {j \in deletes : \A k \in deletes : k <= j} : Follows(ops[j], ops[i])
\* `check_markers`: no item of its kind follows an item without a newline.
MarksLast(ops) ==
  \A i \in 1..Len(ops) : \A j \in 1..Len(ops[i].items) :
    ~ops[i].items[j].ended =>
      /\ j = Len(ops[i].items)
      /\ \A k \in (i + 1)..Len(ops) : ops[k].kind # ops[i].kind

\* `OperationDocument::parse`.
Operations(ls) ==
  LET n == HeadLength(ls, FALSE)
      s == FoldLeft(ReadOperation, Nothing, Body(ls, n))
  IN IF /\ n > 0 /\ s.ok /\ s.read # <<>>
        /\ Complete(Last(s.read))
        /\ Admitted(s.read)
        /\ MarksLast(s.read)
       THEN [ok |-> TRUE, head |-> SubSeq(ls, 1, n), read |-> s.read]
       ELSE Refused

\* An item's line, and its mark where it has no newline.
ItemLines(sign, item) ==
  <<IF item.gone THEN <<"gone", 0, 0>> ELSE <<sign, item.text, 0>>>>
    \o (IF item.ended THEN <<>> ELSE <<<<"bare", 0, 0>>>>)
ItemsLines(sign, items) == FlattenSeq([i \in 1..Len(items) |-> ItemLines(sign, items[i])])

\* `OperationDocument::write` sorts what it was handed.
Earlier(op, next) ==
  \/ op.at < next.at
  \/ op.at = next.at /\ op.kind = "delete" /\ next.kind = "insert"
OperationLines(op) ==
  IF op.kind = "delete" THEN <<<<"delete", op.at, Len(op.items)>>>> \o ItemsLines("-", op.items)
                        ELSE <<<<"insert", op.at, 0>>>> \o ItemsLines("+", op.items)
WriteOperations(head, ops) ==
  LET sorted == SortSeq(ops, Earlier)
  IN head \o FlattenSeq([i \in 1..Len(sorted) |-> OperationLines(sorted[i])])

----------------------------------------------------------------------------
(* A resolution. "keep" takes <<first, count>> of the items of one document,  *)
(* and "mint" (a bare `insert`) makes new ones.                               *)

\* A piece that should have been part of the one before it is refused.
Maximal(s, piece) ==
  s.read = <<>> \/
    LET last == Last(s.read)
    IN /\ last.kind = "keep" /\ piece.kind = "keep" => last.at + last.count # piece.at
       /\ ~(last.kind = "mint" /\ piece.kind = "mint")
Piecing(s, piece) == IF Maximal(s, piece) THEN [s EXCEPT !.read = Append(@, piece)] ELSE Refuse(s)

\* `Parser::pieces`, `keep` and `insert`. The mark of a line without a newline
\* is taken as often as it stands there.
ReadPiece(s, l) ==
  LET minting == s.read # <<>> /\ Last(s.read).kind = "mint"
      whole == minting => Last(s.read).items # <<>>
  IN CASE ~s.ok -> s
       [] l[1] = "keep" /\ l[3] > 0 /\ whole ->
            Piecing(s, [kind |-> "keep", at |-> l[2], count |-> l[3], items |-> <<>>])
       [] l[1] = "mint" /\ whole ->
            Piecing(s, [kind |-> "mint", at |-> 0, count |-> 0, items |-> <<>>])
       [] l[1] = "+" /\ minting -> Taking(s, Item(l[2], FALSE))
       [] l[1] = "gone" /\ minting -> Taking(s, Item(0, TRUE))
       [] l[1] = "bare" /\ minting /\ Last(s.read).items # <<>> -> Bared(s)
       [] OTHER -> Refuse(s)

\* `ResolutionDocument::parse`.
Resolution(ls) ==
  LET n == HeadLength(ls, TRUE)
      s == FoldLeft(ReadPiece, Nothing, Body(ls, n))
  IN IF /\ n > 0 /\ s.ok /\ s.read # <<>>
        /\ Last(s.read).kind = "mint" => Last(s.read).items # <<>>
       THEN [ok |-> TRUE, head |-> SubSeq(ls, 1, n), read |-> s.read]
       ELSE Refused

\* `ResolutionDocument::write`.
PieceLines(p) ==
  IF p.kind = "keep" THEN <<<<"keep", p.at, p.count>>>>
                     ELSE <<<<"mint", 0, 0>>>> \o ItemsLines("+", p.items)
WriteResolution(head, pieces) ==
  head \o FlattenSeq([i \in 1..Len(pieces) |-> PieceLines(pieces[i])])

\* `is_resolution`: the first line of the body says which parser reads it.
IsResolution_ByItsKeeps(ls) ==
  \E i \in 1..(Len(ls) - 1) :
    /\ ls[i][1] = "blank"
    /\ \A j \in 1..(i - 1) : ls[j][1] # "blank"
    /\ ls[i + 1][1] = "keep"
IsResolution(ls) ==
  \E i \in 1..(Len(ls) - 1) :
    /\ ls[i][1] = "blank"
    /\ \A j \in 1..(i - 1) : ls[j][1] # "blank"
    /\ ls[i + 1][1] \in {"keep", "mint"}

----------------------------------------------------------------------------
(* What stands in for a payload of bytes: what it forgets and how long it was.*)

\* `ForgottenPayload::parse`.
Payload(ls) ==
  IF Words(ls) = <<"forgets", "length">> THEN [ok |-> TRUE, head |-> ls, read |-> <<>>] ELSE Refused

\* `is_forgotten_payload`: a header above the first blank line gives a length.
IsPayload(ls) ==
  \E i \in 1..Len(ls) :
    ls[i][1] = "length" /\ \A j \in 1..(i - 1) : ls[j][1] # "blank"

----------------------------------------------------------------------------
(* A writer composes a document of each kind, and a hand edits it.            *)

Composed_Unchecked(r) == TRUE

\* `record` refuses a path, a link's target and a tool's header the parser
\* would refuse. It looks at no message.
Composed(r) == \A l \in r.facts : l.key \in {"add", "move", "link", "tool"} => Legible(l)

Init == kind = "none" /\ lines = <<>> /\ message = "none" /\ slips = 0

\* A revision is filed as it was composed, and nothing reads it back first.
Record ==
  /\ kind = "none"
  /\ \E r \in Recordings :
       Composed(r) /\ kind' = "revision" /\ lines' = Write(r) /\ message' = r.message
  /\ UNCHANGED slips

\* A diff's operations or a merge's resolution, filed or stood in for.
FileContent ==
  /\ kind = "none"
  /\ kind' = "content"
  /\ \E head \in {<<"result", 0, 0>>, <<"forgets", 0, 0>>} :
       \/ \E e \in Edits : lines' = WriteOperations(<<head, <<"blank", 0, 0>>>>, e)
       \/ \E p \in Resolutions : lines' = WriteResolution(<<head, <<"blank", 0, 0>>>>, p)
       \/ lines' = <<<<"forgets", 0, 0>>, <<"length", 1, 0>>>>
  /\ UNCHANGED <<message, slips>>

\* A hand types a line, strikes one out, moves one up, or rewrites the message.
Typed == IF kind = "revision" THEN HeaderLines ELSE BodyLines

Slip ==
  /\ kind # "none"
  /\ slips < MaxSlips
  /\ slips' = slips + 1
  /\ UNCHANGED kind

TypeLine ==
  /\ Slip
  /\ \E i \in 1..(Len(lines) + 1), l \in Typed : lines' = InsertAt(lines, i, l)
  /\ UNCHANGED message

StrikeLine ==
  /\ Slip
  /\ \E i \in 1..Len(lines) : lines' = RemoveAt(lines, i)
  /\ UNCHANGED message

MoveLine ==
  /\ Slip
  /\ \E i \in 1..(Len(lines) - 1) :
       lines' = [lines EXCEPT ![i] = lines[i + 1], ![i + 1] = lines[i]]
  /\ UNCHANGED message

Reword ==
  /\ Slip
  /\ kind = "revision"
  /\ message' \in {"none", "words", "return", "void"} \ {message}
  /\ UNCHANGED lines

Next == Record \/ FileContent \/ TypeLine \/ StrikeLine \/ MoveLine \/ Reword

Spec == Init /\ [][Next]_vars

----------------------------------------------------------------------------
TypeOK ==
  /\ kind \in {"none", "revision", "content"}
  /\ message \in {"none", "words", "return", "void"}
  /\ slips \in 0..MaxSlips
  /\ lines \in Seq(IF kind = "revision" THEN [key : STRING, file : Nat, value : Nat]
                                       ELSE STRING \X Nat \X Nat)

\* A content text's reading, by the parser its lines pick.
Content ==
  IF IsPayload(lines) THEN Payload(lines)
  ELSE IF IsResolution(lines) THEN Resolution(lines) ELSE Operations(lines)
Rewritten ==
  IF IsPayload(lines) THEN lines
  ELSE IF IsResolution(lines) THEN WriteResolution(Content.head, Content.read)
       ELSE WriteOperations(Content.head, Content.read)

\* A mark that stands twice below one item, which a resolution may have.
MarkedTwice == \E i \in 1..(Len(lines) - 1) : lines[i][1] = "bare" /\ lines[i + 1][1] = "bare"

RevisionSpeltOnce ==
  kind = "revision" =>
    LET doc == Whole(lines, message)
    IN doc.ok => Write(doc) = lines /\ doc.message = message

\* What the modules say: what a document states has one spelling, the bytes its
\* digest is of. However a hand edits a text, it is refused or it is what a
\* writer of its facts would have written. A resolution breaks this promise.
OneSpelling == RevisionSpeltOnce /\ (kind = "content" /\ Content.ok => Rewritten = lines)

\* What the code keeps of it: one spelling for every revision and every operation
\* document, and for a resolution one but for the mark that a line has no
\* newline, which its parser takes as often as it stands and its writer writes once.
OneSpellingButForMarks ==
  RevisionSpeltOnce
    /\ (kind = "content" /\ Content.ok => Rewritten = lines \/ (IsResolution(lines) /\ MarkedTwice))

\* Three grammars share one directory and one suffix. A text one of them takes is
\* taken by no other, and by the one its lines pick: no edit turns an operation
\* document into a resolution that reads differently.
ReadByItsGrammar ==
  kind = "content" =>
    LET takers == {r \in {Payload(lines), Resolution(lines), Operations(lines)} : r.ok}
    IN Cardinality(takers) <= 1 /\ takers \subseteq {Content}

\* Opening a store reads only the graph's part of a revision. Whatever the
\* whole reading accepts it accepts, with the same revision; and what only it
\* accepts is refused for what a value means or for two facts about one file.
ReadingsAgree ==
  kind = "revision" =>
    LET light == Light(lines, message)
        doc == Whole(lines, message)
    IN /\ doc.ok => /\ light.ok
                    /\ light.graph = {l \in doc.facts : l.key \in Graph}
                    /\ light.message = doc.message
       /\ light.ok /\ ~doc.ok =>
            \/ \E l \in Range(lines) : ~Legible(l) /\ l.key \notin Graph
            \/ \E i, j \in 1..Len(lines) :
                 i # j /\ lines[i].key \in Tree /\ lines[j].key \in Tree /\ lines[i].file = lines[j].file
            \/ Files(lines, "text") \ Files(lines, "add") # {}

\* The operations a parser accepts are apart from each other pairwise, not only
\* from their neighbours: positions ascend, one position is shared by a delete
\* and its replacement and nothing else, and no operation starts inside a
\* deleted run or deletes on from its end. Applying them from the last to the
\* first then moves no position an earlier one names.
OperationsAreApart ==
  kind = "content" /\ Operations(lines).ok =>
    LET ops == Operations(lines).read
    IN \A i, j \in 1..Len(ops) : i < j =>
         /\ ops[i].at <= ops[j].at
         /\ ops[i].at = ops[j].at => ops[i].kind = "delete" /\ ops[j].kind = "insert"
         /\ ops[i].kind = "delete" /\ ops[j].kind = "delete" => ops[j].at > End(ops[i])
         /\ ops[i].kind = "delete" /\ ops[j].at > ops[i].at => ops[j].at >= End(ops[i])

\* What a writer files, every later opening of the store and reading of the
\* revision takes: nothing is recorded that the parsers refuse.
WhatIsRecordedIsRead ==
  slips = 0 =>
    /\ kind = "revision" => Light(lines, message).ok /\ Whole(lines, message).ok
    /\ kind = "content" => Content.ok

=============================================================================
