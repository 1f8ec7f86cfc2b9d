------------------------------ MODULE Reading ------------------------------
(***************************************************************************)
(* Recording one file, and the two ways a store reads it back              *)
(* (src/record/mod.rs, src/store/mod.rs).  The rule takes what each        *)
(* revision states in turn and needs no tree, as long as the sides of      *)
(* every merge agree; the walk of Merging reads any history.  A merge      *)
(* whose sides agree by text may state nothing, or an edit of what they    *)
(* agree on, and then the walk is owed a resolution that nobody recorded.  *)
(*                                                                         *)
(* The history grows by whole revisions, in any order of digests, so that  *)
(* `tree`, built as each comes, is a walk in an order of its own.          *)
(***************************************************************************)
EXTENDS Merging

CONSTANTS
  Text,         \* what a line can say
  MaxEvents,    \* how many revisions there can be
  MaxLines,     \* how many lines all of them together insert and delete
  MaxParents,   \* how many lines of work one merge can join
  MaxBorrowed   \* how many revisions can name a document written elsewhere

VARIABLES
  history,      \* what each revision states, and on which parents
  meant,        \* what its author's file said, as its document's result records
  borrowed,     \* the revisions that name a document written elsewhere
  tree,         \* what this copy has built of the history
  refused       \* whether some document did not hold where it was stated

vars == <<history, meant, borrowed, tree, refused>>

Event == 1 .. MaxEvents
Unrecorded == 0               \* the merge nobody has recorded yet
Settling(e) == MaxEvents + e  \* what a merge's parents agreed, before it

----------------------------------------------------------------------------
(* The rule.                                                               *)

Absent == [kind |-> "absent"]
Unstated == [kind |-> "unstated"]
Broken == [kind |-> "broken"]
Known(lines) == [kind |-> "known", lines |-> lines]

(* What the parents of a merge agree on: a side without the file is        *)
(* passed over, and sides that differ say nothing.                         *)
Agreed(sides) ==
  LET holding == sides \ {Absent}
  IN  CASE Broken \in sides -> Broken
        [] Broken \notin sides /\ holding = {} -> Absent
        [] Broken \notin sides /\ Cardinality(holding) = 1 -> CHOOSE s \in holding : TRUE
        [] OTHER -> Unstated

Inserted(parts) ==
  FlattenSeq([k \in DOMAIN parts |-> IF parts[k].kind = "insert" THEN parts[k].items ELSE <<>>])
\* Slip: what a document quotes to remove is taken for what it wrote.
MintedBy_Quotes(stated) ==
  LET parts == IF stated.kind = "resolution" THEN stated.pieces ELSE stated.ops
  IN  FlattenSeq([k \in DOMAIN parts |-> IF parts[k].kind = "keep" THEN <<>> ELSE parts[k].items])
MintedBy(stated) == Inserted(IF stated.kind = "resolution" THEN stated.pieces ELSE stated.ops)

(* What a resolution names is taken from the documents it names.           *)
Assembled(pieces) ==
  LET inRange(p) == p.kind = "keep" => p.first + p.count <= Len(MintedBy(p.from))
      lines(p) == IF p.kind = "insert" THEN p.items
                  ELSE SubSeq(MintedBy(p.from), p.first + 1, p.first + p.count)
  IN  IF \A k \in DOMAIN pieces : inRange(pieces[k])
      THEN Known(FlattenSeq([k \in DOMAIN pieces |-> lines(pieces[k])])) ELSE Broken

Applied(lines, ops) ==
  IF Found(lines, ops) THEN Known(Spliced(lines, ops, [k \in DOMAIN ops |-> ops[k].items])) ELSE Broken

Checked(read, result) == IF read = Known(result) THEN read ELSE Broken

(* What one revision makes of what its parents agree on.                   *)
Reads(stated, base) ==
  CASE stated.kind = "resolution" -> Checked(Assembled(stated.pieces), stated.result)
    [] stated.kind = "nothing" -> base
    [] stated.kind = "operations" ->
         CASE base.kind = "known"  -> Checked(Applied(base.lines, stated.ops), stated.result)
           [] base.kind = "absent" -> Checked(Applied(<<>>, stated.ops), stated.result)
           [] OTHER -> base
Rule(h) ==
  LET read[e \in DOMAIN h] == Reads(h[e].stated, Agreed({read[p] : p \in h[e].parents}))
  IN  read

----------------------------------------------------------------------------
(* What a walk is owed.                                                    *)

Past(h, heads) == UNION {h[e].past : e \in heads}
Within(h, heads) == [e \in Past(h, heads) |-> h[e]]
WalkOf(h, heads) == Walk(Within(h, heads), CausalOrder(Within(h, heads)))

Reference(h, n) == <<h[n[1]].stated, n[2]>>
FirstCopies(h, names) ==
  SelectSeq([k \in DOMAIN names |-> k],
            LAMBDA k : \A j \in 1 .. k - 1 : Reference(h, names[j]) # Reference(h, names[k]))

(* Items kept in turn, as few runs of them as there can be.                *)
Keeping(pieces, ref) ==
  IF /\ pieces # <<>> /\ Last(pieces).kind = "keep" /\ Last(pieces).from = ref[1]
     /\ Last(pieces).first + Last(pieces).count = ref[2]
  THEN [pieces EXCEPT ![Len(pieces)].count = @ + 1]
  ELSE Append(pieces, [kind |-> "keep", from |-> ref[1], first |-> ref[2], count |-> 1])

Stating(h, e) == {x \in h[e].past : h[x].stated # Nothing}
Met(h, e) ==
  \E p, q \in h[e].parents :
    ~(Stating(h, p) \subseteq Stating(h, q)) /\ ~(Stating(h, q) \subseteq Stating(h, p))

(* The resolution a merge would have stated, where its sides agree and the *)
(* walk, which holds one line under two names, does not read what they do. *)
OwedOf(g, agreed, walk, names) ==
  LET first == FirstCopies(g, names)
      texts == [k \in DOMAIN first |-> walk.tree[names[first[k]]].text]
      pieces == FoldLeft(LAMBDA made, k : Keeping(made, Reference(g, names[k])), <<>>, first)
  IN  IF /\ agreed.kind = "known" /\ walk.ok
         /\ Texts(walk.tree, names) # agreed.lines
         /\ texts = agreed.lines /\ pieces # <<>>
      THEN Resolution(pieces, agreed.lines) ELSE Nothing
OwedAfter(g, agreed, walk) == OwedOf(g, agreed, walk, Standing(walk.tree))
Owed(g, agreed, e) == OwedAfter(g, agreed, WalkOf(g, g[e].parents))

Settled(g, e, owed) ==
  CASE owed = Nothing -> g
    [] owed # Nothing /\ g[e].stated = Nothing -> [g EXCEPT ![e].stated = owed]
    [] OTHER ->
         LET before == Settling(e)
         IN  [x \in DOMAIN g \cup {before} |->
                IF x = before THEN Node(g, before, g[e].parents, owed)
                ELSE [parents |-> IF x = e THEN {before} ELSE g[x].parents,
                      stated |-> g[x].stated,
                      past |-> g[x].past \cup (IF Knows(g, x, e) THEN {before} ELSE {})]]
Settle(g, agreed, e) ==
  IF ~Met(g, e) \/ g[e].stated.kind = "resolution" THEN g
  ELSE Settled(g, e, Owed(g, agreed, e))

SettledBy(rule, h, order) ==
  FoldLeft(LAMBDA g, e : Settle(g, Agreed({rule[p] : p \in h[e].parents}), e), h, order)
AgreedResolutions(h) == SettledBy(Rule(h), h, CausalOrder(h))

(* What a merge of `heads` reads, as if it had been recorded.              *)
Reached(g, walk) ==
  [ok |-> walk.ok, tree |-> walk.tree, graph |-> g, names |-> Standing(walk.tree)]
Merged(g) == Reached(g, Walk(g, CausalOrder(g)))
MergedContent(h, heads) ==
  LET past == Within(h, heads)
      asked == IF Cardinality(heads) = 1 THEN past
               ELSE [e \in DOMAIN past \cup {Unrecorded} |->
                       IF e = Unrecorded THEN Node(h, e, heads, Nothing) ELSE past[e]]
  IN  Merged(AgreedResolutions(asked))

Shown(merged) == IF merged.ok THEN Known(Texts(merged.tree, merged.names)) ELSE Broken
ShownOr(rule, merged) == IF rule.kind = "unstated" THEN Shown(merged) ELSE rule
FileContent(h, e) == ShownOr(Rule(h)[e], MergedContent(h, {e}))

----------------------------------------------------------------------------
(* Recording.  A person may leave any text; an edit of it is written as    *)
(* some script that leads there, in the one order a document has.          *)

(* What is written at each place, the places ascending.                    *)
Placements(places, room) ==
  {s \in BoundedSeq((0 .. places) \X Text, room) :
     \A j, k \in DOMAIN s : j < k => s[j][1] <= s[k][1]}
WrittenAt(placed, p) ==
  LET here == SelectSeq(placed, LAMBDA w : w[1] = p)
  IN  [k \in DOMAIN here |-> here[k][2]]
Removals(places, room) == {r \in SUBSET (1 .. places) : Cardinality(r) <= room}

(* One run for what is removed side by side, and nothing written inside it. *)
Canonical(lines, removed, placed) ==
  LET run(p) == LET upTo == CHOOSE q \in p .. Len(lines) :
                              /\ (p + 1) .. q \subseteq removed
                              /\ q = Len(lines) \/ q + 1 \notin removed
                IN  SubSeq(lines, p + 1, upTo)
      starts(p) == p + 1 \in removed /\ p \notin removed
      at(p) == (IF starts(p) THEN <<[kind |-> "delete", at |-> p, items |-> run(p)]>> ELSE <<>>)
               \o (IF WrittenAt(placed, p) = <<>> THEN <<>>
                   ELSE <<[kind |-> "insert", at |-> p, items |-> WrittenAt(placed, p)]>>)
  IN  FlattenSeq([k \in 1 .. Len(lines) + 1 |-> at(k - 1)])

(* What an edit of `lines` leaves, by the places alone.                    *)
Left(lines, removed, placed) ==
  FlattenSeq([k \in 1 .. Len(lines) + 1 |->
    WrittenAt(placed, k - 1) \o (IF k \in removed \cup {Len(lines) + 1} THEN <<>> ELSE <<lines[k]>>)])

Deltas(lines, room) ==
  {Operations(Canonical(lines, e[1], e[2]), Left(lines, e[1], e[2])) :
     e \in {e \in Removals(Len(lines), room) \X Placements(Len(lines), room) :
              /\ Cardinality(e[1]) + Len(e[2]) <= room
              /\ \A w \in Range(e[2]) : ~(w[1] \in e[1] /\ w[1] + 1 \in e[1])
              /\ Left(lines, e[1], e[2]) # lines}}

(* What a merge keeps of the proposal in turn, and writes between.         *)
Pieces(refs, removed, placed) ==
  LET write(made, p) ==
        LET items == WrittenAt(placed, p)
        IN  IF items = <<>> THEN made ELSE Append(made, [kind |-> "insert", items |-> items])
      take(made, k) ==
        LET before == write(made, k - 1)
        IN  IF k \in removed THEN before ELSE Keeping(before, refs[k])
      all == FoldLeft(take, <<>>, [k \in DOMAIN refs |-> k])
      last == WrittenAt(placed, Len(refs))
  IN  CASE last = <<>> -> all
        [] last # <<>> /\ all # <<>> /\ Last(all).kind = "insert" ->
             [all EXCEPT ![Len(all)].items = @ \o last]
        [] OTHER -> Append(all, [kind |-> "insert", items |-> last])

Resolvings(lines, refs, room) ==
  {d \in {Resolution(Pieces(refs, e[1], e[2]), Left(lines, e[1], e[2])) :
            e \in {e \in Removals(Len(lines), room) \X Placements(Len(lines), room) :
                     Cardinality(e[1]) + Len(e[2]) <= room}} :
     d.pieces # <<>>}

(* What a record on `heads` may state of the file.                         *)
Written(agreed, merged, room) ==
  LET refs == [k \in DOMAIN merged.names |-> Reference(merged.graph, merged.names[k])]
  IN  CASE agreed.kind = "known"  -> {Nothing} \cup Deltas(agreed.lines, room)
        [] agreed.kind = "absent" -> {Nothing} \cup Deltas(<<>>, room)
        [] agreed.kind = "unstated" /\ merged.ok ->
             Resolvings(Texts(merged.tree, merged.names), refs, room)
        [] OTHER -> {}

Weight(stated) ==
  CASE stated.kind = "nothing"    -> 0
    [] stated.kind = "operations" ->
         FoldLeft(LAMBDA n, op : n + Len(op.items), 0, stated.ops)
    [] stated.kind = "resolution" -> Len(Inserted(stated.pieces))
Spent(h) == FoldFunction(LAMBDA w, n : w + n, 0, [e \in DOMAIN h |-> Weight(h[e].stated)])

----------------------------------------------------------------------------
Creation(text) == Operations(<<[kind |-> "insert", at |-> 0, items |-> <<text>>]>>, <<text>>)

Replayed(h, e) == IF refused THEN [ok |-> FALSE, tree |-> tree] ELSE Replay(tree, h, e)

Add(e, parents, stated, text) ==
  LET h == [x \in DOMAIN history \cup {e} |->
              IF x = e THEN Node(history, e, parents, stated) ELSE history[x]]
      now == Replayed(h, e)
  IN  /\ history' = h
      /\ meant' = [x \in DOMAIN h |-> IF x = e THEN text ELSE meant[x]]
      /\ tree' = now.tree
      /\ refused' = ~now.ok

(* The file is written in the first revision, whose text is its document.  *)
Init ==
  \E text \in Text :
    /\ history = [e \in {1} |-> [parents |-> {}, stated |-> Creation(text), past |-> {1}]]
    /\ meant = [e \in {1} |-> <<text>>]
    /\ borrowed = {}
    /\ tree = Walk(history, <<1>>).tree
    /\ refused = FALSE

Antichain(h, heads) == \A p, q \in heads : p # q => Concurrent(h, p, q)

Record(e, heads) ==
  /\ e \notin DOMAIN history
  /\ Cardinality(heads) <= MaxParents
  /\ Antichain(history, heads)
  /\ \E agreed \in {Agreed({FileContent(history, p) : p \in heads})} :
       \E stated \in Written(agreed, MergedContent(history, heads), MaxLines - Spent(history)) :
         /\ Spent(history) + Weight(stated) <= MaxLines
         /\ Add(e, heads, stated,
                CASE stated # Nothing -> stated.result
                  [] stated = Nothing /\ agreed.kind = "known" -> agreed.lines
                  [] OTHER -> <<>>)
  /\ UNCHANGED borrowed

(* A revision written by hand, or by something else, that names a document *)
(* its author never wrote against this parent.                             *)
Borrow(e, p, o) ==
  /\ e \notin DOMAIN history
  /\ Cardinality(borrowed) < MaxBorrowed
  /\ history[o].stated # Nothing
  /\ Add(e, {p}, history[o].stated, history[o].stated.result)
  /\ borrowed' = borrowed \cup {e}

Next ==
  \/ \E e \in Event : \E heads \in (SUBSET DOMAIN history) \ {{}} : Record(e, heads)
  \/ \E e \in Event : \E p, o \in DOMAIN history : Borrow(e, p, o)

Spec == Init /\ [][Next]_vars

----------------------------------------------------------------------------
(* The tree hangs together: every item is under one that is there, and the *)
(* revisions that removed it had it in view.                               *)
TypeOK ==
  /\ DOMAIN history \subseteq Event /\ DOMAIN meant = DOMAIN history
  /\ borrowed \subseteq DOMAIN history
  /\ refused \in BOOLEAN
  /\ \A n \in DOMAIN tree :
       /\ tree[n].parent \in DOMAIN tree \cup {Root} /\ tree[n].side \in Side
       /\ \A d \in tree[n].deleted : Saw(history, d, n[1])

(* Two copies that hold the same revisions read the same file, whatever    *)
(* order the revisions came in: the tree built as they came is the tree of *)
(* the order the code takes, and a document is refused in every order or   *)
(* in none.                                                                *)
OrderIndependent ==
  LET walk == WalkOf(history, DOMAIN history)
  IN  walk.ok = ~refused /\ (walk.ok => walk.tree = tree)

(* A chain read as arithmetic gives the lines, the names and the refusals  *)
(* the tree would have given.                                              *)
FastPathAgrees ==
  Chain(history) /\ Plain(history) =>
    LET linear == Linear(history)
        names == Standing(tree)
    IN  /\ linear.ok = ~refused
        /\ linear.ok => linear.lines = [k \in DOMAIN names |->
                                         [name |-> names[k], text |-> tree[names[k]].text]]

(* What one person wrote in one place stays together: only someone who had *)
(* seen it writes inside it.                                               *)
RunsStayTogether ==
  LET order == Order(tree)
  IN  \A i, j, k \in DOMAIN order :
        /\ i < j /\ j < k
        /\ order[i][1] = order[k][1] /\ tree[order[i]].run = tree[order[k]].run
        /\ order[j][1] # order[i][1]
        => Saw(history, order[j][1], order[i][1])

(* A merge that reports nothing leaves no two lines side by side whose     *)
(* authors had not seen each other, unless somebody has since seen both.   *)
QuietMergesMeetNowhere ==
  LET standing == Standing(tree)
      unseen(a, b) == /\ Concurrent(history, a, b)
                      /\ \A e \in DOMAIN history : ~({a, b} \subseteq history[e].past)
  IN  Contested(tree, history) = {} =>
        \A k \in 1 .. Len(standing) - 1 : ~unseen(standing[k][1], standing[k + 1][1])

(* What a revision's author left in the file is what the store reads back, *)
(* however much was recorded beside it and after it.                       *)
RecordedIsRead ==
  \A e \in DOMAIN history :
    Past(history, {e}) \cap borrowed = {} => FileContent(history, e) = Known(meant[e])

(* A merge whose sides agree by text while the walk holds other lines.     *)
ByTextAlone(agreed, merged) ==
  agreed.kind = "known" /\ Texts(merged.tree, merged.names) # agreed.lines
AgreedByTextAlone(h, e) ==
  /\ Cardinality(h[e].parents) > 1 /\ h[e].stated.kind # "resolution"
  /\ ByTextAlone(Agreed({FileContent(h, p) : p \in h[e].parents}),
                 MergedContent(h, h[e].parents))

(* The walk, given the resolutions it is owed, reads what the rule reads,  *)
(* save after a merge whose sides agreed by text alone.                    *)
WalkReadsTheRule ==
  \A e \in DOMAIN history :
    (\A x \in history[e].past : x \notin borrowed /\ ~AgreedByTextAlone(history, x)) =>
      Shown(MergedContent(history, {e})) = Known(meant[e])

(* A merge never moves a line it has already placed: what comes later goes *)
(* between.                                                                *)
NothingMoves == [][SelectSeq(Order(tree'), LAMBDA n : n \in DOMAIN tree) = Order(tree)]_vars
============================================================================
