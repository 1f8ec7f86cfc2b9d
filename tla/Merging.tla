------------------------------ MODULE Merging ------------------------------
(***************************************************************************)
(* How one file is read from a graph of revisions (src/merge.rs).  Every   *)
(* revision states operations against the file as its author saw it, and   *)
(* the walk turns positions into items of one tree, read from left to      *)
(* right.  Nothing of the tree is stored: each copy walks what it has.     *)
(*                                                                         *)
(* A history `h` gives each revision its parents, what it states of the    *)
(* file, and its past, itself included.  A revision is the rank of its     *)
(* digest, so that the numbers are digest order and say nothing of which   *)
(* came first.  A document is its content, as its digest stands for.  An   *)
(* item is named by its author and by how many the author's document       *)
(* minted before it.                                                       *)
(***************************************************************************)
EXTENDS Naturals, FiniteSets, Sequences, SequencesExt

Root == <<0, 0>>
Side == {"left", "right"}
Nothing == [kind |-> "nothing"]
(* A document names the text it leaves, so two that differ only there are  *)
(* two documents.                                                          *)
Operations(ops, result) == [kind |-> "operations", ops |-> ops, result |-> result]
Resolution(pieces, result) == [kind |-> "resolution", pieces |-> pieces, result |-> result]

----------------------------------------------------------------------------
(* The graph.                                                              *)

Node(h, e, parents, stated) ==
  [parents |-> parents, stated |-> stated,
   past |-> {e} \cup UNION {h[p].past : p \in parents}]
Knows(h, e, o) == o \in h[e].past
Saw(h, e, o) == o # e /\ Knows(h, e, o)
Concurrent(h, e, o) == ~Knows(h, e, o) /\ ~Knows(h, o, e)

(* Each after its parents, the lowest digest first among those that can go. *)
CausalOrder(h) ==
  LET place[done \in Seq(DOMAIN h)] ==
        LET ready == {e \in DOMAIN h : e \notin Range(done) /\ h[e].parents \subseteq Range(done)}
        IN  IF ready = {} THEN done
            ELSE place[Append(done, CHOOSE e \in ready : \A o \in ready : e <= o)]
  IN  place[<<>>]
Chain(h) ==
  LET order == CausalOrder(h)
  IN  \A k \in DOMAIN order :
        h[order[k]].parents = IF k = 1 THEN {} ELSE {order[k - 1]}

----------------------------------------------------------------------------
(* The tree.  Among its siblings an element stands in the order of names.  *)

NameBefore(n, m) == n[1] < m[1] \/ (n[1] = m[1] /\ n[2] < m[2])
Children(t, parent, side) ==
  SetToSortSeq({n \in DOMAIN t : t[n].parent = parent /\ t[n].side = side}, NameBefore)

(* In order: what hangs to the left, the element, what hangs to the right. *)
Order(t) ==
  LET read[n \in DOMAIN t \cup {Root}] ==
        LET under(side) == FlattenSeq([k \in DOMAIN Children(t, n, side) |->
                                         read[Children(t, n, side)[k]]])
        IN  under("left") \o (IF n = Root THEN <<>> ELSE <<n>>) \o under("right")
  IN  read[Root]

Standing(t) == SelectSeq(Order(t), LAMBDA n : t[n].deleted = {})
Seen(t, h, e, n) == Saw(h, e, n[1]) /\ \A d \in t[n].deleted : ~Saw(h, e, d)
\* Slip: positions are read against the file as it stands here.
Visible_Standing(t, h, e) == Standing(t)
Visible(t, h, e) == SelectSeq(Order(t), LAMBDA n : Seen(t, h, e, n))

\* Slip: what the author had not seen anchors too.
FirstKnown_Any(t, h, e, siblings) == IF siblings = <<>> THEN Root ELSE Head(siblings)
FirstKnown(t, h, e, siblings) ==
  LET known == SelectSeq(siblings, LAMBDA n : Knows(h, e, n[1]))
  IN  IF known = <<>> THEN Root ELSE Head(known)
LeftmostKnown(t, h, e, from) ==
  LET down[n \in DOMAIN t] ==
        LET next == FirstKnown(t, h, e, Children(t, n, "left"))
        IN  IF next = Root THEN n ELSE down[next]
  IN  down[from]

(* Where a new item belongs that its author wrote after `left`: to its     *)
(* right if nothing the author knew was there, and else to the left of the *)
(* first thing that was, removed or not.                                   *)
Anchor(t, h, e, left) ==
  LET first == FirstKnown(t, h, e, Children(t, left, "right"))
  IN  IF first = Root THEN [parent |-> left, side |-> "right"]
      ELSE [parent |-> LeftmostKnown(t, h, e, first), side |-> "left"]

Attach(t, name, text, run, place) ==
  [n \in DOMAIN t \cup {name} |->
     IF n = name
     THEN [parent |-> place.parent, side |-> place.side, text |-> text, run |-> run, deleted |-> {}]
     ELSE t[n]]
\* Slip: what is removed is taken out of the tree.
Mark_Gone(t, n, e) == [x \in DOMAIN t \ {n} |-> t[x]]
Mark(t, n, e) == [t EXCEPT ![n].deleted = @ \cup {e}]

Minted(t, e) == Cardinality({n \in DOMAIN t : n[1] = e})

(* A run, each item anchored after the one before it.                      *)
InsertRun(t, h, e, left, run, items) ==
  FoldLeft(LAMBDA now, text :
             LET name == <<e, Minted(now.tree, e)>>
             IN  [tree |-> Attach(now.tree, name, text, run, Anchor(now.tree, h, e, now.left)),
                  left |-> name],
           [tree |-> t, left |-> left], items)

Fits(prepare, op) ==
  IF op.kind = "delete" THEN op.at + Len(op.items) <= Len(prepare) ELSE op.at <= Len(prepare)
Agrees(t, prepare, op) ==
  op.kind = "delete" => \A k \in DOMAIN op.items : op.items[k] = t[prepare[op.at + k]].text

Holds(t, prepare, ops) ==
  \A k \in DOMAIN ops : Fits(prepare, ops[k]) /\ Agrees(t, prepare, ops[k])

(* Every position is read against the file as the author saw it.           *)
Put(now, h, e, prepare, run, op) ==
  IF op.kind = "delete"
  THEN FoldLeft(LAMBDA u, i : Mark(u, prepare[op.at + i], e), now,
                [i \in DOMAIN op.items |-> i])
  ELSE InsertRun(now, h, e, IF op.at = 0 THEN Root ELSE prepare[op.at], run, op.items).tree
ReplayAgainst(t, h, e, prepare, ops) ==
  IF Holds(t, prepare, ops)
  THEN [ok |-> TRUE,
        tree |-> FoldLeft(LAMBDA now, k : Put(now, h, e, prepare, k, ops[k]), t,
                          [k \in DOMAIN ops |-> k])]
  ELSE [ok |-> FALSE, tree |-> t]
ReplayOperations(t, h, e, ops) == ReplayAgainst(t, h, e, Visible(t, h, e), ops)

(* A resolution names what survives by the document that minted it, which  *)
(* two revisions may share: the first item under that name not kept yet.   *)
Refers(t, h, n, from, item) == h[n[1]].stated = from /\ n[2] = item
Pick(t, h, prepare, kept, from, item) ==
  LET found == {q \in DOMAIN prepare \ kept : Refers(t, h, prepare[q], from, item)}
  IN  IF found = {} THEN 0 ELSE CHOOSE q \in found : \A r \in found : q <= r

KeepRun(now, h, prepare, piece) ==
  FoldLeft(LAMBDA v, k :
             LET q == Pick(v.tree, h, prepare, v.kept, piece.from, piece.first + k - 1)
             IN  IF ~v.ok \/ q = 0 THEN [v EXCEPT !.ok = FALSE]
                 ELSE [v EXCEPT !.kept = @ \cup {q}, !.left = prepare[q]],
           now, [k \in 1 .. piece.count |-> k])

Grown(now, put) == [now EXCEPT !.tree = put.tree, !.left = put.left]
Piece(now, h, e, prepare, k, piece) ==
  CASE ~now.ok -> now
    [] now.ok /\ piece.kind = "keep" -> KeepRun(now, h, prepare, piece)
    [] OTHER -> Grown(now, InsertRun(now.tree, h, e, now.left, k, piece.items))
Without(e, prepare, end) ==
  LET dropped == {prepare[q] : q \in DOMAIN prepare \ end.kept}
  IN  [ok |-> end.ok,
       tree |-> [n \in DOMAIN end.tree |->
                   IF n \in dropped THEN [end.tree[n] EXCEPT !.deleted = @ \cup {e}]
                   ELSE end.tree[n]]]
Pieced(t, h, e, prepare, pieces) ==
  FoldLeft(LAMBDA now, k : Piece(now, h, e, prepare, k, pieces[k]),
           [ok |-> TRUE, tree |-> t, kept |-> {}, left |-> Root], [k \in DOMAIN pieces |-> k])

\* Slip: what a resolution does not keep is left standing.
ReplayResolution_KeepsAll(t, h, e, pieces) ==
  LET end == Pieced(t, h, e, Visible(t, h, e), pieces) IN [ok |-> end.ok, tree |-> end.tree]

(* What is kept in turn, what is written between, and the rest removed.    *)
Resolved(t, h, e, prepare, pieces) == Without(e, prepare, Pieced(t, h, e, prepare, pieces))
ReplayResolution(t, h, e, pieces) == Resolved(t, h, e, Visible(t, h, e), pieces)

Replay(t, h, e) ==
  CASE h[e].stated.kind = "nothing"    -> [ok |-> TRUE, tree |-> t]
    [] h[e].stated.kind = "operations" -> ReplayOperations(t, h, e, h[e].stated.ops)
    [] h[e].stated.kind = "resolution" -> ReplayResolution(t, h, e, h[e].stated.pieces)

EmptyTree == [n \in {} |-> n]
After(now, h, e) == IF now.ok THEN Replay(now.tree, h, e) ELSE now
Walk(h, order) ==
  FoldLeft(LAMBDA now, e : After(now, h, e), [ok |-> TRUE, tree |-> EmptyTree], order)

(* Who wrote in the place where `n` stands, neither having seen the other. *)
InsertedAgainst(t, h, n) ==
  {o[1] : o \in {o \in DOMAIN t : /\ o # n
                                  /\ t[o].parent = t[n].parent /\ t[o].side = t[n].side
                                  /\ Concurrent(h, o[1], n[1])}}

\* Slip: only what is written in one place is a contest.
RemovedAgainst_Never(t, h, n) == {}

(* What was removed right beside `n`, up to the next thing left standing,  *)
(* by someone who had not seen it and whom its author had not seen.        *)
RemovedAgainst(t, h, n) ==
  LET order == Order(t)
      stands(k) == t[order[k]].deleted = {}
      here == CHOOSE k \in DOMAIN order : order[k] = n
      beside(k) == /\ ~stands(k)
                   /\ \A j \in DOMAIN order :
                        (j > k /\ j < here) \/ (j < k /\ j > here) => ~stands(j)
  IN  {e \in UNION {t[order[k]].deleted : k \in {k \in DOMAIN order : beside(k)}} :
         Concurrent(h, n[1], e)}

Contested(t, h) ==
  {n \in Range(Standing(t)) : InsertedAgainst(t, h, n) \cup RemovedAgainst(t, h, n) # {}}

Texts(t, names) == [k \in DOMAIN names |-> t[names[k]].text]

----------------------------------------------------------------------------
(* The fast path: a chain of documents whose inserts ascend is applied as  *)
(* arithmetic, without a tree.                                             *)

Ascending(ops) ==
  \A j, k \in DOMAIN ops :
    j < k /\ ops[j].kind = "insert" /\ ops[k].kind = "insert" => ops[j].at < ops[k].at
Plain(h) ==
  \A e \in DOMAIN h :
    /\ h[e].stated.kind # "resolution"
    /\ h[e].stated.kind = "operations" => Ascending(h[e].stated.ops)

(* Every position is read before any of them moves anything; an insert goes *)
(* before whatever stood there.                                            *)
Spliced(lines, ops, fresh) ==
  LET removed == UNION {{ops[k].at + i : i \in DOMAIN ops[k].items} :
                          k \in {j \in DOMAIN ops : ops[j].kind = "delete"}}
      added(at) == FlattenSeq([k \in DOMAIN ops |->
                     IF ops[k].kind = "insert" /\ ops[k].at = at
                     THEN fresh[k] ELSE <<>>])
  IN  FlattenSeq([p \in 1 .. Len(lines) |->
                    added(p - 1) \o (IF p \in removed THEN <<>> ELSE <<lines[p]>>)])
        \o added(Len(lines))
Found(texts, ops) ==
  \A k \in DOMAIN ops :
    /\ Fits(texts, ops[k])
    /\ ops[k].kind = "delete" =>
         \A i \in DOMAIN ops[k].items : ops[k].items[i] = texts[ops[k].at + i]

\* Slip: the second run of a document is numbered from nothing.
Step_Renumbers(lines, e, ops) ==
  LET fits == Found([p \in DOMAIN lines |-> lines[p].text], ops)
  IN  [ok |-> fits,
       lines |-> IF fits
                 THEN Spliced(lines, ops, [k \in DOMAIN ops |-> [i \in DOMAIN ops[k].items |->
                        [name |-> <<e, i - 1>>, text |-> ops[k].items[i]]]])
                 ELSE lines]

Step(lines, e, ops) ==
  LET before(k) == FoldLeft(LAMBDA n, j : IF ops[j].kind = "insert" THEN n + Len(ops[j].items) ELSE n,
                            0, [j \in 1 .. k - 1 |-> j])
      fits == Found([p \in DOMAIN lines |-> lines[p].text], ops)
  IN  [ok |-> fits,
       lines |-> IF fits
                 THEN Spliced(lines, ops, [k \in DOMAIN ops |-> [i \in DOMAIN ops[k].items |->
                        [name |-> <<e, before(k) + i - 1>>, text |-> ops[k].items[i]]]])
                 ELSE lines]

Linear(h) ==
  FoldLeft(LAMBDA now, e : IF now.ok /\ h[e].stated.kind = "operations"
                           THEN Step(now.lines, e, h[e].stated.ops) ELSE now,
           [ok |-> TRUE, lines |-> <<>>], CausalOrder(h))
============================================================================
