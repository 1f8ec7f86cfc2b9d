----------------------------- MODULE Reverting -----------------------------
(***************************************************************************)
(* Undoing one revision against the tree of a head (revert.rs).            *)
(*                                                                         *)
(* A line of revisions is a sequence of trees.  A tree gives each file it  *)
(* holds a path, a kind, a mode and what it holds: a file of lines holds a *)
(* version of each of its passages, which are told apart by lines no       *)
(* revision changes; a file of bytes holds one payload; a link names       *)
(* another file.  Two histories of a passage are merged or contested.      *)
(***************************************************************************)
EXTENDS Integers, Sequences

CONSTANTS
  Files, Places,   \* file identities, and the paths they may have
  Passages,        \* the passages of a file of lines
  Versions,        \* what a passage, or a file of bytes, may hold
  Kinds,           \* file -> its kind: "lines", "whole" or "link"
  Modes,           \* the modes a file may have
  MaxRevisions

VARIABLES trees, payloads
vars == <<trees, payloads>>

Absent == [path |-> "none", holds |-> <<>>, mode |-> "none"]

HoldsOf(f) ==
  CASE Kinds[f] = "lines" -> [Passages -> Versions]
    [] Kinds[f] = "whole" -> [{"whole"} -> Versions]
    [] Kinds[f] = "link"  -> [{"link"} -> Files \ {f}]

EntriesOf(f) == [path : Places, holds : HoldsOf(f), mode : IF Kinds[f] = "lines" THEN Modes ELSE {"plain"}]

Named(t, f) == t[f].holds["link"]
At(t, p)    == {f \in Files : t[f].path = p}

\* A tree holds no path twice, and its links name files it holds.
IsTree(t) ==
  /\ \A f, g \in Files : t[f] # Absent /\ t[g].path = t[f].path => f = g
  /\ \A f \in Files : t[f] # Absent /\ Kinds[f] = "link" => t[Named(t, f)] # Absent

Trees == {t \in [Files -> (UNION {EntriesOf(f) : f \in Files}) \cup {Absent}] :
            /\ \A f \in Files : t[f] \in EntriesOf(f) \cup {Absent}
            /\ IsTree(t)}
-----------------------------------------------------------------------------
(* One undoing: what a file was before, what the revision made of it, what *)
(* the head has of it now; strays are paths the folder holds unrecorded,   *)
(* and dirty are files it does not hold as the head does.  A file's part   *)
(* of the plan is where it ends, and whether it is refused.                *)
Ends(e)      == [end |-> e, refused |-> FALSE]
Refuse(e)    == [end |-> e, refused |-> TRUE]

\* sides is the record of the three trees and of the folder.
Laid(f, e, sides) ==
  IF Kinds[f] = "whole" /\ e.holds["whole"] \notin sides.payloads THEN Refuse(e) ELSE Ends(e)

\* The slip of asking only whether the file still stands.
Unadd_Whatever(f, sides) == Ends(Absent)

Unadd(f, sides) ==
  LET became == sides.after[f]  now == sides.now[f] IN
  CASE now = Absent -> Ends(Absent)
    [] now # Absent /\ (now.holds # became.holds \/ now.mode # became.mode \/ f \in sides.dirty) -> Refuse(now)
    [] OTHER -> Ends(Absent)

Undrop(f, sides) ==
  LET was == sides.before[f]  now == sides.now[f] IN
  CASE now # Absent -> Ends(now)
    [] now = Absent /\ (At(sides.now, was.path) # {} \/ was.path \in sides.strays) -> Refuse(now)
    [] OTHER -> Laid(f, was, sides)

\* Where a moved file goes back to, and whether it cannot.
Destination(f, sides) ==
  LET was == sides.before[f].path  now == sides.now[f].path
  IN IF was # sides.after[f].path /\ now = sides.after[f].path THEN was ELSE now
\* The slip forgets that a file is not in its own way.
Blocked_ByItself(f, sides) ==
  LET p == Destination(f, sides) IN At(sides.now, p) # {} \/ p \in sides.strays
Blocked(f, sides) ==
  LET p == Destination(f, sides)
  IN p # sides.now[f].path /\ (At(sides.now, p) # {} \/ p \in sides.strays)

\* The three-way of one part of a file: undone where the head left it as the
\* revision made it, kept where the revision did not touch it.
Part(then, left, held) == IF held = left THEN then ELSE held
Contested(then, left, held) == then # left /\ then # held /\ held # left

\* The slip restores what was there before without asking what has been done since.
ThreeWay_Restores(f, sides) == sides.before[f].holds
ThreeWay(f, sides) ==
  [x \in DOMAIN sides.now[f].holds |->
     Part(sides.before[f].holds[x], sides.after[f].holds[x], sides.now[f].holds[x])]

ModeOf(f, sides) ==
  Part(sides.before[f].mode, sides.after[f].mode, sides.now[f].mode)

Unedit(f, sides) ==
  LET now == sides.now[f]
      end == [path |-> Destination(f, sides), holds |-> ThreeWay(f, sides), mode |-> ModeOf(f, sides)]
  IN CASE now = Absent -> Ends(Absent)
       [] now # Absent /\ end = now ->
            (IF Blocked(f, sides) THEN Refuse(now) ELSE
             IF \E x \in DOMAIN now.holds : Contested(sides.before[f].holds[x], sides.after[f].holds[x], now.holds[x])
             THEN Refuse(now) ELSE Ends(now))
       [] OTHER ->
            IF \/ Blocked(f, sides) \/ f \in sides.dirty
               \/ \E x \in DOMAIN now.holds : Contested(sides.before[f].holds[x], sides.after[f].holds[x], now.holds[x])
            THEN Refuse(now)
            ELSE IF end.holds # now.holds \/ end.path # now.path THEN Laid(f, end, sides) ELSE Ends(end)

Undoes(f, sides) ==
  CASE sides.before[f] = sides.after[f] -> Ends(sides.now[f])
    [] sides.before[f] = Absent /\ sides.after[f] # Absent -> Unadd(f, sides)
    [] sides.before[f] # Absent /\ sides.after[f] = Absent -> Undrop(f, sides)
    [] OTHER -> Unedit(f, sides)

Result(sides) == [f \in Files |-> Undoes(f, sides).end]

\* Sides::point: every link is pointed where its file ends, and is refused where
\* that is nowhere, or where it must be written over and is not as the head has it.
Unpointed_Never(sides) == {}
Unpointed(sides) ==
  LET t == Result(sides) IN
  {f \in Files :
     /\ t[f] # Absent /\ Kinds[f] = "link"
     /\ \/ t[Named(t, f)] = Absent
        \/ t[f] = sides.now[f] /\ f \in sides.dirty
           /\ t[Named(t, f)].path # sides.now[Named(t, f)].path}

Refused(sides) == Unpointed(sides) # {} \/ \E f \in Files : Undoes(f, sides).refused

Tree(n) == IF n = 0 THEN [f \in Files |-> Absent] ELSE trees[n]
Sides(n, strays, dirty) ==
  [before |-> Tree(n - 1), after |-> Tree(n), now |-> Tree(Len(trees)), payloads |-> payloads, strays |-> strays, dirty |-> dirty]
-----------------------------------------------------------------------------
Init == trees = <<>> /\ payloads \in SUBSET Versions

\* A person records any change of the tree.
Record ==
  /\ Len(trees) < MaxRevisions
  /\ \E t \in Trees \ {Tree(Len(trees))} : trees' = Append(trees, t)
  /\ UNCHANGED payloads

\* A person undoes a revision behind the head, and records what that leaves.
Undo ==
  /\ Len(trees) < MaxRevisions
  /\ \E n \in 1 .. Len(trees) :
       LET sides == Sides(n, {}, {}) IN
       /\ ~Refused(sides) /\ Result(sides) # sides.now
       /\ trees' = Append(trees, Result(sides))
  /\ UNCHANGED payloads

Next == Record \/ Undo
Spec == Init /\ [][Next]_vars
-----------------------------------------------------------------------------
TypeOK == /\ trees \in Seq(Trees) /\ Len(trees) <= MaxRevisions
          /\ payloads \subseteq Versions

Undoings == {Sides(n, strays, dirty) : n \in 1 .. Len(trees), strays \in SUBSET Places, dirty \in SUBSET Files}

(* What an undoing leaves is a tree: no path twice, no link to nowhere.    *)
UndoingLeavesATree == \A sides \in Undoings : ~Refused(sides) => IsTree(Result(sides))

(* An undoing takes back what its revision did and nothing else.  What a   *)
(* file has of path, mode and passages is put back where the head still    *)
(* has it as the revision left it, and otherwise stays; a file is taken    *)
(* away only where the revision added it and nobody has changed it since.  *)
UndoingTakesItsOwn ==
  \A sides \in Undoings : ~Refused(sides) =>
    \A f \in Files :
      LET was == sides.before[f]  became == sides.after[f]  now == sides.now[f]  end == Result(sides)[f]
          Back(w, b, n, e) == e = IF b = n THEN w ELSE n
      IN /\ now = Absent /\ end # Absent => was = end /\ became = Absent
         /\ now # Absent /\ end = Absent =>
              was = Absent /\ now.holds = became.holds /\ now.mode = became.mode
         /\ now # Absent /\ end # Absent /\ was # Absent /\ became # Absent =>
              /\ Back(was.path, became.path, now.path, end.path)
              /\ Back(was.mode, became.mode, now.mode, end.mode)
              /\ \A x \in DOMAIN now.holds : Back(was.holds[x], became.holds[x], now.holds[x], end.holds[x])

(* Nothing the folder alone has is in the way of what an undoing writes:   *)
(* no file it changes is one the folder holds otherwise than the head, and *)
(* no path it writes a file to holds one nothing has recorded.             *)
UndoingSparesTheFolder ==
  \A sides \in Undoings : ~Refused(sides) =>
    \A f \in Files :
      LET now == sides.now[f]  end == Result(sides)[f] IN
      end # now => /\ now # Absent => f \notin sides.dirty
                   /\ end # Absent /\ end.path # now.path => end.path \notin sides.strays

(* The head itself can always be undone in a folder that holds it, unless  *)
(* it put a file where it took another from, or the bytes are not here.    *)
TheHeadCanBeUndone ==
  trees # <<>> =>
    LET sides == Sides(Len(trees), {}, {}) IN
    Refused(sides) =>
      \/ \E f, g \in Files : /\ f # g /\ sides.before[f] # Absent /\ sides.after[g] # Absent
                             /\ sides.before[f].path = sides.after[g].path
      \/ \E f \in Files : /\ Kinds[f] = "whole" /\ sides.before[f] # Absent
                          /\ sides.before[f].holds["whole"] \notin payloads

(* Undoing a revision leaves a tree, takes out what the revision said and   *)
(* nothing another said, leaves unrecorded work in the folder, and the head *)
(* can be undone (revert.rs).                                               *)
RevertsTakeTheirOwn ==
  TypeOK /\ UndoingLeavesATree /\ UndoingTakesItsOwn /\ UndoingSparesTheFolder /\ TheHeadCanBeUndone
=============================================================================
