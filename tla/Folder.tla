------------------------------- MODULE Folder -------------------------------
(***************************************************************************)
(* Making the folder hold the tree at a head (update.rs).                  *)
(*                                                                         *)
(* plan_at reads the folder a path at a time and decides what it would     *)
(* take to hold the target; apply looks at every destination once more     *)
(* and acts.  The person edits the folder at any moment, the command may   *)
(* be stopped at any moment, and is then run again from what it finds.     *)
(* A look and the act that follows it are two steps, which is the window   *)
(* of write_by_reading (fs.rs) and of every hashed write.                  *)
(*                                                                         *)
(* A path holds nothing, a file, a link or a directory.  Inside pairs a    *)
(* path with the directory it stands in.  What a revision has recorded at  *)
(* a path is the relation Recorded, of contents and of link spellings.     *)
(***************************************************************************)
EXTENDS Integers, FiniteSets, Sequences

CONSTANTS
  Order,       \* the paths a tree or the folder may hold, in path order
  Inside,      \* pairs <<p, d>>: p stands in the directory d
  Texts,       \* contents that are lines
  Payloads,    \* contents that are bytes
  Spellings,   \* what a link may point at
  Recorded,    \* pairs <<p, c>>: a revision records c at p
  Modes,       \* the modes a person gives a file: may it be run
  MaxRuns,     \* how often the command is run
  MaxEdits     \* how often the person changes the folder

Paths == {Order[i] : i \in DOMAIN Order}

\* Directories are within directories, and none is within itself.
ASSUME InsideAssumption ==
  /\ Inside \subseteq Paths \X Paths
  /\ \A p \in Paths : <<p, p>> \notin Inside
  /\ \A e, f \in Inside : e[2] = f[1] => <<e[1], f[2]>> \in Inside
ASSUME ModesAssumption == Modes \subseteq BOOLEAN

VARIABLES
  disk,      \* what stands at each path
  target,    \* the tree the folder is to hold, a path at a time
  payload,   \* whether each payload is held here, held elsewhere, or forgotten
  phase,     \* "idle", "plan", or "apply"
  offered,   \* what the walk saw as the command began
  unread,    \* paths whose bytes are still to be read for the guard
  unplanned, \* paths not looked at yet
  refused,   \* paths in the way
  todo,      \* what the plan will do
  hand,      \* what was looked at and is about to be done: at most one
  removed,   \* paths this run removed
  left,      \* paths that changed underneath the update
  ended,     \* how the last run ended
  unseen,    \* paths the person changed since the command last looked at what is there
  raced,     \* paths changed between the plan's hash and the bytes it kept
  lost,      \* what was destroyed and no revision held, and whether it was seen
  runs, edits

vars == <<disk, target, payload, phase, offered, unread, unplanned, refused, todo,
          hand, removed, left, ended, unseen, raced, lost, runs, edits>>

folder == <<disk, unseen, lost, edits>>
plan   == <<offered, unread, unplanned, refused, todo, raced>>
done   == <<hand, removed, left>>
store  == <<target, payload>>
-----------------------------------------------------------------------------
Contents == Texts \cup Payloads

Nothing   == [is |-> "nothing", holds |-> "none", runs |-> FALSE]
Directory == [is |-> "directory", holds |-> "none", runs |-> FALSE]
Files     == [is : {"file"}, holds : Contents, runs : BOOLEAN]
Links     == [is : {"link"}, holds : Spellings, runs : {FALSE}]
Standing  == Files \cup Links \cup {Nothing, Directory}

\* What a tree holds at a path: nothing, an entry, or a path it cannot place --
\* two files there, a path that is also a directory, one in the store or under
\* a skip rule, or content concurrent revisions left without a winner.
Disputed == [is |-> "disputed", holds |-> "none", runs |-> FALSE]
EntriesAt(p) ==
  {Nothing, Disputed} \cup {s \in Files \cup Links : <<p, s.holds>> \in Recorded}

Holders(p) == {d \in Paths : <<p, d>> \in Inside}
Within(d)  == {p \in Paths : <<p, d>> \in Inside}
Stands(s)  == s.is \in {"file", "link"}
Offers(p)  == Stands(offered[p])

\* Asking after a path beneath a file is an error and not an absence.
Unaskable(p) == \E d \in Holders(p) : Stands(disk[d])

Same(one, other) == one.is = other.is /\ one.holds = other.holds

\* RecordedBytes::standing: is what stands at p recorded there, and held?
Held(p, c)      == <<p, c>> \in Recorded /\ (c \in Payloads => payload[c] = "held")
Elsewhere(p, c) == <<p, c>> \in Recorded /\ c \in Payloads /\ payload[c] # "held"

\* The slip of not making the directory.
Placed_Bare(p, s) == [disk EXCEPT ![p] = s]

\* What is put at p, whose directory is made first.
Placed(p, s) ==
  [q \in Paths |-> IF q = p THEN s ELSE IF q \in Holders(p) THEN Directory ELSE disk[q]]

\* What p held is gone, for `new` stands there now: lost if no revision holds it.
Destroyed(p, new) ==
  lost \cup
  IF Stands(disk[p]) /\ ~Same(disk[p], new) /\ ~\E q \in Paths : Held(q, disk[p].holds)
  THEN {[is |-> disk[p].is, seen |-> p \notin unseen, late |-> p \in raced]} ELSE {}
-----------------------------------------------------------------------------
(* A run begins: the folder is walked, and nothing of it is read yet.      *)
Begin ==
  /\ phase = "idle" /\ runs < MaxRuns
  /\ phase' = "plan"
  /\ offered' = disk /\ unplanned' = Paths
  /\ unread' = {} /\ refused' = {} /\ todo' = {} /\ raced' = {}
  /\ hand' = {} /\ removed' = {} /\ left' = {}
  /\ ended' = "not yet" /\ runs' = runs + 1
  /\ UNCHANGED <<folder, store>>

Fail == /\ phase' = "idle" /\ ended' = "failed"
        /\ UNCHANGED <<folder, store, plan, done, runs>>

\* One path decided: what is added to the plan, and whether it is refused.
Decide(p, adds, refuses) ==
  /\ unplanned' = unplanned \ {p} /\ unseen' = unseen \ {p}
  /\ todo' = todo \cup adds
  /\ refused' = IF refuses THEN refused \cup {p} ELSE refused
  /\ UNCHANGED <<disk, lost, edits, store, offered, phase, done, ended, runs, raced>>

Does(what, p, wants, replaces) ==
  [do |-> what, path |-> p, wants |-> wants, replaces |-> replaces]

\* The tree's paths come first, in path order, and then the folder's others.
First(S)  == {Order[n] : n \in {m \in DOMAIN Order :
                  Order[m] \in S /\ \A o \in 1 .. m - 1 : Order[o] \notin S}}
TreePaths == {p \in unplanned : target[p] # Nothing}
Now       == First(IF TreePaths = {} THEN unplanned ELSE TreePaths)

Planning(p, kind) == phase = "plan" /\ unread = {} /\ p \in Now /\ target[p].is = kind

PlanDisputed(p) ==
  Planning(p, "disputed") /\ Decide(p, {}, TRUE) /\ UNCHANGED unread

\* A link is replaced by a link whatever it spells; a file only where it is recorded.
PlanLink(p) ==
  /\ Planning(p, "link") /\ ~Unaskable(p)
  /\ LET link == Does("link", p, target[p], disk[p])
     IN \/ Same(disk[p], target[p]) /\ Decide(p, {}, FALSE)
        \/ disk[p].is = "link" /\ ~Same(disk[p], target[p]) /\ Decide(p, {link}, FALSE)
        \/ disk[p] = Nothing /\ Decide(p, {link}, FALSE)
        \/ disk[p] = Directory /\ Decide(p, {}, TRUE)
        \/ /\ disk[p].is = "file"
           /\ LET ours == offered[p].is = "file" /\ Held(p, disk[p].holds)
              IN Decide(p, IF ours THEN {link} ELSE {}, ~ours)
  /\ UNCHANGED unread

Wanting(p) == target[p].holds
Missing(p) == Wanting(p) \in Payloads /\ payload[Wanting(p)] # "held"
Gone(p)    == Wanting(p) \in Payloads /\ payload[Wanting(p)] = "forgotten"

\* The right bytes under the wrong mode.  The slip is to compare bytes alone.
Chmods_Never(p) == {}
Chmods(p) == IF disk[p].runs = target[p].runs THEN {} ELSE {Does("mode", p, target[p], disk[p])}

\* A tree's file where the walk saw a file: hashed, and replaced only if held.
PlanOverFile(p) ==
  /\ Planning(p, "file") /\ offered[p].is = "file" /\ disk[p].is = "file" /\ ~Gone(p)
  /\ \/ /\ Same(disk[p], target[p])
        /\ Decide(p, Chmods(p), FALSE)
        /\ UNCHANGED unread
     \/ /\ ~Same(disk[p], target[p]) /\ Held(p, disk[p].holds)
        /\ Decide(p, {Does(IF Missing(p) THEN "remove" ELSE "write", p, target[p], disk[p])}, FALSE)
        /\ unread' = IF Wanting(p) \in Texts THEN {p} ELSE {}
     \/ /\ ~Same(disk[p], target[p]) /\ ~Held(p, disk[p].holds)
        /\ Decide(p, {}, TRUE) /\ UNCHANGED unread

\* Where the walk saw none: written only where nothing stands.
PlanOverNothing(p) ==
  /\ Planning(p, "file") /\ ~Offers(p) /\ ~Gone(p)
  /\ \/ Missing(p) /\ Decide(p, {}, FALSE)
     \/ /\ ~Missing(p) /\ ~Unaskable(p)
        /\ LET free == disk[p] = Nothing
           IN Decide(p, IF free THEN {Does("write", p, target[p], Nothing)} ELSE {}, ~free)
  /\ UNCHANGED unread

\* The slip is to refuse bytes held elsewhere with those forgotten.
PlanInTheWay_Missing(p) ==
  /\ Planning(p, "file") /\ (offered[p].is = "link" \/ Missing(p))
  /\ Decide(p, {}, TRUE) /\ UNCHANGED unread

PlanInTheWay(p) ==
  /\ Planning(p, "file") /\ (offered[p].is = "link" \/ Gone(p))
  /\ Decide(p, {}, TRUE) /\ UNCHANGED unread

\* The bytes the guard will compare with are read after the hash that allowed them.
ReadReplaced(p) ==
  /\ phase = "plan" /\ p \in unread /\ disk[p].is = "file"
  /\ todo' = {IF i.path = p THEN [i EXCEPT !.replaces = disk[p]] ELSE i : i \in todo}
  /\ unread' = {} /\ unseen' = unseen \ {p}
  /\ raced' = IF p \in unseen THEN raced \cup {p} ELSE raced
  /\ UNCHANGED <<disk, lost, edits, store, offered, unplanned, refused, phase, done, ended, runs>>

\* Paths waiting for bytes that are held elsewhere, which a copy may be moved to.
Awaiting(c) ==
  {p \in Paths : /\ target[p].is = "file" /\ Wanting(p) = c /\ Missing(p) /\ ~Gone(p) /\ ~Offers(p)
                 /\ ~\E i \in todo : i.do = "move" /\ i.wants = p}

\* A path the target does not hold: removed if held, moved if it is the only
\* copy and the target wants it, and left where it stands otherwise.
PlanStray(p) ==
  /\ Planning(p, "nothing")
  /\ \/ ~Offers(p) /\ Decide(p, {}, FALSE)
     \/ /\ offered[p].is = "link"
        /\ Decide(p, IF <<p, offered[p].holds>> \in Recorded
                     THEN {Does("remove", p, Nothing, offered[p])} ELSE {}, FALSE)
     \/ /\ offered[p].is = "file" /\ disk[p].is = "file" /\ Held(p, disk[p].holds)
        /\ Decide(p, {Does("remove", p, Nothing, disk[p])}, FALSE)
     \/ /\ offered[p].is = "file" /\ disk[p].is = "file" /\ ~Held(p, disk[p].holds)
        /\ LET wanted == Awaiting(disk[p].holds)
           IN \/ /\ Elsewhere(p, disk[p].holds) /\ wanted # {}
                 /\ \E q \in wanted : Decide(p, {Does("move", p, q, disk[p])}, FALSE)
              \/ /\ ~(Elsewhere(p, disk[p].holds) /\ wanted # {})
                 /\ Decide(p, {}, FALSE)
  /\ UNCHANGED unread

\* What the walk offered has gone, or a path beneath a file is asked after.
PlanFails ==
  /\ phase = "plan"
  /\ \/ \E p \in unread : disk[p].is # "file"
     \/ /\ unread = {}
        /\ \E p \in Now :
             \/ /\ offered[p].is = "file" /\ disk[p].is # "file"
                /\ \/ target[p] = Nothing
                   \/ target[p].is = "file" /\ ~Gone(p)
             \/ Unaskable(p) /\ target[p].is = "link"
             \/ Unaskable(p) /\ target[p].is = "file" /\ ~Offers(p) /\ ~Missing(p)
  /\ Fail

\* One refusal stops every write.
EndPlan ==
  /\ phase = "plan" /\ unplanned = {} /\ unread = {}
  /\ phase' = IF refused = {} THEN "apply" ELSE "idle"
  /\ ended' = IF refused = {} THEN ended ELSE "refused"
  /\ UNCHANGED <<folder, store, plan, done, runs>>
-----------------------------------------------------------------------------
(* Applying.  Removes, moves, writes, links and modes, in that order, and  *)
(* each of those in path order.                                            *)
Rank == [remove |-> 1, move |-> 2, write |-> 3, link |-> 4, mode |-> 5]
Turn == LET soonest == {i \in todo : \A j \in todo : Rank[i.do] <= Rank[j.do]}
        IN {i \in soonest : i.path \in First({j.path : j \in soonest})}

\* Does what stands there still answer to what the plan saw?  The slip is not to ask.
StillThere(i) == i.replaces.is = disk[i.path].is /\ i.replaces.holds = disk[i.path].holds
Unmoved_Trusting(i) == TRUE
Unmoved(i) ==
  CASE i.do = "move" -> StillThere(i) /\ disk[i.wants] = Nothing
    [] i.do = "mode" -> disk[i.path].is = "file"
    [] OTHER -> StillThere(i)

\* The paths a look asks after.  Reading a link that is not there is no error,
\* and a look before a mode is set sees only whether there is a file.
Ends(i) == IF i.do = "move" THEN {i.path, i.wants} ELSE {i.path}
Asks(i) == IF i.do = "remove" /\ i.replaces.is = "link" THEN {} ELSE Ends(i)
Sees(i) == IF i.do = "mode" THEN {} ELSE Ends(i)

\* Hashing or reading a directory is an error too; looking for nothing is not.
Reads(i) ==
  /\ i.do = "remove" => i.replaces.is # "link"
  /\ i.do = "write" => i.replaces # Nothing \/ i.wants.holds \in Payloads
Unreadable(i) == (\E p \in Asks(i) : Unaskable(p)) \/ (Reads(i) /\ disk[i.path] = Directory)

\* The slip is not to tell of what is left alone.
Look_Untold(i) ==
  /\ phase = "apply" /\ hand = {} /\ i \in Turn
  /\ ~Unreadable(i)
  /\ todo' = todo \ {i}
  /\ hand' = IF Unmoved(i) THEN {i} ELSE {}
  /\ unseen' = unseen \ Sees(i)
  /\ UNCHANGED <<disk, lost, edits, store, offered, unread, unplanned, refused, raced,
                 phase, removed, left, ended, runs>>

Look(i) ==
  /\ phase = "apply" /\ hand = {} /\ i \in Turn
  /\ ~Unreadable(i)
  /\ todo' = todo \ {i}
  /\ hand' = IF Unmoved(i) THEN {i} ELSE {}
  /\ left' = IF Unmoved(i) \/ (i.do = "remove" /\ disk[i.path] = Nothing)
             THEN left ELSE left \cup {i.path}
  /\ unseen' = unseen \ Sees(i)
  /\ UNCHANGED <<disk, lost, edits, store, offered, unread, unplanned, refused, raced,
                 phase, removed, ended, runs>>

Acting(i, what) == phase = "apply" /\ i \in hand /\ i.do = what

Acted(now, gone, next) ==
  /\ disk' = now /\ lost' = gone /\ hand' = next
  /\ UNCHANGED <<unseen, edits, store, plan, phase, left, ended, runs>>

ActRemove(i) ==
  /\ Acting(i, "remove") /\ Stands(disk[i.path])
  /\ Acted([disk EXCEPT ![i.path] = Nothing], Destroyed(i.path, Nothing), {})
  /\ removed' = removed \cup {i.path}

ActMove(i) ==
  /\ Acting(i, "move") /\ Stands(disk[i.path])
  /\ disk[i.wants] # Directory /\ ~Unaskable(i.wants)
  /\ Acted([Placed(i.wants, disk[i.path]) EXCEPT ![i.path] = Nothing],
           Destroyed(i.wants, disk[i.path]), {})
  /\ UNCHANGED removed

\* The file is replaced whole, and its mode is then read and set.
ActWrite(i) ==
  /\ Acting(i, "write") /\ disk[i.path] # Directory /\ ~Unaskable(i.path)
  /\ \E x \in BOOLEAN :
       Acted(Placed(i.path, [i.wants EXCEPT !.runs = x]), Destroyed(i.path, i.wants),
             {[i EXCEPT !.do = "mode"]})
  /\ UNCHANGED removed

ActLink(i) ==
  /\ Acting(i, "link") /\ disk[i.path] # Directory /\ ~Unaskable(i.path)
  /\ Acted(Placed(i.path, i.wants), Destroyed(i.path, i.wants), {})
  /\ UNCHANGED removed

ActMode(i) ==
  /\ Acting(i, "mode") /\ disk[i.path].is = "file"
  /\ Acted([disk EXCEPT ![i.path].runs = i.wants.runs], lost, {})
  /\ UNCHANGED removed

\* What was looked at has gone, become a directory, or lies beneath a file.
ApplyFails ==
  /\ phase = "apply"
  /\ \/ hand = {} /\ \E i \in Turn : Unreadable(i)
     \/ \E i \in hand :
          \/ i.do \in {"remove", "move"} /\ ~Stands(disk[i.path])
          \/ i.do = "move" /\ (disk[i.wants] = Directory \/ Unaskable(i.wants))
          \/ i.do \in {"write", "link"} /\ (disk[i.path] = Directory \/ Unaskable(i.path))
          \/ i.do = "mode" /\ disk[i.path].is # "file"
  /\ Fail

\* Every directory the removals emptied goes with them, and so the one it was in.
Emptied(d) ==
  /\ \A p \in Within(d) : ~Stands(disk[p])
  /\ \A c \in {d} \cup Within(d) : disk[c] = Directory => Within(c) \cap removed # {}

EndApply ==
  /\ phase = "apply" /\ todo = {} /\ hand = {}
  /\ disk' = [d \in Paths |-> IF disk[d] = Directory /\ Emptied(d) THEN Nothing ELSE disk[d]]
  /\ phase' = "idle" /\ ended' = "done"
  /\ UNCHANGED <<unseen, lost, edits, store, plan, done, runs>>

\* The machine stops; what is not yet done is forgotten.
Stop ==
  /\ phase \in {"plan", "apply"} /\ ended' = "stopped" /\ phase' = "idle"
  /\ UNCHANGED <<folder, store, plan, done, runs>>

\* The person writes, points or removes something.
Edit(p, s) ==
  /\ edits < MaxEdits /\ s # disk[p] /\ disk[p] # Directory /\ ~Unaskable(p)
  /\ disk' = IF s = Nothing THEN [disk EXCEPT ![p] = s] ELSE Placed(p, s)
  /\ unseen' = unseen \cup {p} /\ edits' = edits + 1
  /\ UNCHANGED <<lost, store, plan, phase, done, ended, runs>>

EditsAt(p) ==
  {Nothing} \cup {s \in Files : s.runs \in Modes} \cup {s \in Links : Within(p) = {}}
-----------------------------------------------------------------------------
(* A folder somebody has been working in: recorded and unrecorded files.   *)
Folders ==
  {f \in [Paths -> Standing] : \A p \in Paths :
     /\ f[p] = Directory <=> \E q \in Within(p) : Stands(f[q])
     /\ f[p] # Directory => f[p] \in EditsAt(p)}

Init ==
  /\ disk \in Folders
  /\ target \in {t \in [Paths -> Standing \cup {Disputed}] : \A p \in Paths :
       /\ t[p] \in EntriesAt(p)
       /\ t[p] # Nothing => \A d \in Holders(p) : t[d] = Nothing
       /\ t[p] = Disputed => Holders(p) \cup Within(p) = {}
       /\ Within(p) # {} => t[p].is # "link"}
  /\ payload \in [Payloads -> {"held", "elsewhere", "forgotten"}]
  /\ phase = "idle" /\ ended = "not yet" /\ offered = disk
  /\ unread = {} /\ unplanned = {} /\ refused = {} /\ todo = {} /\ hand = {}
  /\ removed = {} /\ left = {} /\ unseen = {} /\ raced = {} /\ lost = {}
  /\ runs = 0 /\ edits = 0

Plan(p) ==
  \/ PlanDisputed(p) \/ PlanLink(p) \/ PlanOverFile(p) \/ PlanOverNothing(p)
  \/ PlanInTheWay(p) \/ ReadReplaced(p) \/ PlanStray(p)

Act(i) == ActRemove(i) \/ ActMove(i) \/ ActWrite(i) \/ ActLink(i) \/ ActMode(i)

Command ==
  \/ \E p \in Paths : Plan(p)
  \/ PlanFails \/ EndPlan
  \/ \E i \in todo : Look(i)
  \/ \E i \in hand : Act(i)
  \/ ApplyFails \/ EndApply

Next ==
  \/ Begin \/ Command \/ Stop
  \/ \E p \in Paths : \E s \in EditsAt(p) : Edit(p, s)

Spec == Init /\ [][Next]_vars
-----------------------------------------------------------------------------
\* The state is what its comments say.
TypeOK ==
  /\ disk \in [Paths -> Standing] /\ offered \in [Paths -> Standing]
  /\ \A p \in Paths : target[p] \in EntriesAt(p)
  /\ payload \in [Payloads -> {"held", "elsewhere", "forgotten"}]
  /\ phase \in {"idle", "plan", "apply"}
  /\ ended \in {"not yet", "done", "refused", "failed", "stopped"}
  /\ \A s \in {unread, unplanned, refused, removed, left, unseen, raced} : s \subseteq Paths
  /\ Cardinality(hand) <= 1 /\ \A i \in todo \cup hand : i.do \in DOMAIN Rank
  /\ \A p \in Paths : Stands(disk[p]) => \A d \in Holders(p) : disk[d] = Directory

(* What an update destroys and no revision holds, it never looked at: it   *)
(* arrived after the last look at that path.  Two exceptions stand, both   *)
(* in the code: a link whose spelling nothing recorded, and bytes that     *)
(* arrived between the hash that allowed a write and the read its guard    *)
(* is made from (update.rs, plan_at).                                      *)
LosesOnlyWhatItNeverSaw ==
  \A l \in lost : l.seen => l.is = "link" \/ l.late

(* The promise without its exceptions: nothing an update has looked at and *)
(* no revision holds is replaced or removed.                               *)
ReplacesOnlyTheRecorded == \A l \in lost : ~l.seen

(* An update that ends, with nobody editing, however often it was stopped  *)
(* before, leaves the folder holding the head: every entry with its mode,  *)
(* for bytes held elsewhere those bytes or no file, and beside the head    *)
(* only what the store does not hold.  (A file that was moved to its place *)
(* keeps the mode it had: see HoldsEveryMode.)  What it leaves undone is   *)
(* a move to where the walk saw a directory, and nothing else.             *)
DoneHoldsTheHead ==
  ended = "done" /\ edits = 0 =>
    /\ \A p \in left : \E q \in Paths :
         /\ target[p] = Nothing /\ offered[q] = Directory
         /\ target[q].is = "file" /\ Missing(q) /\ Same(disk[p], target[q])
    /\ \A p \in Paths :
         /\ target[p].is = "link" => Same(disk[p], target[p])
         /\ target[p].is = "file" =>
              \/ disk[p] = target[p]
              \/ Missing(p) /\ (Stands(disk[p]) => Same(disk[p], target[p]))
         /\ target[p] = Nothing /\ disk[p].is = "file" => ~Held(p, disk[p].holds)

\* What the head has at p stands there, or p is bytes held elsewhere and free.
AtTheHead(p) ==
  /\ target[p].is = "link" => Same(disk[p], target[p])
  /\ target[p].is = "file" => Same(disk[p], target[p]) \/ (Missing(p) /\ (Offers(p) => ~Stands(disk[p])))
  /\ target[p] = Nothing =>
       /\ offered[p].is = "file" /\ disk[p].is = "file" => ~Held(p, disk[p].holds)
       /\ offered[p].is = "link" /\ disk[p] = offered[p] => <<p, disk[p].holds>> \notin Recorded

(* What comes back is what happened: an update that says it is done tells  *)
(* of every path it left without the head, whatever the person did, except *)
(* where they changed it after the last time its contents were looked at.  *)
DoneTellsWhatItLeft ==
  ended = "done" => \A p \in Paths : AtTheHead(p) \/ p \in left \cup unseen

(* 0030: updating twice is the identity the second time, modes included.   *)
HoldsEveryMode ==
  ended = "done" /\ edits = 0 =>
    \A p \in Paths : Same(disk[p], target[p]) => disk[p] = target[p]

\* The tree has a file where the folder has a directory, or the other way about.
Clashes ==
  \E e \in Inside : \/ Stands(offered[e[2]]) /\ target[e[1]] # Nothing
                    \/ Stands(offered[e[1]]) /\ target[e[2]] # Nothing

\* Something in the folder or the tree that no update may overrule.
InTheWay ==
  \E p \in Paths :
    \/ target[p] = Disputed \/ (target[p].is = "file" /\ Gone(p))
    \/ /\ Stands(offered[p]) /\ ~Same(offered[p], target[p])
       /\ \/ ~Held(p, offered[p].holds)
          \/ offered[p].is = "link" /\ target[p].is = "file"

(* With nobody editing, an update ends without the head only for work the  *)
(* store does not hold, for a tree no folder can hold, for a link where a  *)
(* file goes, or for a file where a directory goes: so a stopped update is *)
(* never refused for what it wrote itself.                                 *)
RefusesForAReason ==
  edits = 0 /\ ended \in {"refused", "failed"} => InTheWay \/ Clashes

(* 0030: a folder holding nothing but recorded work takes any head.        *)
RecordedFoldersCatchUp ==
  edits = 0 /\ ended \in {"refused", "failed"} => InTheWay
=============================================================================
