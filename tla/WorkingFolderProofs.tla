------------------------- MODULE WorkingFolderProofs -------------------------
(***************************************************************************)
(* Theorems about the folder a person works in, however many paths there   *)
(* are, however the person edits and wherever a command stops: what an     *)
(* update of it loses and leaves (Folder), what a survey of it may be      *)
(* wrong about (Working), and what undoing a revision in it takes back     *)
(* (Reverting).                                                            *)
(***************************************************************************)
EXTENDS MCWorkingFolder, FiniteSetTheorems, TLAPS

(* What the apply is handed: a copy to move, and everything else.            *)
Moves  == [do : {"move"}, path : Paths, wants : Paths, replaces : Files]
Others == [do : {"remove", "write", "link", "mode"}, path : Paths, wants : Standing, replaces : Standing]

(* The state is of its types; a command that runs has not ended, and has at  *)
(* most one item in hand.                                                    *)
Typed ==
  /\ disk \in [Paths -> Standing] /\ offered \in [Paths -> Standing]
  /\ target \in [Paths -> Standing \cup {Disputed}]
  /\ \A p \in Paths : target[p] \in EntriesAt(p)
  /\ payload \in [Payloads -> {"held", "elsewhere", "forgotten"}]
  /\ phase \in {"idle", "plan", "apply"}
  /\ ended \in {"not yet", "done", "refused", "failed", "stopped"}
  /\ phase # "idle" => ended = "not yet"
  /\ \A s \in {unread, unplanned, refused, removed, left, unseen, raced} : s \subseteq Paths
  /\ todo \subseteq Moves \cup Others
  /\ hand = {} \/ \E i \in Moves \cup Others : hand = {i}
  /\ edits \in Nat

(* An item that writes knows the entry it writes.                            *)
Worded(i) ==
  /\ i.do \in {"write", "mode"} => i.wants \in Files
  /\ i.do = "link" => i.wants \in Links

(* What stands in a directory stands in a directory.                         *)
Orderly(f) == \A p \in Paths : Stands(f[p]) => \A d \in Holders(p) : f[d] = Directory

(* The phases follow each other; and neither what the head records nor what  *)
(* the folder holds puts a path beneath a file.                              *)
InOrder ==
  /\ phase = "plan" => hand = {}
  /\ phase = "apply" => unplanned = {} /\ unread = {} /\ refused = {}
  /\ \A i \in todo \cup hand : Worded(i)
  /\ \A p \in Paths : target[p] # Nothing => \A d \in Holders(p) : target[d] = Nothing
  /\ Orderly(disk)

(* What stands is nothing the store would miss: no bytes, a link, or bytes   *)
(* some revision records at some path.                                       *)
Kept(s) == Stands(s) => s.is = "link" \/ \E q \in Paths : Held(q, s.holds)

(* What a look was told of and the plan has not yet read is kept, as long as *)
(* nobody wrote since.                                                       *)
GuardsRead == \A p \in unread : p \notin unseen => Kept(disk[p])
(* What the plan means to replace is kept, but where the person wrote before *)
(* the plan read it.                                                         *)
GuardsPlanned ==
  \A i \in todo \cup hand :
    i.do \in {"remove", "write", "link"} => Kept(i.replaces) \/ i.path \in raced
(* What has been looked at in the apply is what the plan compared with, as   *)
(* long as nobody wrote since: a copy still has its place to go to.          *)
GuardsHold ==
  \A i \in hand :
    /\ i.do \in {"remove", "write", "link"} /\ i.path \notin unseen /\ Stands(disk[i.path]) => StillThere(i)
    /\ i.do = "move" /\ i.wants \notin unseen => ~Stands(disk[i.wants])
Guarded == GuardsRead /\ GuardsPlanned /\ GuardsHold

(* A path stands as the head has it, as far as an update promises: a payload *)
(* the store lacks may be missing, and what no revision records may stay.    *)
Settled(p) ==
  /\ target[p].is = "link" => Same(disk[p], target[p])
  /\ target[p].is = "file" =>
       \/ disk[p] = target[p]
       \/ Missing(p) /\ (Stands(disk[p]) => Same(disk[p], target[p]))
  /\ target[p] = Nothing /\ disk[p].is = "file" => ~Held(p, disk[p].holds)

(* What is planned still fits what stands, when nobody edited.               *)
FitRemove(i) ==
  /\ Stands(disk[i.path]) /\ StillThere(i)
  /\ target[i.path] = Nothing \/ (target[i.path].is = "file" /\ Missing(i.path))
FitWrite(i) ==
  /\ target[i.path] = i.wants /\ StillThere(i) /\ i.replaces # Directory
  /\ i.do = "write" => ~Missing(i.path)
FitMode(i) == target[i.path] = i.wants /\ Same(disk[i.path], target[i.path])
FitMove(i) ==
  /\ target[i.path] = Nothing /\ StillThere(i) /\ ~Held(i.path, i.replaces.holds)
  /\ target[i.wants].is = "file" /\ target[i.wants].holds = i.replaces.holds /\ Missing(i.wants)
  /\ disk[i.wants] \in {Nothing, Directory}
  /\ disk[i.wants] = Directory => offered[i.wants] = Directory

(* Each kind of item, by its own measure.                                    *)
Fit(i) ==
  /\ i.do = "remove" => FitRemove(i)
  /\ i.do \in {"write", "link"} => FitWrite(i)
  /\ i.do = "mode" => FitMode(i)
  /\ i.do = "move" => FitMove(i)

(* A directory stands where the head has a file or a link.                   *)
Blocked(d) ==
  /\ disk[d] = Directory
  /\ target[d].is = "link" \/ (target[d].is = "file" /\ ~Missing(d))

(* No path is planned for twice, and no place is moved to twice.             *)
Apart(these) ==
  \A i, j \in these :
       /\ i.path = j.path => i = j
       /\ i.do = "move" /\ j.do = "move" /\ i.wants = j.wants => i = j

(* What a look at one path of the plan adds, and whether it refuses. *)
Sensible(p, adds, refuses) ==
  /\ \A i \in adds : /\ i.path = p /\ Worded(i)
                     /\ i.do \in {"remove", "write", "link"} => Kept(i.replaces)
  /\ \A i, j \in adds : i = j
  /\ disk = offered =>
       /\ \A i \in adds :
            Fit(i) /\ (i.do = "move" => \A j \in todo : j.do = "move" => j.wants # i.wants)
       /\ Blocked(p) => refuses
       /\ refuses \/ Settled(p) \/ adds # {}
       /\ refuses => InTheWay \/ Blocked(p)

(* While a command runs and nobody edits: everything planned fits, every path*)
(* looked at is refused, settled or still to be done, and what stands either *)
(* stood at the walk or is what the head has.                                *)
Running ==
  phase # "idle" =>
  /\ phase = "plan" => left = {} /\ disk = offered /\ \A p \in unread : disk[p].is = "file"
  /\ \A i \in todo \cup hand : Fit(i)
  /\ \A i \in hand : i.do = "move" => disk[i.wants] = Nothing
  /\ Apart(todo \cup hand) /\ todo \cap hand = {}
  /\ \A i \in todo : i.path \notin unplanned
  /\ \A i \in todo \cup hand : i.path \notin left
  /\ \A p \in Paths \ unplanned :
       /\ Blocked(p) => p \in refused
       /\ p \in refused \/ Settled(p) \/ \E i \in todo \cup hand : i.path = p
  /\ \A d \in Paths : Stands(disk[d]) => Stands(offered[d]) \/ target[d] # Nothing

(* While nobody edits, whatever state an update is in: no directory is in the*)
(* way but with something in it, a refusal has a reason, and an update that  *)
(* is done left every path settled.                                          *)
Calm ==
  /\ Running
  /\ \A d \in Paths : Blocked(d) => \E p \in Within(d) : Stands(disk[p])
  /\ refused # {} => InTheWay \/ Clashes
  /\ RefusesForAReason
  /\ ended = "done" => \A p \in Paths : Settled(p)
  /\ \A p \in left : \E q \in Paths :
         /\ target[p] = Nothing /\ offered[q] = Directory
         /\ target[q].is = "file" /\ Missing(q) /\ Same(disk[p], target[q])

(* The inductive invariant.                                                  *)
FolderInv == Typed /\ InOrder /\ Guarded /\ LosesOnlyWhatItNeverSaw /\ (edits = 0 => Calm)

(* What stands at a path is one of four things.                              *)
LEMMA WhatStands ==
  ASSUME NEW s \in Standing
  PROVE  /\ s.is \in {"nothing", "directory", "file", "link"} /\ s.runs \in BOOLEAN
         /\ s.is = "nothing" <=> s = Nothing
         /\ s.is = "directory" <=> s = Directory
         /\ s.is = "file" <=> s \in Files
         /\ s.is = "link" <=> s \in Links
         /\ Stands(s) <=> s \in Files \cup Links
         /\ Stands(s) <=> s # Nothing /\ s # Directory
         /\ s # Disputed
<1>1. \A f \in Files : f.is = "file" /\ f.runs \in BOOLEAN
  BY DEF Files
<1>2. \A l \in Links : l.is = "link" /\ l.runs \in BOOLEAN
  BY DEF Links
<1>3. Nothing.is = "nothing" /\ Nothing.runs \in BOOLEAN
  BY DEF Nothing
<1>4. Directory.is = "directory" /\ Directory.runs \in BOOLEAN
  BY DEF Directory
<1>5. Disputed.is = "disputed"
  BY DEF Disputed
<1>6. s \in Files \/ s \in Links \/ s = Nothing \/ s = Directory
  BY DEF Standing
<1>7. QED  BY <1>1, <1>2, <1>3, <1>4, <1>5, <1>6 DEF Stands

(* The paths and items whose turn it is are among those to come.             *)
LEMMA FirstAreIn == ASSUME NEW S PROVE First(S) \subseteq S
BY DEF First

LEMMA NowIsToCome == Now \subseteq unplanned
BY FirstAreIn DEF Now, TreePaths

LEMMA TurnIsToDo == Turn \subseteq todo
BY DEF Turn

(* What Placed puts where. *)
LEMMA PlacedThere ==
  ASSUME NEW p \in Paths, NEW s \in Standing, disk \in [Paths -> Standing]
  PROVE  /\ Placed(p, s) \in [Paths -> Standing]
         /\ Placed(p, s)[p] = s
         /\ \A q \in Paths \ {p} : Placed(p, s)[q] = IF q \in Holders(p) THEN Directory ELSE disk[q]
BY DEF Placed, Standing

(* The directories of a path, and the paths of a directory.                  *)
LEMMA HoldersHold ==
  ASSUME NEW p \in Paths
  PROVE  /\ p \notin Holders(p) /\ p \notin Within(p)
         /\ \A q \in Paths : q \in Holders(p) <=> p \in Within(q)
         /\ Holders(p) \subseteq Paths /\ Within(p) \subseteq Paths
BY InsideAssumption DEF Holders, Within

(* A file whose mode is changed is a file of the same bytes.                 *)
LEMMA FilesStand ==
  ASSUME NEW s \in Files, NEW x \in BOOLEAN
  PROVE  /\ [s EXCEPT !.runs = x] \in Files /\ [s EXCEPT !.runs = x].is = "file"
         /\ [s EXCEPT !.runs = x].holds = s.holds /\ [s EXCEPT !.runs = x].runs = x
         /\ s.runs = x => [s EXCEPT !.runs = x] = s
BY DEF Files

(* The fields of what is to be done. *)
LEMMA ItemsHave ==
  ASSUME NEW i \in Moves \cup Others
  PROVE  /\ i.do \in {"remove", "move", "write", "link", "mode"} /\ i.path \in Paths
         /\ i.replaces \in Standing
         /\ i.do = "move" <=> i \in Moves
         /\ i.do = "move" => i.wants \in Paths /\ i.replaces \in Files
         /\ i.do # "move" => i.wants \in Standing
BY DEF Moves, Others, Standing

(* The items a plan makes.                                                   *)
LEMMA DoesIs ==
  ASSUME NEW what, NEW p \in Paths, NEW wants, NEW replaces \in Standing,
         \/ what = "move" /\ wants \in Paths /\ replaces \in Files
         \/ what \in {"remove", "write", "link", "mode"} /\ wants \in Standing
  PROVE  /\ Does(what, p, wants, replaces) \in Moves \cup Others
         /\ Does(what, p, wants, replaces).do = what
         /\ Does(what, p, wants, replaces).path = p
         /\ Does(what, p, wants, replaces).wants = wants
         /\ Does(what, p, wants, replaces).replaces = replaces
BY DEF Does, Moves, Others

(* A write that is done leaves its mode to be set; a read fills in what is   *)
(* replaced.                                                                 *)
LEMMA BecomesMode ==
  ASSUME NEW i \in Moves \cup Others, i.do = "write"
  PROVE  LET j == [i EXCEPT !.do = "mode"] IN
         /\ j \in Others /\ j.do = "mode" /\ j.path = i.path
         /\ j.wants = i.wants /\ j.replaces = i.replaces
BY DEF Moves, Others

LEMMA ReplacesNow ==
  ASSUME NEW i \in Moves \cup Others, NEW s \in Files
  PROVE  LET j == [i EXCEPT !.replaces = s] IN
         /\ j \in Moves \cup Others /\ j.do = i.do /\ j.path = i.path
         /\ j.wants = i.wants /\ j.replaces = s
<1>1. CASE i \in Moves
  BY <1>1 DEF Moves
<1>2. CASE i \in Others
  BY <1>2 DEF Others, Standing
<1>3. QED BY <1>1, <1>2

(* The item in hand is an item, and the only one.                            *)
LEMMA HandOf ==
  ASSUME Typed
  PROVE  /\ \A i \in hand : hand = {i} /\ i \in Moves \cup Others
         /\ hand \subseteq Moves \cup Others
BY DEF Typed

(* What the head has at a path is one of four things.                        *)
LEMMA TargetKinds ==
  ASSUME Typed, NEW p \in Paths
  PROVE  /\ target[p].is \in {"nothing", "disputed", "file", "link"}
         /\ target[p].is = "nothing" <=> target[p] = Nothing
         /\ target[p].is = "disputed" <=> target[p] = Disputed
         /\ target[p].is = "file" <=> target[p] \in Files
         /\ target[p].is = "link" <=> target[p] \in Links
         /\ target[p] \in Standing \cup {Disputed}
         /\ target[p] # Disputed => target[p] \in Standing
<1>1. target[p] \in {Nothing, Disputed} \cup Files \cup Links /\ target[p] \in Standing \cup {Disputed}
  BY DEF Typed, EntriesAt
<1>2. Disputed.is = "disputed" /\ Nothing \in Standing
  BY DEF Disputed, Standing
<1>3. \A s \in Files \cup Links : s \in Standing
  BY DEF Standing
<1>4. target[p] \in Standing \/ target[p] = Disputed
  BY <1>1
<1>5. CASE target[p] = Disputed
  <2>1. \A s \in Files \cup Links \cup {Nothing} : s # Disputed
    BY <1>2, <1>3, WhatStands
  <2>2. target[p].is = "disputed" /\ target[p] # Nothing /\ target[p] \notin Files /\ target[p] \notin Links
    BY <1>2, <1>5, <2>1
  <2>3. QED  BY <1>1, <1>5, <2>2
<1>6. CASE target[p] \in Standing
  <2>1. target[p] # Disputed /\ target[p] # Directory
    <3>1. \A s \in Files \cup Links \cup {Nothing} : s # Directory
      <4>1. Directory.is = "directory" /\ Nothing.is = "nothing"
        BY DEF Directory, Nothing
      <4>2. QED  BY <1>3, <4>1, WhatStands
    <3>2. target[p] # Disputed
      BY <1>6, WhatStands
    <3>3. QED  BY <1>1, <3>1, <3>2
  <2>2. QED  BY <1>1, <1>6, <2>1, WhatStands
<1>7. QED  BY <1>4, <1>5, <1>6

(* Files of the same bytes and mode are one.                                 *)
LEMMA SameFiles ==
  ASSUME NEW s \in Files, NEW t \in Files, Same(s, t), s.runs = t.runs
  PROVE  s = t
BY DEF Files, Same

(* What is kept, whatever the store holds.                                   *)
LEMMA HeldSomewhere ==
  ASSUME NEW p \in Paths, NEW s, Held(p, s.holds)
  PROVE  Kept(s)
BY DEF Kept

LEMMA NothingIsKept == Kept(Nothing) /\ Nothing \in Standing /\ ~Stands(Nothing) /\ ~Stands(Directory)
<1>1. Nothing.is = "nothing" /\ Directory.is = "directory"
  BY DEF Nothing, Directory
<1>2. QED  BY <1>1 DEF Kept, Stands, Standing

LEMMA LinksAreKept == ASSUME NEW s, s.is = "link" PROVE Kept(s)
BY DEF Kept
-----------------------------------------------------------------------------
(* Each look of the plan at a path adds sensible items or refuses.           *)
LEMMA PlansALink ==
  ASSUME Typed, InOrder, NEW p \in Paths, PlanLink(p)
  PROVE  \E adds \in SUBSET (Moves \cup Others), refuses \in BOOLEAN :
           Decide(p, adds, refuses) /\ Sensible(p, adds, refuses)
<1> DEFINE link == Does("link", p, target[p], disk[p])
<1>1. target[p].is = "link" /\ target[p] \in Links /\ target[p] \in Standing
  BY TargetKinds DEF PlanLink, Planning, Standing
<1>2. disk[p] \in Standing /\ offered[p] \in Standing
  BY DEF Typed
<1>3. /\ link \in Moves \cup Others /\ link.do = "link" /\ link.path = p
      /\ link.wants = target[p] /\ link.replaces = disk[p]
  BY <1>1, <1>2, DoesIs
<1>4. ASSUME disk[p] # Directory, Kept(disk[p]) PROVE Sensible(p, {link}, FALSE)
  <2>1. Fit(link)
    BY <1>3, <1>4 DEF Fit, FitWrite, StillThere
  <2>2. Worded(link)
    BY <1>1, <1>3 DEF Worded
  <2>3. ~Blocked(p)
    BY <1>4 DEF Blocked
  <2>4. QED  BY <1>3, <1>4, <2>1, <2>2, <2>3 DEF Sensible
<1>5. CASE Same(disk[p], target[p]) /\ Decide(p, {}, FALSE)
  <2>1. disk[p].is = "link"
    BY <1>1, <1>5 DEF Same
  <2>2. ~Blocked(p)
    BY <1>2, <2>1, WhatStands DEF Blocked
  <2>3. Settled(p)
    BY <1>1, <1>5, TargetKinds DEF Settled
  <2>4. Sensible(p, {}, FALSE)
    BY <2>2, <2>3 DEF Sensible
  <2>5. QED  BY <1>5, <2>4
<1>6. CASE disk[p].is = "link" /\ Decide(p, {link}, FALSE)
  <2>1. disk[p] # Directory /\ Kept(disk[p])
    BY <1>2, <1>6, WhatStands, LinksAreKept
  <2>2. QED  BY <1>3, <1>4, <1>6, <2>1
<1>7. CASE disk[p] = Nothing /\ Decide(p, {link}, FALSE)
  <2>1. disk[p] # Directory /\ Kept(disk[p])
    BY <1>7, NothingIsKept, WhatStands
  <2>2. QED  BY <1>3, <1>4, <1>7, <2>1
<1>8. CASE disk[p] = Directory /\ Decide(p, {}, TRUE)
  <2>1. Blocked(p)
    BY <1>1, <1>8 DEF Blocked
  <2>2. Sensible(p, {}, TRUE)
    BY <2>1 DEF Sensible
  <2>3. QED  BY <1>8, <2>2
<1>9. ASSUME disk[p].is = "file", offered[p].is = "file" /\ Held(p, disk[p].holds), Decide(p, {link}, FALSE)
      PROVE  \E adds \in SUBSET (Moves \cup Others), refuses \in BOOLEAN :
               Decide(p, adds, refuses) /\ Sensible(p, adds, refuses)
  <2>1. disk[p] # Directory /\ Kept(disk[p])
    BY <1>2, <1>9, WhatStands, HeldSomewhere
  <2>2. QED  BY <1>3, <1>4, <1>9, <2>1
<1>10. ASSUME disk[p].is = "file", ~(offered[p].is = "file" /\ Held(p, disk[p].holds)), Decide(p, {}, TRUE)
       PROVE  \E adds \in SUBSET (Moves \cup Others), refuses \in BOOLEAN :
                Decide(p, adds, refuses) /\ Sensible(p, adds, refuses)
  <2>1. disk = offered => InTheWay
    BY <1>1, <1>10 DEF InTheWay, Stands, Same
  <2>2. Sensible(p, {}, TRUE)
    BY <2>1 DEF Sensible
  <2>3. QED  BY <1>10, <2>2
<1>11. QED  BY <1>5, <1>6, <1>7, <1>8, <1>9, <1>10 DEF PlanLink

LEMMA PlansOverAFile ==
  ASSUME Typed, InOrder, NEW p \in Paths, PlanOverFile(p)
  PROVE  /\ \E adds \in SUBSET (Moves \cup Others), refuses \in BOOLEAN :
              Decide(p, adds, refuses) /\ Sensible(p, adds, refuses)
         /\ unread' = {} \/ (unread' = {p} /\ disk[p].is = "file" /\ Kept(disk[p]))
<1>1. target[p].is = "file" /\ target[p] \in Files /\ target[p] \in Standing
  BY TargetKinds DEF PlanOverFile, Planning, Standing
<1>2. /\ disk[p] \in Standing /\ disk[p].is = "file" /\ disk[p] \in Files /\ Stands(disk[p])
      /\ disk[p] # Directory /\ ~Blocked(p)
  BY WhatStands DEF Typed, PlanOverFile, Stands, Blocked
<1>3. CASE Same(disk[p], target[p]) /\ Decide(p, Chmods(p), FALSE) /\ UNCHANGED unread
  <2> DEFINE mode == Does("mode", p, target[p], disk[p])
  <2>1. /\ mode \in Moves \cup Others /\ mode.do = "mode" /\ mode.path = p
        /\ mode.wants = target[p]
    BY <1>1, <1>2, DoesIs
  <2>2. Fit(mode) /\ Worded(mode)
    BY <1>1, <1>3, <2>1 DEF Fit, FitMode, Worded
  <2>3. disk[p].runs = target[p].runs => Settled(p)
    BY <1>1, <1>2, <1>3, SameFiles, TargetKinds DEF Settled
  <2>4. Chmods(p) = {} \/ Chmods(p) = {mode}
    BY DEF Chmods
  <2>5. Chmods(p) = {} => Settled(p)
    BY <2>3 DEF Chmods
  <2>6. Sensible(p, Chmods(p), FALSE)
    <3> HIDE DEF mode
    <3>1. QED  BY <1>2, <2>1, <2>2, <2>4, <2>5 DEF Sensible
  <2>7. unread' = {}
    BY <1>3 DEF PlanOverFile, Planning
  <2>8. QED  BY <1>3, <2>1, <2>4, <2>6, <2>7
<1>4. CASE /\ ~Same(disk[p], target[p]) /\ Held(p, disk[p].holds)
           /\ Decide(p, {Does(IF Missing(p) THEN "remove" ELSE "write", p, target[p], disk[p])}, FALSE)
           /\ unread' = IF Wanting(p) \in Texts THEN {p} ELSE {}
  <2> DEFINE what == IF Missing(p) THEN "remove" ELSE "write"
             i == Does(what, p, target[p], disk[p])
  <2>1. /\ i \in Moves \cup Others /\ i.do = what /\ i.path = p
        /\ i.wants = target[p] /\ i.replaces = disk[p]
    BY <1>1, <1>2, DoesIs
  <2>2. Kept(disk[p])
    BY <1>4, HeldSomewhere
  <2>3. StillThere(i)
    BY <2>1 DEF StillThere
  <2>4. Fit(i) /\ Worded(i)
    BY <1>1, <1>2, <2>1, <2>3 DEF Fit, FitRemove, FitWrite, Worded
  <2>5. what # "move"
    OBVIOUS
  <2>6. Sensible(p, {i}, FALSE)
    <3> HIDE DEF i, what
    <3>1. QED  BY <1>2, <2>1, <2>2, <2>4, <2>5 DEF Sensible
  <2>7. QED  BY <1>2, <1>4, <2>1, <2>2, <2>6
<1>5. CASE ~Same(disk[p], target[p]) /\ ~Held(p, disk[p].holds) /\ Decide(p, {}, TRUE) /\ UNCHANGED unread
  <2>1. disk = offered => InTheWay
    BY <1>2, <1>5 DEF InTheWay
  <2>2. Sensible(p, {}, TRUE)
    BY <2>1 DEF Sensible
  <2>3. unread' = {}
    BY <1>5 DEF PlanOverFile, Planning
  <2>4. QED  BY <1>5, <2>2, <2>3
<1>6. QED  BY <1>3, <1>4, <1>5 DEF PlanOverFile

LEMMA PlansOverNothing ==
  ASSUME Typed, InOrder, NEW p \in Paths, PlanOverNothing(p)
  PROVE  \E adds \in SUBSET (Moves \cup Others), refuses \in BOOLEAN :
           Decide(p, adds, refuses) /\ Sensible(p, adds, refuses)
<1>1. target[p].is = "file" /\ target[p] \in Files /\ target[p] \in Standing
  BY TargetKinds DEF PlanOverNothing, Planning, Standing
<1>2. disk[p] \in Standing /\ offered[p] \in Standing /\ ~Stands(offered[p])
  BY DEF Typed, PlanOverNothing, Offers
<1>3. CASE Missing(p) /\ Decide(p, {}, FALSE)
  <2>1. disk = offered => Settled(p)
    BY <1>1, <1>2, <1>3, TargetKinds DEF Settled
  <2>2. ~Blocked(p)
    BY <1>1, <1>3 DEF Blocked
  <2>3. Sensible(p, {}, FALSE)
    BY <2>1, <2>2 DEF Sensible
  <2>4. QED  BY <1>3, <2>3
<1>4. CASE ~Missing(p) /\ disk[p] = Nothing /\ Decide(p, {Does("write", p, target[p], Nothing)}, FALSE)
  <2> DEFINE i == Does("write", p, target[p], Nothing)
  <2>1. /\ i \in Moves \cup Others /\ i.do = "write" /\ i.path = p
        /\ i.wants = target[p] /\ i.replaces = Nothing
    BY <1>1, NothingIsKept, DoesIs
  <2>2. Fit(i) /\ Worded(i) /\ ~Blocked(p)
    <3>1. Nothing # Directory
      BY NothingIsKept, WhatStands DEF Directory, Nothing
    <3>2. StillThere(i)
      BY <1>4, <2>1 DEF StillThere
    <3>3. QED  BY <1>1, <1>4, <2>1, <3>1, <3>2 DEF Fit, FitWrite, Worded, Blocked
  <2>3. Sensible(p, {i}, FALSE)
    <3> HIDE DEF i
    <3>1. QED  BY <2>1, <2>2, NothingIsKept DEF Sensible
  <2>4. QED  BY <1>4, <2>1, <2>3
<1>5. CASE ~Missing(p) /\ disk[p] # Nothing /\ Decide(p, {}, TRUE)
  <2>1. disk = offered => Blocked(p)
    BY <1>1, <1>2, <1>5, WhatStands DEF Blocked
  <2>2. Sensible(p, {}, TRUE)
    BY <2>1 DEF Sensible
  <2>3. QED  BY <1>5, <2>2
<1>6. QED  BY <1>3, <1>4, <1>5 DEF PlanOverNothing

LEMMA PlansInTheWay ==
  ASSUME Typed, InOrder, NEW p \in Paths, PlanInTheWay(p) \/ PlanDisputed(p)
  PROVE  \E adds \in SUBSET (Moves \cup Others), refuses \in BOOLEAN :
           Decide(p, adds, refuses) /\ Sensible(p, adds, refuses)
<1>1. Decide(p, {}, TRUE)
  BY DEF PlanInTheWay, PlanDisputed
<1>2. InTheWay
  <2>1. CASE PlanDisputed(p)
    BY <2>1, TargetKinds DEF PlanDisputed, Planning, InTheWay
  <2>2. CASE PlanInTheWay(p)
    BY <2>2 DEF PlanInTheWay, Planning, InTheWay, Stands, Same
  <2>3. QED  BY <2>1, <2>2
<1>3. Sensible(p, {}, TRUE)
  BY <1>2 DEF Sensible
<1>4. QED  BY <1>1, <1>3

LEMMA PlansAStray ==
  ASSUME Typed, InOrder, NEW p \in Paths, PlanStray(p)
  PROVE  \E adds \in SUBSET (Moves \cup Others), refuses \in BOOLEAN :
           Decide(p, adds, refuses) /\ Sensible(p, adds, refuses)
<1>1. target[p] = Nothing /\ Nothing \in Standing
  BY TargetKinds, NothingIsKept DEF PlanStray, Planning
<1>2. disk[p] \in Standing /\ offered[p] \in Standing
  BY DEF Typed
<1>3. ~Blocked(p)
  <2>1. target[p].is = "nothing"
    BY <1>1, TargetKinds
  <2>2. QED  BY <2>1 DEF Blocked
<1>4. ASSUME disk = offered => (disk[p].is = "file" => ~Held(p, disk[p].holds)), Decide(p, {}, FALSE)
      PROVE  \E adds \in SUBSET (Moves \cup Others), refuses \in BOOLEAN :
               Decide(p, adds, refuses) /\ Sensible(p, adds, refuses)
  <2>1. disk = offered => Settled(p)
    BY <1>1, <1>4, TargetKinds DEF Settled
  <2>2. Sensible(p, {}, FALSE)
    BY <1>3, <2>1 DEF Sensible
  <2>3. QED  BY <1>4, <2>2
<1>5. ASSUME NEW s \in Standing, disk = offered => s = disk[p], Stands(s), Kept(s),
             Decide(p, {Does("remove", p, Nothing, s)}, FALSE)
      PROVE  \E adds \in SUBSET (Moves \cup Others), refuses \in BOOLEAN :
               Decide(p, adds, refuses) /\ Sensible(p, adds, refuses)
  <2> DEFINE i == Does("remove", p, Nothing, s)
  <2>1. /\ i \in Moves \cup Others /\ i.do = "remove" /\ i.path = p
        /\ i.wants = Nothing /\ i.replaces = s
    BY <1>1, DoesIs
  <2>2. Worded(i) /\ (disk = offered => Fit(i))
    BY <1>1, <1>5, <2>1 DEF Fit, FitRemove, Worded, StillThere
  <2>3. Sensible(p, {i}, FALSE)
    <3> HIDE DEF i
    <3>1. QED  BY <1>3, <1>5, <2>1, <2>2 DEF Sensible
  <2>4. QED  BY <1>5, <2>1, <2>3
<1>6. ASSUME disk[p].is = "file", ~Held(p, disk[p].holds),
             NEW q \in Awaiting(disk[p].holds), Decide(p, {Does("move", p, q, disk[p])}, FALSE)
      PROVE  \E adds \in SUBSET (Moves \cup Others), refuses \in BOOLEAN :
               Decide(p, adds, refuses) /\ Sensible(p, adds, refuses)
  <2> DEFINE i == Does("move", p, q, disk[p])
  <2>1. disk[p] \in Files
    BY <1>2, <1>6, WhatStands
  <2>2. /\ q \in Paths /\ target[q].is = "file" /\ target[q].holds = disk[p].holds
        /\ Missing(q) /\ ~Stands(offered[q])
        /\ \A j \in todo : j.do = "move" => j.wants # q
    BY <1>6 DEF Awaiting, Wanting, Offers
  <2>3. /\ i \in Moves \cup Others /\ i.do = "move" /\ i.path = p
        /\ i.wants = q /\ i.replaces = disk[p]
    BY <1>2, <2>1, <2>2, DoesIs
  <2>4. disk = offered => disk[q] \in {Nothing, Directory}
    BY <2>2, WhatStands DEF Typed
  <2>5. Worded(i) /\ StillThere(i)
    BY <2>3 DEF Worded, StillThere
  <2>6. disk = offered => Fit(i)
    BY <1>1, <1>6, <2>2, <2>3, <2>4, <2>5 DEF Fit, FitMove
  <2>7. Sensible(p, {i}, FALSE)
    <3> HIDE DEF i
    <3>1. QED  BY <1>3, <2>2, <2>3, <2>5, <2>6 DEF Sensible
  <2>8. QED  BY <1>6, <2>3, <2>7
<1>7. CASE ~Offers(p) /\ Decide(p, {}, FALSE)
  BY <1>4, <1>7 DEF Offers, Stands
<1>8. CASE /\ offered[p].is = "link"
           /\ Decide(p, IF <<p, offered[p].holds>> \in Recorded
                        THEN {Does("remove", p, Nothing, offered[p])} ELSE {}, FALSE)
  <2>1. CASE <<p, offered[p].holds>> \in Recorded
    BY <1>2, <1>5, <1>8, <2>1, LinksAreKept DEF Stands
  <2>2. CASE <<p, offered[p].holds>> \notin Recorded
    BY <1>4, <1>8, <2>2
  <2>3. QED  BY <2>1, <2>2
<1>9. CASE /\ disk[p].is = "file" /\ Held(p, disk[p].holds)
           /\ Decide(p, {Does("remove", p, Nothing, disk[p])}, FALSE)
  BY <1>2, <1>5, <1>9, HeldSomewhere DEF Stands
<1>10. CASE disk[p].is = "file" /\ ~Held(p, disk[p].holds) /\ Decide(p, {}, FALSE)
  BY <1>4, <1>10
<1>11. QED  BY <1>6, <1>7, <1>8, <1>9, <1>10 DEF PlanStray

(* A look at one path of the plan. *)
LEMMA Plans ==
  ASSUME Typed, InOrder, NEW p \in Paths, Plan(p), ~ReadReplaced(p)
  PROVE  /\ phase = "plan" /\ unread = {} /\ p \in unplanned
         /\ unread' = {} \/ (unread' = {p} /\ disk[p].is = "file" /\ Kept(disk[p]))
         /\ \E adds \in SUBSET (Moves \cup Others), refuses \in BOOLEAN :
              Decide(p, adds, refuses) /\ Sensible(p, adds, refuses)
<1>1. \E kind : Planning(p, kind)
  BY DEF Plan, PlanDisputed, PlanLink, PlanOverFile, PlanOverNothing, PlanInTheWay, PlanStray
<1>2. phase = "plan" /\ unread = {} /\ p \in unplanned
  BY <1>1, NowIsToCome DEF Planning
<1>3. CASE PlanOverFile(p)
  BY <1>2, <1>3, PlansOverAFile
<1>4. CASE PlanDisputed(p) \/ PlanInTheWay(p)
  <2>1. unread' = unread
    BY <1>4 DEF PlanDisputed, PlanInTheWay
  <2>2. QED  BY <1>2, <1>4, <2>1, PlansInTheWay
<1>5. CASE PlanLink(p)
  <2>1. unread' = unread
    BY <1>5 DEF PlanLink
  <2>2. QED  BY <1>2, <1>5, <2>1, PlansALink
<1>6. CASE PlanOverNothing(p)
  <2>1. unread' = unread
    BY <1>6 DEF PlanOverNothing
  <2>2. QED  BY <1>2, <1>6, <2>1, PlansOverNothing
<1>7. CASE PlanStray(p)
  <2>1. unread' = unread
    BY <1>7 DEF PlanStray
  <2>2. QED  BY <1>2, <1>7, <2>1, PlansAStray
<1>8. QED  BY <1>3, <1>4, <1>5, <1>6, <1>7 DEF Plan

(* What is compared with is read again: only `replaces' changes. *)
LEMMA Rereads ==
  ASSUME Typed, InOrder, NEW p \in Paths, ReadReplaced(p)
  PROVE  /\ phase = "plan" /\ p \in unread /\ disk[p] \in Files
         /\ todo' \subseteq Moves \cup Others
         /\ \A j \in todo' : \E i \in todo :
              /\ j.do = i.do /\ j.path = i.path /\ j.wants = i.wants
              /\ j = i \/ (i.path = p /\ j.replaces = disk[p])
         /\ \A i \in todo : \E j \in todo' : j.path = i.path
         /\ \A j, k \in todo' : \E i, h \in todo :
              /\ j.path = i.path /\ k.path = h.path /\ j.do = i.do /\ k.do = h.do
              /\ j.wants = i.wants /\ k.wants = h.wants /\ (i = h => j = k)
<1> DEFINE New(i) == IF i.path = p THEN [i EXCEPT !.replaces = disk[p]] ELSE i
<1>1. /\ phase = "plan" /\ p \in unread /\ disk[p] \in Files
      /\ todo' = {New(i) : i \in todo}
  BY WhatStands DEF ReadReplaced, Typed
<1>2. \A i \in todo : /\ New(i) \in Moves \cup Others
                      /\ New(i).do = i.do /\ New(i).path = i.path /\ New(i).wants = i.wants
                      /\ New(i) = i \/ (i.path = p /\ New(i).replaces = disk[p])
  <2> SUFFICES ASSUME NEW i \in todo
               PROVE  /\ New(i) \in Moves \cup Others
                      /\ New(i).do = i.do /\ New(i).path = i.path /\ New(i).wants = i.wants
                      /\ New(i) = i \/ (i.path = p /\ New(i).replaces = disk[p])
    OBVIOUS
  <2>1. i \in Moves \cup Others
    BY DEF Typed
  <2>2. QED  BY <1>1, <2>1, ReplacesNow
<1> HIDE DEF New
<1>3. QED  BY <1>1, <1>2

(* The guard is over the bytes that stand there. *)
LEMMA EditsAre ==
  ASSUME NEW p \in Paths, NEW s \in EditsAt(p)
  PROVE  s \in Standing /\ s # Directory
<1>1. s \in Files \cup Links \cup {Nothing}
  BY DEF EditsAt
<1>2. s \in Standing
  BY <1>1 DEF Standing
<1>3. Nothing # Directory
  BY DEF Nothing, Directory
<1>4. Directory \notin Files /\ Directory \notin Links
  BY DEF Directory, Files, Links
<1>5. QED  BY <1>1, <1>2, <1>3, <1>4
-----------------------------------------------------------------------------
(* Where the disk stands in order, one act leaves it so. *)
LEMMA PlacedOrderly ==
  ASSUME NEW p \in Paths, NEW s \in Standing, disk \in [Paths -> Standing], Orderly(disk),
         disk[p] # Directory, s # Directory
  PROVE  Orderly(Placed(p, s))
<1> SUFFICES ASSUME NEW q \in Paths, Stands(Placed(p, s)[q]), NEW d \in Holders(q)
             PROVE  Placed(p, s)[d] = Directory
  BY DEF Orderly
<1>1. d \in Paths /\ q \in Within(d)
  BY HoldersHold
<1>2. CASE q = p
  BY <1>1, <1>2, PlacedThere, HoldersHold
<1>3. CASE q # p
  <2>1. disk[q] = Placed(p, s)[q] /\ Stands(disk[q])
    <3>1. Placed(p, s)[q] = IF q \in Holders(p) THEN Directory ELSE disk[q]
      BY <1>3, PlacedThere
    <3>2. QED  BY <3>1, NothingIsKept
  <2>2. disk[d] = Directory
    BY <1>1, <2>1 DEF Orderly
  <2>3. d # p
    BY <2>2
  <2>4. Placed(p, s)[d] = IF d \in Holders(p) THEN Directory ELSE disk[d]
    BY <1>1, <2>3, PlacedThere
  <2>5. QED  BY <2>2, <2>4
<1>4. QED  BY <1>2, <1>3

(* So does taking something away, and exchanging what stands.                *)
LEMMA GoneOrderly ==
  ASSUME NEW p \in Paths, NEW f \in [Paths -> Standing], Orderly(f), f[p] # Directory
  PROVE  Orderly([f EXCEPT ![p] = Nothing])
<1> DEFINE g == [f EXCEPT ![p] = Nothing]
<1>1. g[p] = Nothing /\ \A q \in Paths \ {p} : g[q] = f[q]
  OBVIOUS
<1> SUFFICES ASSUME NEW q \in Paths, Stands(g[q]), NEW d \in Holders(q)
             PROVE  g[d] = Directory
  BY DEF Orderly
<1> HIDE DEF g
<1>2. q # p
  BY <1>1, NothingIsKept
<1>3. d \in Paths /\ f[d] = Directory
  BY <1>1, <1>2, HoldersHold DEF Orderly
<1>4. QED  BY <1>1, <1>3

LEMMA SwappedOrderly ==
  ASSUME NEW p \in Paths, NEW f \in [Paths -> Standing], Orderly(f), Stands(f[p]), NEW s \in Standing,
         s # Directory
  PROVE  Orderly([f EXCEPT ![p] = s])
<1> DEFINE g == [f EXCEPT ![p] = s]
<1>1. g[p] = s /\ \A q \in Paths \ {p} : g[q] = f[q]
  OBVIOUS
<1> SUFFICES ASSUME NEW q \in Paths, Stands(g[q]), NEW d \in Holders(q)
             PROVE  g[d] = Directory
  BY DEF Orderly
<1> HIDE DEF g
<1>2. Stands(f[q])
  BY <1>1
<1>3. d \in Paths /\ f[d] = Directory
  BY <1>2, HoldersHold DEF Orderly
<1>4. d # p
  BY <1>3, NothingIsKept
<1>5. QED  BY <1>1, <1>3, <1>4

(* What one act leaves in the folder. *)
LEMMA ActsLeave ==
  ASSUME Typed, InOrder, NEW i \in hand, Act(i)
  PROVE  /\ phase = "apply" /\ hand = {i} /\ i \in Moves \cup Others
         /\ disk' \in [Paths -> Standing] /\ Orderly(disk')
         /\ UNCHANGED <<unseen, edits, target, payload, plan, phase, left, ended, runs>>
         /\ removed' \subseteq Paths
         /\ \/ hand' = {}
            \/ /\ i.do = "write" /\ i.wants \in Files
               /\ \E j \in Others : /\ hand' = {j} /\ j.do = "mode" /\ j.path = i.path
                                    /\ j.wants = i.wants /\ j.replaces = i.replaces
<1>1. phase = "apply" /\ hand = {i} /\ i \in Moves \cup Others /\ disk \in [Paths -> Standing] /\ Orderly(disk)
  BY HandOf DEF Act, ActRemove, ActMove, ActWrite, ActLink, ActMode, Acting, Typed, InOrder
<1>2. i.path \in Paths /\ (i.do = "move" => i.wants \in Paths) /\ removed \subseteq Paths
  BY <1>1, ItemsHave DEF Typed
<1>3. Worded(i)
  BY DEF InOrder
<1> DEFINE Rest ==
  /\ UNCHANGED <<unseen, edits, target, payload, plan, phase, left, ended, runs>>
<1>4. CASE ActRemove(i)
  <2>1. disk' = [disk EXCEPT ![i.path] = Nothing] /\ disk[i.path] # Directory
    BY <1>4, NothingIsKept DEF ActRemove, Acted
  <2>2. disk' \in [Paths -> Standing] /\ Orderly(disk')
    BY <1>1, <1>2, <2>1, GoneOrderly, NothingIsKept
  <2>3. Rest /\ hand' = {} /\ removed' = removed \cup {i.path}
    BY <1>4 DEF ActRemove, Acted, store
  <2>4. QED  BY <1>1, <1>2, <2>2, <2>3
<1>5. CASE ActMove(i)
  <2> DEFINE f == Placed(i.wants, disk[i.path])
  <2>1. /\ disk' = [f EXCEPT ![i.path] = Nothing] /\ i.wants \in Paths
        /\ disk[i.path] \in Standing /\ disk[i.path] # Directory /\ Stands(disk[i.path])
        /\ disk[i.wants] # Directory /\ ~Unaskable(i.wants)
    BY <1>1, <1>2, <1>5, NothingIsKept DEF ActMove, Acting, Acted
  <2>2. f \in [Paths -> Standing] /\ Orderly(f)
    BY <1>1, <2>1, PlacedThere, PlacedOrderly
  <2>3. f[i.path] # Directory
    <3>1. i.path \notin Holders(i.wants)
      BY <2>1 DEF Unaskable
    <3>2. CASE i.path = i.wants
      BY <1>1, <2>1, <3>2, PlacedThere
    <3>3. CASE i.path # i.wants
      <4>1. f[i.path] = IF i.path \in Holders(i.wants) THEN Directory ELSE disk[i.path]
        BY <1>1, <1>2, <2>1, <3>3, PlacedThere
      <4>2. QED  BY <2>1, <3>1, <4>1
    <3>4. QED  BY <3>2, <3>3
  <2> HIDE DEF f
  <2>4. disk' \in [Paths -> Standing] /\ Orderly(disk')
    BY <1>2, <2>1, <2>2, <2>3, GoneOrderly, NothingIsKept
  <2>5. Rest /\ hand' = {} /\ removed' = removed
    BY <1>5 DEF ActMove, Acted, store
  <2>6. QED  BY <1>1, <1>2, <2>4, <2>5
<1>6. CASE ActWrite(i)
  <2>1. PICK x \in BOOLEAN :
          Acted(Placed(i.path, [i.wants EXCEPT !.runs = x]), Destroyed(i.path, i.wants),
                {[i EXCEPT !.do = "mode"]})
    BY <1>6 DEF ActWrite
  <2>2. i.do = "write" /\ i.wants \in Files /\ disk[i.path] # Directory /\ removed' = removed
    BY <1>3, <1>6 DEF ActWrite, Acting, Worded
  <2>3. [i.wants EXCEPT !.runs = x] \in Files
    BY <2>2, FilesStand
  <2>4. [i.wants EXCEPT !.runs = x] \in Standing /\ [i.wants EXCEPT !.runs = x] # Directory
    <3>1. [i.wants EXCEPT !.runs = x] \in Standing
      BY <2>3 DEF Standing
    <3>2. QED  BY <2>3, <3>1, WhatStands
  <2>5. disk' \in [Paths -> Standing] /\ Orderly(disk')
    BY <1>1, <1>2, <2>1, <2>2, <2>4, PlacedThere, PlacedOrderly DEF Acted
  <2>6. Rest /\ hand' = {[i EXCEPT !.do = "mode"]}
    BY <2>1 DEF Acted, store
  <2>7. QED  BY <1>1, <1>2, <2>2, <2>5, <2>6, BecomesMode
<1>7. CASE ActLink(i)
  <2>1. /\ disk' = Placed(i.path, i.wants) /\ i.wants \in Links /\ disk[i.path] # Directory
        /\ removed' = removed /\ hand' = {} /\ Rest
    BY <1>3, <1>7 DEF ActLink, Acting, Acted, Worded, store
  <2>2. i.wants \in Standing /\ i.wants # Directory
    <3>1. i.wants \in Standing
      BY <2>1 DEF Standing
    <3>2. QED  BY <2>1, <3>1, WhatStands
  <2>3. disk' \in [Paths -> Standing] /\ Orderly(disk')
    BY <1>1, <1>2, <2>1, <2>2, PlacedThere, PlacedOrderly
  <2>4. QED  BY <1>1, <1>2, <2>1, <2>3
<1>8. CASE ActMode(i)
  <2>1. /\ disk' = [disk EXCEPT ![i.path].runs = i.wants.runs] /\ i.wants \in Files
        /\ disk[i.path].is = "file" /\ removed' = removed /\ hand' = {} /\ Rest
    BY <1>3, <1>8 DEF ActMode, Acting, Acted, Worded, store
  <2> DEFINE s == [disk[i.path] EXCEPT !.runs = i.wants.runs]
  <2>2. disk[i.path] \in Files /\ i.wants.runs \in BOOLEAN /\ Stands(disk[i.path])
    BY <1>1, <1>2, <2>1, WhatStands DEF Files
  <2>3. s \in Files /\ s \in Standing /\ s # Directory
    <3>1. s \in Files /\ s \in Standing
      BY <2>2, FilesStand DEF Standing
    <3>2. QED  BY <3>1, WhatStands
  <2>4. disk' = [disk EXCEPT ![i.path] = s]
    BY <2>1
  <2> HIDE DEF s
  <2>5. disk' \in [Paths -> Standing] /\ Orderly(disk')
    BY <1>1, <1>2, <2>2, <2>3, <2>4, SwappedOrderly
  <2>6. QED  BY <1>1, <1>2, <2>1, <2>5
<1>9. QED  BY <1>4, <1>5, <1>6, <1>7, <1>8 DEF Act

(* What an edit leaves, and what tidying the empty directories leaves.       *)
LEMMA EditLeaves ==
  ASSUME Typed, InOrder, NEW p \in Paths, NEW s \in EditsAt(p), Edit(p, s)
  PROVE  /\ disk' \in [Paths -> Standing] /\ Orderly(disk')
         /\ \A q \in Paths \ {p} : disk'[q] = disk[q] \/ (q \in Holders(p) /\ disk'[q] = Directory)
<1>1. /\ s \in Standing /\ s # Directory /\ disk[p] # Directory
      /\ disk \in [Paths -> Standing] /\ Orderly(disk)
  BY EditsAre DEF Edit, Typed, InOrder
<1>2. CASE s = Nothing
  <2>1. disk' = [disk EXCEPT ![p] = Nothing]
    BY <1>2 DEF Edit
  <2>2. QED  BY <1>1, <2>1, GoneOrderly, NothingIsKept
<1>3. CASE s # Nothing
  <2>1. disk' = Placed(p, s)
    BY <1>3 DEF Edit
  <2>2. \A q \in Paths \ {p} : disk'[q] = IF q \in Holders(p) THEN Directory ELSE disk[q]
    BY <1>1, <2>1, PlacedThere
  <2>3. disk' \in [Paths -> Standing] /\ Orderly(disk')
    BY <1>1, <2>1, PlacedThere, PlacedOrderly
  <2>4. QED  BY <2>2, <2>3
<1>4. QED  BY <1>2, <1>3

LEMMA TidyingLeaves ==
  ASSUME Typed, InOrder, EndApply
  PROVE  /\ disk' \in [Paths -> Standing] /\ Orderly(disk')
         /\ \A d \in Paths : disk'[d] = disk[d] \/ (disk[d] = Directory /\ disk'[d] = Nothing)
<1>1. disk \in [Paths -> Standing] /\ Orderly(disk)
  BY DEF Typed, InOrder
<1>2. disk' = [d \in Paths |-> IF disk[d] = Directory /\ Emptied(d) THEN Nothing ELSE disk[d]]
  BY DEF EndApply
<1>3. disk' \in [Paths -> Standing]
  BY <1>1, <1>2, NothingIsKept
<1>4. \A d \in Paths : disk'[d] = disk[d] \/ (disk[d] = Directory /\ disk'[d] = Nothing /\ Emptied(d))
  BY <1>2
<1>5. Orderly(disk')
  <2> SUFFICES ASSUME NEW p \in Paths, Stands(disk'[p]), NEW d \in Holders(p)
               PROVE  disk'[d] = Directory
    BY DEF Orderly
  <2>1. d \in Paths /\ p \in Within(d)
    BY HoldersHold
  <2>2. Stands(disk[p])
    BY <1>4, NothingIsKept
  <2>3. disk[d] = Directory
    BY <1>1, <2>1, <2>2 DEF Orderly
  <2>4. ~Emptied(d)
    BY <2>1, <2>2 DEF Emptied
  <2>5. QED  BY <1>4, <2>1, <2>3, <2>4
<1>6. QED  BY <1>3, <1>4, <1>5

(* The store does not change, and is read as it was. *)
LEMMA StoreStays ==
  ASSUME [Next]_vars
  PROVE  target' = target /\ payload' = payload
BY DEF Next, vars, store, Begin, Command, Plan, PlanDisputed, PlanLink, PlanOverFile, PlanOverNothing,
       PlanInTheWay, ReadReplaced, PlanStray, Decide, PlanFails, Fail, EndPlan, Look, Act, ActRemove, ActMove,
       ActWrite, ActLink, ActMode, Acted, ApplyFails, EndApply, Stop, Edit


(* Types, and the order of the phases.                                       *)
LEMMA NextTyped ==
  ASSUME Typed, InOrder, [Next]_vars
  PROVE  Typed' /\ InOrder'
<1>1. target' = target /\ payload' = payload
  BY StoreStays
<1>2. /\ target' \in [Paths -> Standing \cup {Disputed}] /\ (\A p \in Paths : target'[p] \in EntriesAt(p))
      /\ payload' \in [Payloads -> {"held", "elsewhere", "forgotten"}]
      /\ \A p \in Paths : target'[p] # Nothing => \A d \in Holders(p) : target'[d] = Nothing
  BY <1>1 DEF Typed, InOrder
<1> DEFINE TypedSets == \A s \in {unread, unplanned, refused, removed, left, unseen, raced} : s \subseteq Paths
<1>3. TypedSets
  BY DEF Typed
<1>4. CASE Begin
  <2>1. /\ disk' \in [Paths -> Standing] /\ offered' \in [Paths -> Standing] /\ edits' \in Nat
        /\ phase' = "plan" /\ ended' = "not yet" /\ todo' = {} /\ hand' = {} /\ disk' = disk
    BY <1>4 DEF Begin, folder, Typed
  <2>2. TypedSets'
    BY <1>3, <1>4 DEF Begin, folder
  <2>3. Typed'
    BY <1>2, <2>1, <2>2 DEF Typed
  <2>4. InOrder'
    BY <1>2, <2>1 DEF InOrder
  <2>5. QED  BY <2>3, <2>4
<1>5. ASSUME NEW p \in Paths, Plan(p), ~ReadReplaced(p) PROVE Typed' /\ InOrder'
  <2>1. PICK adds \in SUBSET (Moves \cup Others), refuses \in BOOLEAN :
          Decide(p, adds, refuses) /\ Sensible(p, adds, refuses)
    BY <1>5, Plans
  <2>2. /\ phase = "plan" /\ unread' \subseteq {p}
        /\ UNCHANGED <<disk, offered, edits, phase, hand, ended>>
        /\ todo' = todo \cup adds
    BY <1>5, <2>1, Plans DEF Decide, done
  <2>3. TypedSets'
    <3>1. UNCHANGED <<removed, left, raced>> /\ unplanned' = unplanned \ {p} /\ unseen' = unseen \ {p}
      BY <2>1 DEF Decide, done
    <3>2. refused' \subseteq refused \cup {p}
      BY <2>1 DEF Decide
    <3>3. QED  BY <1>3, <2>2, <3>1, <3>2
  <2>4. Typed'
    BY <1>2, <2>2, <2>3 DEF Typed
  <2>5. \A i \in todo' \cup hand' : Worded(i)
    BY <2>1, <2>2 DEF Sensible, InOrder
  <2>6. InOrder'
    BY <1>2, <2>2, <2>5 DEF InOrder, Worded
  <2>7. QED  BY <2>4, <2>6
<1>6. ASSUME NEW p \in Paths, ReadReplaced(p) PROVE Typed' /\ InOrder'
  <2>1. /\ phase = "plan" /\ todo' \subseteq Moves \cup Others
        /\ UNCHANGED <<disk, offered, edits, phase, hand, ended>>
        /\ \A j \in todo' : \E i \in todo : j.do = i.do /\ j.wants = i.wants
    <3>1. phase = "plan" /\ todo' \subseteq Moves \cup Others
      BY <1>6, Rereads
    <3>2. \A j \in todo' : \E i \in todo : j.do = i.do /\ j.wants = i.wants
      BY <1>6, Rereads
    <3>3. QED  BY <1>6, <3>1, <3>2 DEF ReadReplaced, done
  <2>2. TypedSets'
    BY <1>3, <1>6 DEF ReadReplaced, done
  <2>3. Typed'
    BY <1>2, <2>1, <2>2 DEF Typed
  <2>4. \A i \in todo' \cup hand' : Worded(i)
    BY <2>1 DEF InOrder, Worded
  <2>5. InOrder'
    BY <1>2, <2>1, <2>4 DEF InOrder, Worded
  <2>6. QED  BY <2>3, <2>5
<1>7. CASE PlanFails \/ ApplyFails \/ Stop
  <2>1. /\ UNCHANGED <<folder, plan, done>> /\ phase' = "idle" /\ ended' \in {"failed", "stopped"}
    BY <1>7 DEF PlanFails, ApplyFails, Stop, Fail
  <2>2. TypedSets'
    BY <1>3, <2>1 DEF folder, plan, done
  <2>3. Typed'
    BY <1>2, <2>1, <2>2 DEF Typed, folder, plan, done
  <2>4. InOrder'
    BY <1>2, <2>1 DEF InOrder, Worded, folder, plan, done
  <2>5. QED  BY <2>3, <2>4
<1>8. CASE EndPlan
  <2>1. /\ UNCHANGED <<folder, plan, done>> /\ phase = "plan" /\ unplanned = {} /\ unread = {}
        /\ \/ phase' = "apply" /\ refused = {} /\ ended' = ended
           \/ phase' = "idle" /\ ended' = "refused"
    BY <1>8 DEF EndPlan
  <2>2. TypedSets'
    BY <1>3, <2>1 DEF folder, plan, done
  <2>3. Typed'
    BY <1>2, <2>1, <2>2 DEF Typed, folder, plan, done
  <2>4. InOrder'
    BY <1>2, <2>1 DEF InOrder, Worded, folder, plan, done
  <2>5. QED  BY <2>3, <2>4
<1>9. ASSUME NEW i \in todo, Look(i) PROVE Typed' /\ InOrder'
  <2>1. /\ phase = "apply" /\ i \in Moves \cup Others /\ i.path \in Paths
        /\ UNCHANGED <<disk, offered, edits, phase, ended, unread, unplanned, refused, raced, removed>>
        /\ todo' = todo \ {i} /\ (hand' = {i} \/ hand' = {}) /\ left' \subseteq left \cup {i.path}
        /\ unseen' \subseteq unseen
    BY <1>9, ItemsHave DEF Look, Typed
  <2>2. TypedSets'
    BY <1>3, <2>1
  <2>3. Typed'
    BY <1>2, <2>1, <2>2 DEF Typed
  <2>4. \A j \in todo' \cup hand' : Worded(j)
    BY <2>1 DEF InOrder
  <2>5. InOrder'
    BY <1>2, <2>1, <2>4 DEF InOrder, Worded
  <2>6. QED  BY <2>3, <2>5
<1>10. ASSUME NEW i \in hand, Act(i) PROVE Typed' /\ InOrder'
  <2>1. /\ phase = "apply" /\ hand = {i} /\ disk' \in [Paths -> Standing] /\ Orderly(disk')
        /\ UNCHANGED <<unseen, edits, plan, phase, left, ended>> /\ removed' \subseteq Paths
        /\ \/ hand' = {}
           \/ \E j \in Others : hand' = {j} /\ j.do = "mode" /\ j.wants \in Files
    <3>1. \/ hand' = {}
          \/ \E j \in Others : hand' = {j} /\ j.do = "mode" /\ j.wants \in Files
      BY <1>10, ActsLeave
    <3>2. QED  BY <1>10, <3>1, ActsLeave
  <2>2. TypedSets'
    BY <1>3, <2>1 DEF plan
  <2>3. hand' = {} \/ \E j \in Moves \cup Others : hand' = {j}
    BY <2>1
  <2>4. Typed'
    BY <1>2, <2>1, <2>2, <2>3 DEF Typed, plan
  <2>5. \A j \in todo' \cup hand' : Worded(j)
    BY <2>1 DEF InOrder, Worded, plan
  <2>6. InOrder'
    BY <1>2, <2>1, <2>5 DEF InOrder, Worded, plan
  <2>7. QED  BY <2>4, <2>6
<1>11. CASE EndApply
  <2>1. /\ disk' \in [Paths -> Standing] /\ Orderly(disk') /\ phase' = "idle" /\ ended' = "done"
        /\ UNCHANGED <<unseen, edits, plan, done>>
    BY <1>11, TidyingLeaves DEF EndApply
  <2>2. TypedSets'
    BY <1>3, <2>1 DEF plan, done
  <2>3. Typed'
    BY <1>2, <2>1, <2>2 DEF Typed, plan, done
  <2>4. InOrder'
    BY <1>2, <2>1 DEF InOrder, Worded, plan, done
  <2>5. QED  BY <2>3, <2>4
<1>12. ASSUME NEW p \in Paths, NEW s \in EditsAt(p), Edit(p, s) PROVE Typed' /\ InOrder'
  <2>1. /\ disk' \in [Paths -> Standing] /\ Orderly(disk') /\ unseen' = unseen \cup {p} /\ edits' \in Nat
        /\ UNCHANGED <<plan, phase, done, ended>>
    <3>1. edits' \in Nat
      <4>1. edits \in Nat /\ edits' = edits + 1
        BY <1>12 DEF Edit, Typed
      <4>2. QED  BY <4>1
    <3>2. disk' \in [Paths -> Standing] /\ Orderly(disk')
      BY <1>12, EditLeaves
    <3>3. unseen' = unseen \cup {p} /\ UNCHANGED <<plan, phase, done, ended>>
      BY <1>12 DEF Edit
    <3>4. QED  BY <3>1, <3>2, <3>3
  <2>2. TypedSets'
    BY <1>3, <2>1 DEF plan, done
  <2>3. Typed'
    BY <1>2, <2>1, <2>2 DEF Typed, plan, done
  <2>4. InOrder'
    BY <1>2, <2>1 DEF InOrder, Worded, plan, done
  <2>5. QED  BY <2>3, <2>4
<1>13. CASE UNCHANGED vars
  <2>1. UNCHANGED <<folder, plan, done, phase, ended>>
    BY <1>13 DEF vars, folder, plan, done
  <2>2. TypedSets'
    BY <1>3, <2>1 DEF folder, plan, done
  <2>3. Typed'
    BY <1>2, <2>1, <2>2 DEF Typed, folder, plan, done
  <2>4. InOrder'
    BY <1>2, <2>1 DEF InOrder, Worded, folder, plan, done
  <2>5. QED  BY <2>3, <2>4
<1>14. QED  BY <1>4, <1>5, <1>6, <1>7, <1>8, <1>9, <1>10, <1>11, <1>12, <1>13 DEF Next, Command

(* What is kept stays so: the store does not change.                         *)
LEMMA KeptStays ==
  ASSUME payload' = payload, NEW s, NEW t, Kept(s), Same(t, s) \/ ~Stands(t)
  PROVE  Kept(t)'
BY DEF Kept, Held, Same, Stands

(* What goes from a path that was looked at was kept, or raced for.          *)
LEMMA DestroyedRightly ==
  ASSUME NEW p \in Paths, NEW new, LosesOnlyWhatItNeverSaw,
         p \notin unseen /\ Stands(disk[p]) => Kept(disk[p]) \/ p \in raced
  PROVE  \A l \in Destroyed(p, new) : l.seen => l.is = "link" \/ l.late
<1> DEFINE gone == Stands(disk[p]) /\ ~Same(disk[p], new) /\ ~\E q \in Paths : Held(q, disk[p].holds)
           l == [is |-> disk[p].is, seen |-> p \notin unseen, late |-> p \in raced]
<1>1. CASE ~gone
  BY <1>1 DEF Destroyed, LosesOnlyWhatItNeverSaw
<1>2. CASE gone
  <2>1. p \notin unseen => disk[p].is = "link" \/ p \in raced
    BY <1>2 DEF Kept
  <2>2. l.seen = (p \notin unseen) /\ l.is = disk[p].is /\ l.late = (p \in raced)
    OBVIOUS
  <2>3. l.seen => l.is = "link" \/ l.late
    BY <2>1, <2>2
  <2>4. Destroyed(p, new) = lost \cup {l}
    BY <1>2 DEF Destroyed
  <2> HIDE DEF l, gone
  <2>5. QED  BY <2>3, <2>4 DEF LosesOnlyWhatItNeverSaw
<1>3. QED  BY <1>1, <1>2

LEMMA ActsLoseNothing ==
  ASSUME Typed, InOrder, Guarded, LosesOnlyWhatItNeverSaw, NEW i \in hand, Act(i)
  PROVE  LosesOnlyWhatItNeverSaw'
<1>1. i \in Moves \cup Others /\ i.path \in Paths /\ (i.do = "move" => i.wants \in Paths)
  BY HandOf, ItemsHave
<1>2. ASSUME NEW new, i.do \in {"remove", "write", "link"}, lost' = Destroyed(i.path, new)
      PROVE  LosesOnlyWhatItNeverSaw'
  <2>1. ASSUME i.path \notin unseen, Stands(disk[i.path]) PROVE Kept(disk[i.path]) \/ i.path \in raced
    <3>1. StillThere(i)
      BY <1>2, <2>1 DEF Guarded, GuardsHold
    <3>2. Kept(i.replaces) \/ i.path \in raced
      BY <1>2 DEF Guarded, GuardsPlanned
    <3>3. Kept(i.replaces) => Kept(disk[i.path])
      BY <3>1 DEF StillThere, Kept, Stands
    <3>4. QED  BY <3>2, <3>3
  <2>2. \A l \in Destroyed(i.path, new) : l.seen => l.is = "link" \/ l.late
    BY <1>1, <2>1, DestroyedRightly
  <2>3. QED  BY <1>2, <2>2 DEF LosesOnlyWhatItNeverSaw
<1>3. CASE ActMove(i)
  <2>1. i.do = "move" /\ lost' = Destroyed(i.wants, disk[i.path])
    BY <1>3 DEF ActMove, Acting, Acted
  <2>2. i.wants \notin unseen => ~Stands(disk[i.wants])
    BY <2>1 DEF Guarded, GuardsHold
  <2>3. \A l \in Destroyed(i.wants, disk[i.path]) : l.seen => l.is = "link" \/ l.late
    BY <1>1, <2>1, <2>2, DestroyedRightly
  <2>4. QED  BY <2>1, <2>3 DEF LosesOnlyWhatItNeverSaw
<1>4. CASE ActRemove(i)
  <2>1. i.do = "remove" /\ lost' = Destroyed(i.path, Nothing)
    BY <1>4 DEF ActRemove, Acting, Acted
  <2>2. QED  BY <1>2, <2>1
<1>5. CASE ActWrite(i)
  <2>1. i.do = "write" /\ lost' = Destroyed(i.path, i.wants)
    BY <1>5 DEF ActWrite, Acting, Acted
  <2>2. QED  BY <1>2, <2>1
<1>6. CASE ActLink(i)
  <2>1. i.do = "link" /\ lost' = Destroyed(i.path, i.wants)
    BY <1>6 DEF ActLink, Acting, Acted
  <2>2. QED  BY <1>2, <2>1
<1>7. CASE ActMode(i)
  <2>1. lost' = lost
    BY <1>7 DEF ActMode, Acted
  <2>2. QED  BY <2>1 DEF LosesOnlyWhatItNeverSaw
<1>8. QED  BY <1>3, <1>4, <1>5, <1>6, <1>7 DEF Act

(* The guards, whatever the person does: an edit makes its path unseen or    *)
(* raced.                                                                    *)
LEMMA NextGuarded ==
  ASSUME Typed, InOrder, Guarded, LosesOnlyWhatItNeverSaw, [Next]_vars
  PROVE  Guarded' /\ LosesOnlyWhatItNeverSaw'
<1>0. payload' = payload
  BY StoreStays
<1>1. \A s : Kept(s)' <=> Kept(s)
  BY <1>0 DEF Kept, Held
<1>2. ASSUME lost' = lost PROVE LosesOnlyWhatItNeverSaw'
  BY <1>2 DEF LosesOnlyWhatItNeverSaw
<1>3. ASSUME UNCHANGED <<folder, plan, done>> PROVE Guarded' /\ LosesOnlyWhatItNeverSaw'
  <2>1. UNCHANGED <<disk, unseen, lost, unread, todo, raced, hand>>
    BY <1>3 DEF folder, plan, done
  <2>2. GuardsRead' /\ GuardsPlanned' /\ GuardsHold'
    BY <1>1, <2>1 DEF Guarded, GuardsRead, GuardsPlanned, GuardsHold, StillThere
  <2>3. QED  BY <1>2, <2>1, <2>2 DEF Guarded
<1>4. CASE Begin
  <2>1. unread' = {} /\ todo' = {} /\ hand' = {} /\ lost' = lost
    BY <1>4 DEF Begin, folder
  <2>2. QED  BY <1>2, <2>1 DEF Guarded, GuardsRead, GuardsPlanned, GuardsHold
<1>5. ASSUME NEW p \in Paths, Plan(p), ~ReadReplaced(p) PROVE Guarded' /\ LosesOnlyWhatItNeverSaw'
  <2>1. PICK adds \in SUBSET (Moves \cup Others), refuses \in BOOLEAN :
          Decide(p, adds, refuses) /\ Sensible(p, adds, refuses)
    BY <1>5, Plans
  <2>2. /\ UNCHANGED <<disk, lost, raced, hand>> /\ todo' = todo \cup adds
    BY <2>1 DEF Decide, done
  <2>3. hand = {}
    BY <1>5, Plans DEF InOrder
  <2>4. unread' = {} \/ (unread' = {p} /\ Kept(disk[p]))
    BY <1>5, Plans
  <2>5. GuardsRead'
    BY <1>1, <2>2, <2>4 DEF GuardsRead
  <2>6. GuardsPlanned'
    BY <1>1, <2>1, <2>2 DEF Guarded, GuardsPlanned, Sensible
  <2>7. GuardsHold'
    BY <2>2, <2>3 DEF GuardsHold
  <2>8. QED  BY <1>2, <2>2, <2>5, <2>6, <2>7 DEF Guarded
<1>6. ASSUME NEW p \in Paths, ReadReplaced(p) PROVE Guarded' /\ LosesOnlyWhatItNeverSaw'
  <2>1. /\ unread' = {} /\ UNCHANGED <<disk, lost, hand>>
        /\ raced' = IF p \in unseen THEN raced \cup {p} ELSE raced
    BY <1>6 DEF ReadReplaced, done
  <2>2. hand = {} /\ p \in unread
    BY <1>6 DEF ReadReplaced, InOrder
  <2>3. GuardsPlanned'
    <3> SUFFICES ASSUME NEW j \in todo', j.do \in {"remove", "write", "link"}
                 PROVE  Kept(j.replaces)' \/ j.path \in raced'
      BY <2>1, <2>2 DEF GuardsPlanned
    <3>1. PICK i \in todo : /\ j.do = i.do /\ j.path = i.path
                            /\ j = i \/ (i.path = p /\ j.replaces = disk[p])
      BY <1>6, Rereads
    <3>2. CASE j = i
      BY <1>1, <2>1, <3>2 DEF Guarded, GuardsPlanned
    <3>3. CASE i.path = p /\ j.replaces = disk[p]
      <4>1. CASE p \in unseen
        BY <2>1, <3>1, <3>3, <4>1
      <4>2. CASE p \notin unseen
        <5>1. Kept(disk[p])
          BY <2>2, <4>2 DEF Guarded, GuardsRead
        <5>2. QED  BY <1>1, <3>3, <5>1
      <4>3. QED  BY <4>1, <4>2
    <3>4. QED  BY <3>1, <3>2, <3>3
  <2>4. GuardsRead' /\ GuardsHold'
    BY <2>1, <2>2 DEF GuardsRead, GuardsHold
  <2>5. QED  BY <1>2, <2>1, <2>3, <2>4 DEF Guarded
<1>7. CASE PlanFails \/ ApplyFails \/ Stop \/ EndPlan
  BY <1>3, <1>7 DEF PlanFails, ApplyFails, Stop, Fail, EndPlan
<1>8. ASSUME NEW i \in todo, Look(i) PROVE Guarded' /\ LosesOnlyWhatItNeverSaw'
  <2>1. /\ UNCHANGED <<disk, lost, unread, raced>> /\ todo' = todo \ {i} /\ unread = {}
        /\ hand' = IF Unmoved(i) THEN {i} ELSE {}
    BY <1>8 DEF Look, InOrder
  <2>2. GuardsRead'
    BY <2>1 DEF GuardsRead
  <2>3. GuardsPlanned'
    BY <1>1, <2>1 DEF Guarded, GuardsPlanned
  <2>4. GuardsHold'
    <3>1. Unmoved(i) /\ i.do \in {"remove", "write", "link"} => StillThere(i)
      BY DEF Unmoved
    <3>2. Unmoved(i) /\ i.do = "move" => ~Stands(disk[i.wants])
      BY NothingIsKept DEF Unmoved
    <3>3. QED  BY <2>1, <3>1, <3>2 DEF GuardsHold, StillThere
  <2>5. QED  BY <1>2, <2>1, <2>2, <2>3, <2>4 DEF Guarded
<1>9. ASSUME NEW i \in hand, Act(i) PROVE Guarded' /\ LosesOnlyWhatItNeverSaw'
  <2>1. UNCHANGED <<unseen, plan>> /\ phase = "apply"
    BY <1>9, ActsLeave
  <2>2. hand' = {} \/ \E j \in Others : hand' = {j} /\ j.do = "mode"
    BY <1>9, ActsLeave
  <2>3. UNCHANGED <<unread, todo, raced>> /\ unread = {}
    BY <2>1 DEF plan, InOrder
  <2>4. GuardsRead' /\ GuardsHold'
    BY <2>2, <2>3 DEF GuardsRead, GuardsHold
  <2>5. GuardsPlanned'
    BY <1>1, <2>2, <2>3 DEF Guarded, GuardsPlanned
  <2>6. QED  BY <1>9, <2>4, <2>5, ActsLoseNothing DEF Guarded
<1>10. CASE EndApply
  <2>1. todo' = {} /\ hand' = {} /\ unread' = {} /\ lost' = lost
    BY <1>10 DEF EndApply, plan, done, InOrder
  <2>2. QED  BY <1>2, <2>1 DEF Guarded, GuardsRead, GuardsPlanned, GuardsHold
<1>11. ASSUME NEW p \in Paths, NEW s \in EditsAt(p), Edit(p, s) PROVE Guarded' /\ LosesOnlyWhatItNeverSaw'
  <2>1. UNCHANGED <<unread, todo, raced, hand, lost>> /\ unseen' = unseen \cup {p}
    BY <1>11 DEF Edit, plan, done
  <2>2. \A q \in Paths \ {p} : disk'[q] = disk[q] \/ ~Stands(disk'[q])
    BY <1>11, EditLeaves, NothingIsKept
  <2>3. unread \subseteq Paths /\ \A i \in hand : i.path \in Paths /\ (i.do = "move" => i.wants \in Paths)
    BY HandOf, ItemsHave DEF Typed
  <2>4. GuardsRead'
    <3> SUFFICES ASSUME NEW q \in unread, q \notin unseen' PROVE Kept(disk[q])'
      BY <2>1 DEF GuardsRead
    <3>1. q \in Paths \ {p} /\ q \notin unseen
      BY <2>1, <2>3
    <3>2. Kept(disk[q])
      BY <3>1 DEF Guarded, GuardsRead
    <3>3. Same(disk'[q], disk[q]) \/ ~Stands(disk'[q])
      BY <2>2, <3>1 DEF Same
    <3>4. QED  BY <1>0, <3>2, <3>3 DEF Kept, Held, Same, Stands
  <2>5. GuardsPlanned'
    BY <1>1, <2>1 DEF Guarded, GuardsPlanned
  <2>6. GuardsHold'
    <3> SUFFICES ASSUME NEW i \in hand
                 PROVE  /\ /\ i.do \in {"remove", "write", "link"} /\ i.path \notin unseen'
                           /\ Stands(disk'[i.path])
                           => StillThere(i)'
                        /\ i.do = "move" /\ i.wants \notin unseen' => ~Stands(disk'[i.wants])
      BY <2>1 DEF GuardsHold
    <3>1. ASSUME i.do \in {"remove", "write", "link"}, i.path \notin unseen', Stands(disk'[i.path])
          PROVE  StillThere(i)'
      <4>1. i.path \in Paths \ {p} /\ i.path \notin unseen
        BY <2>1, <2>3, <3>1
      <4>2. disk'[i.path] = disk[i.path]
        BY <2>2, <3>1, <4>1
      <4>3. StillThere(i)
        BY <3>1, <4>1, <4>2 DEF Guarded, GuardsHold
      <4>4. QED  BY <4>2, <4>3 DEF StillThere
    <3>2. ASSUME i.do = "move", i.wants \notin unseen'
          PROVE  ~Stands(disk'[i.wants])
      <4>1. i.wants \in Paths \ {p} /\ i.wants \notin unseen
        BY <2>1, <2>3, <3>2
      <4>2. ~Stands(disk[i.wants])
        BY <3>2, <4>1 DEF Guarded, GuardsHold
      <4>3. QED  BY <2>2, <4>1, <4>2
    <3>3. QED  BY <3>1, <3>2
  <2>7. QED  BY <1>2, <2>1, <2>4, <2>5, <2>6 DEF Guarded
<1>12. CASE UNCHANGED vars
  BY <1>3, <1>12 DEF vars, folder, plan, done
<1>13. QED  BY <1>4, <1>5, <1>6, <1>7, <1>8, <1>9, <1>10, <1>11, <1>12 DEF Next, Command

(* The readings of a path by what stands there. *)
LEMMA DiskIs ==
  ASSUME Typed, NEW p \in Paths
  PROVE  /\ disk[p] \in Standing /\ offered[p] \in Standing
         /\ disk[p].is = "file" <=> disk[p] \in Files
         /\ disk[p] = Nothing \/ disk[p] = Directory <=> ~Stands(disk[p])
         /\ disk[p] = Directory <=> disk[p].is = "directory"
         /\ disk[p] = Nothing <=> disk[p].is = "nothing"
<1>1. disk[p] \in Standing /\ offered[p] \in Standing
  BY DEF Typed
<1>2. QED  BY <1>1, WhatStands

(* What is wanted is something.                                              *)
LEMMA WantedIsThere ==
  ASSUME Typed, NEW p \in Paths
  PROVE  target[p].is \in {"file", "link", "disputed"} => target[p] # Nothing
BY TargetKinds

(* What a clash is, at a path beneath a file. *)
LEMMA BeneathAFile ==
  ASSUME NEW p \in Paths, NEW d \in Holders(p), Stands(offered[d]), target[p] # Nothing
  PROVE  Clashes
<1>1. <<p, d>> \in Inside
  BY DEF Holders
<1>2. QED  BY <1>1 DEF Clashes

(* A path that cannot be asked about is in a file that stood at the walk.    *)
LEMMA UnaskableClashes ==
  ASSUME Typed, InOrder, Running, phase # "idle", NEW p \in Paths, Unaskable(p), target[p] # Nothing
  PROVE  Clashes
<1>1. PICK d \in Holders(p) : Stands(disk[d])
  BY DEF Unaskable
<1>2. d \in Paths /\ target[d] = Nothing
  BY HoldersHold DEF InOrder
<1>3. Stands(offered[d])
  BY <1>1, <1>2 DEF Running
<1>4. QED  BY <1>1, <1>3, BeneathAFile

(* What stands can be asked about.                                           *)
LEMMA StandsAskably ==
  ASSUME Typed, InOrder, NEW p \in Paths, Stands(disk[p])
  PROVE  ~Unaskable(p)
<1>1. \A d \in Holders(p) : disk[d] = Directory
  BY DEF InOrder, Orderly
<1>2. QED  BY <1>1, NothingIsKept DEF Unaskable

(* A directory in the way has something in it the head has nothing of.       *)
LEMMA BlockedClashes ==
  ASSUME Typed, Calm, disk = offered, NEW p \in Paths, Blocked(p)
  PROVE  Clashes
<1>1. PICK q \in Within(p) : Stands(disk[q])
  BY DEF Calm
<1>2. <<q, p>> \in Inside /\ Stands(offered[q])
  BY <1>1 DEF Within
<1>3. target[p] # Nothing
  BY WantedIsThere DEF Blocked
<1>4. QED  BY <1>2, <1>3 DEF Clashes

(* What fits stands as it was seen. *)
LEMMA FitStands ==
  ASSUME Typed, InOrder, NEW i \in todo \cup hand, Fit(i)
  PROVE  /\ i \in Moves \cup Others /\ i.path \in Paths
         /\ i.do = "remove" => Stands(disk[i.path]) /\ StillThere(i)
         /\ i.do \in {"write", "link"} =>
              /\ disk[i.path] # Directory /\ StillThere(i) /\ target[i.path] # Nothing
              /\ target[i.path] = i.wants
         /\ i.do = "write" => target[i.path].is = "file" /\ ~Missing(i.path)
         /\ i.do = "link" => target[i.path].is = "link"
         /\ i.do = "mode" => /\ disk[i.path].is = "file" /\ Stands(disk[i.path])
                             /\ target[i.path].is = "file"
         /\ i.do = "move" =>
              /\ Stands(disk[i.path]) /\ disk[i.path].is = "file" /\ StillThere(i)
              /\ i.wants \in Paths /\ target[i.wants] # Nothing /\ target[i.path] = Nothing
              /\ target[i.wants].is = "file" /\ i.wants # i.path
              /\ Same(disk[i.path], target[i.wants]) /\ ~Held(i.path, disk[i.path].holds)
              /\ Missing(i.wants) /\ ~Stands(disk[i.wants])
<1>1. i \in Moves \cup Others /\ Worded(i)
  BY HandOf DEF Typed, InOrder
<1>2. i.path \in Paths /\ i.replaces \in Standing
  BY <1>1, ItemsHave
<1>3. i.do = "remove" => Stands(disk[i.path]) /\ StillThere(i)
  BY DEF Fit, FitRemove
<1>4. ASSUME i.do \in {"write", "link"}
      PROVE  /\ disk[i.path] # Directory /\ StillThere(i) /\ target[i.path] # Nothing
             /\ target[i.path] = i.wants
             /\ i.do = "write" => target[i.path].is = "file" /\ ~Missing(i.path)
             /\ i.do = "link" => target[i.path].is = "link"
  <2>1. target[i.path] = i.wants /\ StillThere(i) /\ i.replaces # Directory
    BY <1>4 DEF Fit, FitWrite
  <2>2. disk[i.path] # Directory
    <3>1. i.replaces.is # "directory"
      BY <1>2, <2>1, WhatStands
    <3>2. QED  BY <1>2, <2>1, <3>1, DiskIs DEF StillThere
  <2>3. /\ i.do = "write" => target[i.path].is = "file"
        /\ i.do = "link" => target[i.path].is = "link"
    BY <1>1, <2>1 DEF Worded, Files, Links
  <2>4. target[i.path] # Nothing
    BY <1>2, <1>4, <2>3, WantedIsThere
  <2>5. i.do = "write" => ~Missing(i.path)
    BY DEF Fit, FitWrite
  <2>6. QED  BY <2>1, <2>2, <2>3, <2>4, <2>5
<1>5. i.do = "mode" => disk[i.path].is = "file" /\ Stands(disk[i.path]) /\ target[i.path].is = "file"
  <2> SUFFICES ASSUME i.do = "mode"
               PROVE  disk[i.path].is = "file" /\ Stands(disk[i.path]) /\ target[i.path].is = "file"
    OBVIOUS
  <2>1. target[i.path].is = "file" /\ Same(disk[i.path], target[i.path])
    BY <1>1 DEF Worded, Fit, FitMode, Files
  <2>2. QED  BY <2>1 DEF Same, Stands
<1>6. ASSUME i.do = "move"
      PROVE  /\ Stands(disk[i.path]) /\ disk[i.path].is = "file" /\ StillThere(i)
             /\ i.wants \in Paths /\ target[i.wants] # Nothing /\ target[i.path] = Nothing
             /\ target[i.wants].is = "file" /\ i.wants # i.path
             /\ Same(disk[i.path], target[i.wants]) /\ ~Held(i.path, disk[i.path].holds)
             /\ Missing(i.wants) /\ ~Stands(disk[i.wants])
  <2>1. FitMove(i) /\ i.replaces \in Files /\ i.wants \in Paths
    BY <1>1, <1>6, ItemsHave DEF Fit
  <2>2. disk[i.path].is = "file" /\ disk[i.path].holds = i.replaces.holds
    BY <2>1 DEF FitMove, StillThere, Files
  <2>3. Stands(disk[i.path])
    BY <2>2 DEF Stands
  <2>4. target[i.wants] # Nothing
    BY <2>1, WantedIsThere DEF FitMove
  <2>5. Same(disk[i.path], target[i.wants]) /\ ~Held(i.path, disk[i.path].holds)
    BY <2>1, <2>2 DEF FitMove, Same
  <2>6. ~Stands(disk[i.wants])
    BY <2>1, NothingIsKept DEF FitMove
  <2>7. QED  BY <2>1, <2>2, <2>3, <2>4, <2>5, <2>6 DEF FitMove
<1>7. QED  BY <1>1, <1>2, <1>3, <1>4, <1>5, <1>6

(* What an act puts where: at its own path, at the path a copy moves to,   *)
(* and nothing else but the directories these stand in.                    *)
Goes(i, q) ==
  \/ disk'[q] = disk[q]
  \/ q = i.path
  \/ i.do = "move" /\ q = i.wants
  \/ disk[q] = Nothing /\ disk'[q] = Directory /\ target[q] = Nothing

LEMMA PlacedGoes ==
  ASSUME Typed, InOrder, NEW p \in Paths, NEW s \in Standing, target[p] # Nothing, ~Unaskable(p)
  PROVE  \A q \in Paths \ {p} :
           \/ Placed(p, s)[q] = disk[q]
           \/ disk[q] = Nothing /\ Placed(p, s)[q] = Directory /\ target[q] = Nothing
<1> SUFFICES ASSUME NEW q \in Paths \ {p}
             PROVE  \/ Placed(p, s)[q] = disk[q]
                    \/ disk[q] = Nothing /\ Placed(p, s)[q] = Directory /\ target[q] = Nothing
  OBVIOUS
<1>0. disk \in [Paths -> Standing]
  BY DEF Typed
<1>1. Placed(p, s)[q] = IF q \in Holders(p) THEN Directory ELSE disk[q]
  BY <1>0, PlacedThere
<1>2. q \in Holders(p) => ~Stands(disk[q]) /\ target[q] = Nothing
  BY DEF Unaskable, InOrder
<1>3. ~Stands(disk[q]) => disk[q] = Nothing \/ disk[q] = Directory
  BY DiskIs
<1>4. QED  BY <1>1, <1>2, <1>3

(* What stands at its own path, and at the path a copy moves to. *)
LEMMA ActsReach ==
  ASSUME Typed, InOrder, Running, NEW i \in hand, Act(i)
  PROVE  /\ \A q \in Paths : Goes(i, q)
         /\ i.do \in {"remove", "move"} => disk'[i.path] = Nothing
         /\ i.do = "write" => disk'[i.path].is = "file" /\ Same(disk'[i.path], target[i.path])
         /\ i.do \in {"link", "mode"} => disk'[i.path] = target[i.path]
         /\ i.do = "move" => disk'[i.wants] = disk[i.path]
<1>1. phase = "apply" /\ hand = {i} /\ i \in Moves \cup Others /\ disk \in [Paths -> Standing]
  BY ActsLeave DEF Typed
<1>2. Fit(i)
  BY <1>1 DEF Running
<1>3. i.path \in Paths /\ Worded(i)
  BY <1>1, ItemsHave DEF InOrder
<1>4. CASE ActRemove(i)
  <2>1. disk' = [disk EXCEPT ![i.path] = Nothing] /\ i.do = "remove"
    BY <1>4 DEF ActRemove, Acting, Acted
  <2>2. disk'[i.path] = Nothing /\ \A q \in Paths : disk'[q] = disk[q] \/ q = i.path
    BY <1>1, <1>3, <2>1
  <2>3. QED  BY <2>1, <2>2 DEF Goes
<1>5. CASE ActMove(i)
  <2> DEFINE f == Placed(i.wants, disk[i.path])
  <2>1. disk' = [f EXCEPT ![i.path] = Nothing] /\ i.do = "move" /\ ~Unaskable(i.wants)
    BY <1>5 DEF ActMove, Acting, Acted
  <2>2. i.wants \in Paths /\ target[i.wants] # Nothing /\ i.wants # i.path /\ disk[i.path] \in Standing
    BY <1>1, <1>2, <1>3, <2>1, FitStands
  <2>3. f \in [Paths -> Standing] /\ f[i.wants] = disk[i.path]
    BY <1>1, <2>2, PlacedThere
  <2>4. \A q \in Paths \ {i.wants} :
          f[q] = disk[q] \/ (disk[q] = Nothing /\ f[q] = Directory /\ target[q] = Nothing)
    BY <2>1, <2>2, PlacedGoes
  <2> HIDE DEF f
  <2>5. disk'[i.path] = Nothing /\ \A q \in Paths \ {i.path} : disk'[q] = f[q]
    BY <1>3, <2>1, <2>3
  <2>6. disk'[i.wants] = disk[i.path]
    BY <2>2, <2>3, <2>5
  <2>7. \A q \in Paths : Goes(i, q)
    BY <2>1, <2>4, <2>5 DEF Goes
  <2>8. QED  BY <2>1, <2>5, <2>6, <2>7
<1>6. CASE ActWrite(i)
  <2>1. PICK x \in BOOLEAN : disk' = Placed(i.path, [i.wants EXCEPT !.runs = x])
    BY <1>6 DEF ActWrite, Acted
  <2>2. i.do = "write" /\ i.wants \in Files /\ ~Unaskable(i.path)
    BY <1>3, <1>6 DEF ActWrite, Acting, Worded
  <2>3. target[i.path] = i.wants /\ target[i.path] # Nothing
    BY <1>2, <2>2, FitStands
  <2> DEFINE s == [i.wants EXCEPT !.runs = x]
  <2>4. s \in Files /\ s.is = "file" /\ s.holds = i.wants.holds /\ s \in Standing
    BY <2>2, FilesStand DEF Standing
  <2>5. i.wants.is = "file"
    BY <2>2 DEF Files
  <2>6. disk' = Placed(i.path, s)
    BY <2>1
  <2> HIDE DEF s
  <2>7. disk'[i.path] = s
    BY <1>1, <1>3, <2>4, <2>6, PlacedThere
  <2>8. \A q \in Paths : Goes(i, q)
    BY <1>3, <2>2, <2>3, <2>4, <2>6, PlacedGoes DEF Goes
  <2>9. QED  BY <2>2, <2>3, <2>4, <2>5, <2>7, <2>8 DEF Same
<1>7. CASE ActLink(i)
  <2>1. disk' = Placed(i.path, i.wants) /\ i.do = "link" /\ i.wants \in Links /\ ~Unaskable(i.path)
    BY <1>3, <1>7 DEF ActLink, Acting, Acted, Worded
  <2>2. target[i.path] = i.wants /\ target[i.path] # Nothing /\ i.wants \in Standing
    BY <1>2, <2>1, FitStands DEF Standing
  <2>3. disk'[i.path] = i.wants
    BY <1>1, <1>3, <2>1, <2>2, PlacedThere
  <2>4. \A q \in Paths : Goes(i, q)
    BY <1>3, <2>1, <2>2, PlacedGoes DEF Goes
  <2>5. QED  BY <2>1, <2>2, <2>3, <2>4
<1>8. CASE ActMode(i)
  <2>1. disk' = [disk EXCEPT ![i.path].runs = i.wants.runs] /\ i.do = "mode" /\ i.wants \in Files
    BY <1>3, <1>8 DEF ActMode, Acting, Acted, Worded
  <2>2. target[i.path] = i.wants /\ Same(disk[i.path], target[i.path])
    BY <1>2, <2>1 DEF Fit, FitMode
  <2>3. disk[i.path] \in Files
    BY <1>2, <1>3, <2>1, FitStands, DiskIs
  <2> DEFINE s == [disk[i.path] EXCEPT !.runs = i.wants.runs]
  <2>4. i.wants.runs \in BOOLEAN
    BY <2>1 DEF Files
  <2>5. s \in Files /\ s.is = "file" /\ s.holds = disk[i.path].holds /\ s.runs = i.wants.runs
    BY <2>3, <2>4, FilesStand
  <2>6. s = i.wants
    <3>1. Same(s, i.wants)
      BY <2>1, <2>2, <2>5 DEF Same, Files
    <3>2. QED  BY <2>1, <2>5, <3>1, SameFiles
  <2>7. disk' = [disk EXCEPT ![i.path] = s]
    BY <2>1
  <2> HIDE DEF s
  <2>8. disk'[i.path] = s /\ \A q \in Paths : disk'[q] = disk[q] \/ q = i.path
    BY <1>1, <1>3, <2>7
  <2>9. QED  BY <2>1, <2>2, <2>6, <2>8 DEF Goes
<1>9. QED  BY <1>4, <1>5, <1>6, <1>7, <1>8 DEF Act

(* What is still to be done stands as it did. *)
LEMMA OthersKeepTheirPlace ==
  ASSUME Typed, InOrder, Running, NEW i \in hand, Act(i), NEW j \in todo
  PROVE  /\ j.path # i.path /\ disk'[j.path] = disk[j.path]
         /\ j.do = "move" => j.wants \in Paths /\ disk'[j.wants] = disk[j.wants]
<1>1. phase = "apply" /\ hand = {i}
  BY ActsLeave
<1>2. Fit(i) /\ Fit(j) /\ j \in todo \cup hand /\ i \in todo \cup hand /\ i # j
  BY <1>1 DEF Running
<1>3. i.do \in {"remove", "move", "write", "link", "mode"} /\ j.do \in {"remove", "move", "write", "link", "mode"}
  BY <1>2, HandOf, ItemsHave DEF Typed
<1>4. j.path # i.path
  BY <1>1, <1>2 DEF Running, Apart
<1>5. j.path \in Paths
  BY <1>2, FitStands
<1>6. i.do = "move" => j.path # i.wants
  <2> SUFFICES ASSUME i.do = "move", j.path = i.wants PROVE FALSE
    OBVIOUS
  <2>1. /\ target[j.path].is = "file" /\ Missing(j.path) /\ target[j.path] # Nothing
        /\ ~Stands(disk[j.path])
    BY <1>2, FitStands
  <2>2. j.do # "remove" /\ j.do # "mode" /\ j.do # "move"
    BY <1>2, <2>1, FitStands
  <2>3. j.do # "write"
    BY <1>2, <2>1, FitStands
  <2>4. j.do # "link"
    BY <1>2, <2>1, FitStands
  <2>5. QED  BY <1>3, <2>2, <2>3, <2>4
<1>7. disk[j.path] # Nothing \/ target[j.path] # Nothing
  <2>1. j.do \in {"remove", "mode", "move"} => Stands(disk[j.path])
    BY <1>2, FitStands
  <2>2. j.do \in {"write", "link"} => target[j.path] # Nothing
    BY <1>2, FitStands
  <2>3. QED  BY <1>3, <2>1, <2>2, NothingIsKept
<1>8. disk'[j.path] = disk[j.path]
  BY <1>4, <1>5, <1>6, <1>7, ActsReach DEF Goes
<1>9. ASSUME j.do = "move" PROVE j.wants \in Paths /\ disk'[j.wants] = disk[j.wants]
  <2>1. /\ j.wants \in Paths /\ target[j.wants].is = "file" /\ Missing(j.wants)
        /\ target[j.wants] # Nothing /\ ~Stands(disk[j.wants])
    BY <1>2, <1>9, FitStands
  <2>2. i.path # j.wants
    <3> SUFFICES ASSUME i.path = j.wants PROVE FALSE
      OBVIOUS
    <3>1. i.do # "remove" /\ i.do # "mode" /\ i.do # "move"
      BY <1>2, <2>1, FitStands
    <3>2. i.do # "write"
      BY <1>2, <2>1, FitStands
    <3>3. i.do # "link"
      BY <1>2, <2>1, FitStands
    <3>4. QED  BY <1>3, <3>1, <3>2, <3>3
  <2>3. i.do = "move" => i.wants # j.wants
    BY <1>1, <1>2, <1>9 DEF Running, Apart
  <2>4. QED  BY <2>1, <2>2, <2>3, ActsReach DEF Goes
<1>10. QED  BY <1>4, <1>8, <1>9

(* What fits still fits, where the disk stands as it did. *)
LEMMA FitStays ==
  ASSUME target' = target, payload' = payload, offered' = offered, NEW j, Fit(j),
         disk'[j.path] = disk[j.path], j.do = "move" => disk'[j.wants] = disk[j.wants]
  PROVE  Fit(j)'
<1>1. \A q \in Paths : Missing(q)' <=> Missing(q)
  BY DEF Missing, Wanting
<1>2. j.do = "remove" => FitRemove(j)'
  BY DEF Fit, FitRemove, StillThere, Stands, Missing, Wanting
<1>3. j.do \in {"write", "link"} => FitWrite(j)'
  BY DEF Fit, FitWrite, StillThere, Missing, Wanting
<1>4. j.do = "mode" => FitMode(j)'
  BY DEF Fit, FitMode, Same
<1>5. j.do = "move" => FitMove(j)'
  BY DEF Fit, FitMove, StillThere, Missing, Wanting, Held
<1>6. QED  BY <1>2, <1>3, <1>4, <1>5 DEF Fit

(* A path that is settled stays so, or is a directory nobody wants away. *)
LEMMA SettledStays ==
  ASSUME target' = target, payload' = payload, NEW q, Settled(q), disk'[q] = disk[q]
  PROVE  Settled(q)'
BY DEF Settled, Same, Missing, Wanting, Stands, Held

LEMMA SettledEmpty ==
  ASSUME target' = target, payload' = payload, NEW q, target[q].is \in {"nothing", "disputed"},
         disk'[q].is # "file"
  PROVE  Settled(q)'
BY DEF Settled

(* Where an act leaves its own path. *)
LEMMA ActsSettle ==
  ASSUME Typed, InOrder, Running, NEW i \in hand, Act(i), i.do # "write"
  PROVE  Settled(i.path)'
<1>1. phase = "apply" /\ hand = {i} /\ target' = target /\ payload' = payload
  BY ActsLeave
<1>2. Fit(i) /\ i.do \in {"remove", "move", "link", "mode"} /\ i.path \in Paths
  BY <1>1, HandOf, ItemsHave DEF Running
<1>3. CASE i.do = "remove"
  <2>1. disk'[i.path] = Nothing
    BY <1>3, ActsReach
  <2>2. target[i.path] = Nothing \/ (target[i.path].is = "file" /\ Missing(i.path))
    BY <1>2, <1>3 DEF Fit, FitRemove
  <2>3. Nothing.is = "nothing" /\ ~Stands(Nothing)
    BY NothingIsKept DEF Nothing
  <2>4. QED  BY <1>1, <2>1, <2>2, <2>3 DEF Settled, Missing, Wanting, Stands
<1>4. CASE i.do = "move"
  <2>1. disk'[i.path] = Nothing /\ target[i.path] = Nothing
    BY <1>2, <1>4, ActsReach, FitStands
  <2>2. disk'[i.path].is # "file" /\ target[i.path].is = "nothing"
    BY <2>1 DEF Nothing
  <2>3. QED  BY <1>1, <2>2, SettledEmpty
<1>5. CASE i.do \in {"link", "mode"}
  <2>1. disk'[i.path] = target[i.path] /\ target[i.path] # Nothing
    BY <1>2, <1>5, ActsReach, FitStands, WantedIsThere
  <2>2. QED  BY <1>1, <2>1 DEF Settled, Same
<1>6. QED  BY <1>2, <1>3, <1>4, <1>5

(* Wherever an act reaches, no directory comes to stand in the way of what *)
(* is wanted, and what was settled stays so.                               *)
LEMMA ActsKeepTheRest ==
  ASSUME Typed, InOrder, Running, NEW i \in hand, Act(i), NEW q \in Paths
  PROVE  /\ Blocked(q)' => Blocked(q)
         /\ q # i.path /\ Settled(q) => Settled(q)'
         /\ Stands(disk'[q]) => Stands(disk[q]) \/ target[q] # Nothing
<1>1. phase = "apply" /\ hand = {i} /\ target' = target /\ payload' = payload
  BY ActsLeave
<1>2. Fit(i) /\ i.do \in {"remove", "move", "write", "link", "mode"} /\ i.path \in Paths
  BY <1>1, HandOf, ItemsHave DEF Running
<1>3. CASE disk'[q] = disk[q]
  <2>1. Blocked(q)' => Blocked(q)
    BY <1>1, <1>3 DEF Blocked, Missing, Wanting
  <2>2. QED  BY <1>1, <1>3, <2>1, SettledStays
<1>4. CASE q = i.path
  <2>1. CASE i.do \in {"remove", "move"}
    <3>1. disk'[q] = Nothing
      BY <1>4, <2>1, ActsReach
    <3>2. ~Blocked(q)' /\ ~Stands(disk'[q])
      BY <3>1, NothingIsKept DEF Blocked, Nothing, Directory
    <3>3. QED  BY <1>4, <3>2
  <2>2. CASE i.do \in {"write", "link", "mode"}
    <3>1. target[q].is \in {"file", "link"}
      BY <1>2, <1>4, <2>2, FitStands
    <3>2. Same(disk'[q], target[q]) /\ target[q] # Nothing
      BY <1>4, <2>2, <3>1, ActsReach, WantedIsThere DEF Same
    <3>3. disk'[q].is # "directory"
      BY <3>1, <3>2 DEF Same
    <3>4. ~Blocked(q)'
      BY <3>3 DEF Blocked, Directory
    <3>5. QED  BY <1>4, <3>2, <3>4
  <2>3. QED  BY <1>2, <2>1, <2>2
<1>5. CASE i.do = "move" /\ q = i.wants
  <2>1. /\ target[q] # Nothing /\ target[q].is = "file" /\ Missing(q)
        /\ Same(disk[i.path], target[q])
    BY <1>2, <1>5, FitStands
  <2>2. disk'[q] = disk[i.path]
    BY <1>5, ActsReach
  <2>3. Settled(q)' /\ ~Blocked(q)'
    BY <1>1, <2>1, <2>2 DEF Settled, Blocked, Same, Missing, Wanting, Directory
  <2>4. QED  BY <2>1, <2>3
<1>6. CASE disk[q] = Nothing /\ disk'[q] = Directory /\ target[q] = Nothing
  <2>1. disk'[q].is = "directory" /\ target[q].is = "nothing" /\ ~Stands(disk'[q])
    BY <1>6, NothingIsKept DEF Directory, Nothing
  <2>2. Settled(q)' /\ ~Blocked(q)'
    BY <1>1, <2>1, SettledEmpty DEF Blocked
  <2>3. QED  BY <2>1, <2>2
<1>7. QED  BY <1>3, <1>4, <1>5, <1>6, ActsReach DEF Goes

(* An act leaves the rest of the plan fitting.                               *)
LEMMA ActsRun ==
  ASSUME Typed, InOrder, Running, NEW i \in hand, Act(i)
  PROVE  Running'
<1>1. /\ phase = "apply" /\ hand = {i} /\ target' = target /\ payload' = payload /\ phase' = phase
      /\ UNCHANGED <<offered, unread, unplanned, refused, todo, left>>
      /\ unplanned = {} /\ refused = {}
  BY ActsLeave DEF plan, InOrder
<1>2. \/ hand' = {} /\ i.do # "write"
      \/ /\ i.do = "write" /\ i.wants \in Files
         /\ \E j \in Others : /\ hand' = {j} /\ j.do = "mode" /\ j.path = i.path
                              /\ j.wants = i.wants /\ j.replaces = i.replaces
  <2>1. i.do = "write" => hand' # {}
    BY <1>1, ActsLeave DEF Act, ActRemove, ActMove, ActWrite, ActLink, ActMode, Acting, Acted
  <2>2. QED  BY <2>1, ActsLeave
<1>3. /\ \A j \in todo \cup hand : Fit(j) /\ j.path \notin left
      /\ Apart(todo \cup hand) /\ i \notin todo
      /\ \A p \in Paths : ~Blocked(p) /\ (Settled(p) \/ \E j \in todo \cup hand : j.path = p)
      /\ \A d \in Paths : Stands(disk[d]) => Stands(offered[d]) \/ target[d] # Nothing
  BY <1>1 DEF Running
<1>4. \A j \in todo : j.path # i.path /\ Fit(j)'
  <2> SUFFICES ASSUME NEW j \in todo PROVE j.path # i.path /\ Fit(j)'
    OBVIOUS
  <2>1. j.path # i.path /\ disk'[j.path] = disk[j.path] /\ (j.do = "move" => disk'[j.wants] = disk[j.wants])
    BY OthersKeepTheirPlace
  <2>2. QED  BY <1>1, <1>3, <2>1, FitStays
<1>5. \A j \in hand' : j.path = i.path /\ j.do = "mode" /\ Fit(j)'
  <2> SUFFICES ASSUME NEW j \in hand' PROVE j.path = i.path /\ j.do = "mode" /\ Fit(j)'
    OBVIOUS
  <2>1. i.do = "write" /\ j.do = "mode" /\ j.path = i.path /\ j.wants = i.wants
    BY <1>2
  <2>2. Same(disk'[i.path], target[i.path])
    BY <2>1, ActsReach
  <2>3. target[i.path] = i.wants
    BY <1>1, <1>3, <2>1, FitStands
  <2>4. FitMode(j)'
    BY <1>1, <2>1, <2>2, <2>3 DEF FitMode, Same
  <2>5. QED  BY <2>1, <2>4 DEF Fit
<1>6. Apart(todo' \cup hand')
  <2> SUFFICES ASSUME NEW j \in todo' \cup hand', NEW k \in todo' \cup hand'
               PROVE  /\ j.path = k.path => j = k
                      /\ j.do = "move" /\ k.do = "move" /\ j.wants = k.wants => j = k
    BY DEF Apart
  <2>1. CASE j \in todo /\ k \in todo
    BY <1>3, <2>1 DEF Apart
  <2>2. CASE j \in hand' /\ k \in hand'
    BY <1>2, <2>2
  <2>3. CASE j \in todo /\ k \in hand'
    BY <1>4, <1>5, <2>3
  <2>4. CASE j \in hand' /\ k \in todo
    BY <1>4, <1>5, <2>4
  <2>5. QED  BY <1>1, <2>1, <2>2, <2>3, <2>4
<1>7. todo' \cap hand' = {}
  BY <1>1, <1>4, <1>5
<1>8. \A j \in todo' \cup hand' : j.path \notin left'
  BY <1>1, <1>3, <1>5
<1>9. \A p \in Paths : Blocked(p)' => p \in refused'
  BY <1>3, ActsKeepTheRest
<1>10. ASSUME NEW p \in Paths PROVE Settled(p)' \/ \E j \in todo' \cup hand' : j.path = p
  <2>1. CASE p = i.path
    BY <1>2, <2>1, ActsSettle
  <2>2. CASE p # i.path
    BY <1>1, <1>3, <2>2, ActsKeepTheRest
  <2>3. QED  BY <2>1, <2>2
<1>11. \A d \in Paths : Stands(disk'[d]) => Stands(offered'[d]) \/ target'[d] # Nothing
  BY <1>1, <1>3, ActsKeepTheRest
<1>12. \A j \in todo' : j.path \notin unplanned'
  BY <1>1
<1>13. \A j \in hand' : j.do # "move"
  BY <1>5
<1>14. \A j \in todo' \cup hand' : Fit(j)'
  BY <1>1, <1>4, <1>5
<1>15. QED
  BY <1>1, <1>6, <1>7, <1>8, <1>9, <1>10, <1>11, <1>12, <1>13, <1>14 DEF Running, Apart, Stands

(* A step that leaves the folder and the store alone and stops the command. *)
LEMMA StopsCalmly ==
  ASSUME Typed, InOrder, Calm, target' = target, payload' = payload,
         UNCHANGED <<disk, offered, refused, left>>, phase' = "idle", ended' # "done",
         ended' \in {"refused", "failed"} => InTheWay \/ Clashes
  PROVE  Calm'
<1>1. (InTheWay' <=> InTheWay) /\ (Clashes' <=> Clashes)
  BY DEF InTheWay, Clashes, Gone, Wanting, Stands, Same, Held
<1>2. \A q \in Paths : /\ Blocked(q)' <=> Blocked(q)
                       /\ Missing(q)' <=> Missing(q)
  BY DEF Blocked, Missing, Wanting
<1>3. Running' /\ RefusesForAReason'
  BY <1>1 DEF Running, RefusesForAReason
<1>4. \A q \in Paths : Blocked(q)' => \E p \in Within(q) : Stands(disk'[p])
  BY <1>2 DEF Calm
<1>5. refused' # {} => InTheWay' \/ Clashes'
  BY <1>1 DEF Calm
<1>6. \A p \in left' : \E q \in Paths :
        /\ target'[p] = Nothing /\ offered'[q] = Directory
         /\ target'[q].is = "file" /\ Missing(q)' /\ Same(disk'[p], target'[q])
  BY <1>2 DEF Calm
<1>7. QED  BY <1>3, <1>4, <1>5, <1>6 DEF Calm, Stands, Same

(* A step of the plan changes neither the folder nor what the walk saw. *)
LEMMA PlansCalmly ==
  ASSUME Typed, InOrder, Calm, edits = 0, target' = target, payload' = payload,
         NEW p \in Paths, Plan(p), ~ReadReplaced(p)
  PROVE  Calm'
<1>1. PICK adds \in SUBSET (Moves \cup Others), refuses \in BOOLEAN :
        Decide(p, adds, refuses) /\ Sensible(p, adds, refuses)
  BY Plans
<1>2. /\ phase = "plan" /\ p \in unplanned /\ hand = {}
      /\ UNCHANGED <<disk, offered, phase, hand, left, ended, edits>>
      /\ todo' = todo \cup adds /\ unplanned' = unplanned \ {p}
      /\ refused' = (IF refuses THEN refused \cup {p} ELSE refused)
      /\ ended = "not yet"
  BY <1>1, Plans DEF Decide, done, InOrder, Typed
<1>3. left = {} /\ disk = offered /\ Running
  BY <1>2 DEF Calm, Running
<1>4. /\ \A i \in adds : i.path = p /\ Fit(i) /\ (i.do = "move" => \A j \in todo : j.do = "move" => j.wants # i.wants)
      /\ \A i, j \in adds : i = j
      /\ Blocked(p) => refuses
      /\ refuses \/ Settled(p) \/ adds # {}
      /\ refuses => InTheWay \/ Blocked(p)
  BY <1>1, <1>3 DEF Sensible
<1>5. (InTheWay' <=> InTheWay) /\ (Clashes' <=> Clashes)
  BY <1>2 DEF InTheWay, Clashes, Gone, Wanting, Stands, Same, Held
<1>6. \A q \in Paths : /\ Blocked(q)' <=> Blocked(q)
                       /\ Settled(q)' <=> Settled(q)
  BY <1>2 DEF Blocked, Settled, Missing, Wanting, Stands, Same, Held
<1>7. \A j \in todo' \cup hand' : Fit(j)'
  <2> SUFFICES ASSUME NEW j \in todo \cup adds PROVE Fit(j)'
    BY <1>2
  <2>1. Fit(j)
    BY <1>2, <1>3, <1>4 DEF Running
  <2>2. QED  BY <1>2, <2>1, FitStays
<1>8. Apart(todo \cup adds)
  <2> SUFFICES ASSUME NEW j \in todo \cup adds, NEW k \in todo \cup adds
               PROVE  /\ j.path = k.path => j = k
                      /\ j.do = "move" /\ k.do = "move" /\ j.wants = k.wants => j = k
    BY DEF Apart
  <2>1. \A i \in todo : i.path # p
    BY <1>2, <1>3 DEF Running
  <2>2. CASE j \in todo /\ k \in todo
    BY <1>2, <1>3, <2>2 DEF Running, Apart
  <2>3. CASE j \in adds /\ k \in adds
    BY <1>4, <2>3
  <2>4. CASE j \in todo /\ k \in adds
    BY <1>4, <2>1, <2>4
  <2>5. CASE j \in adds /\ k \in todo
    BY <1>4, <2>1, <2>5
  <2>6. QED  BY <2>2, <2>3, <2>4, <2>5
<1>9. \A j \in todo' : j.path \notin unplanned'
  BY <1>2, <1>3, <1>4 DEF Running
<1>10. \A q \in Paths \ unplanned' :
         /\ Blocked(q) => q \in refused'
         /\ q \in refused' \/ Settled(q) \/ \E j \in todo' \cup hand' : j.path = q
  <2> SUFFICES ASSUME NEW q \in Paths \ unplanned'
               PROVE  /\ Blocked(q) => q \in refused'
                      /\ q \in refused' \/ Settled(q) \/ \E j \in todo' \cup hand' : j.path = q
    OBVIOUS
  <2>1. CASE q = p
    BY <1>2, <1>4, <2>1
  <2>2. CASE q # p
    <3>1. q \in Paths \ unplanned
      BY <1>2, <2>2
    <3>2. Blocked(q) => q \in refused
      BY <1>2, <1>3, <3>1 DEF Running
    <3>3. q \in refused \/ Settled(q) \/ \E j \in todo \cup hand : j.path = q
      BY <1>2, <1>3, <3>1 DEF Running
    <3>4. QED  BY <1>2, <3>2, <3>3
  <2>3. QED  BY <2>1, <2>2
<1>11. \A q \in unread' : disk'[q].is = "file"
  <2>1. unread' = {} \/ (unread' = {p} /\ disk[p].is = "file")
    BY Plans
  <2>2. QED  BY <1>2, <2>1
<1>12. \A d \in Paths : Stands(disk'[d]) => Stands(offered'[d]) \/ target'[d] # Nothing
  BY <1>2, <1>3
<1>13. Running'
  <2>1. todo' \cap hand' = {} /\ \A j \in todo' \cup hand' : j.path \notin left'
    BY <1>2, <1>3
  <2>2. \A j \in hand' : FALSE
    BY <1>2
  <2>3. Apart(todo' \cup hand')
    BY <1>2, <1>8
  <2>4. QED
    BY <1>2, <1>3, <1>6, <1>7, <1>9, <1>10, <1>11, <1>12, <2>1, <2>2, <2>3 DEF Running, Apart, Stands
<1>14. refused' # {} => InTheWay \/ Clashes
  <2>1. refuses => InTheWay \/ Clashes
    BY <1>3, <1>4, BlockedClashes
  <2>2. QED  BY <1>2, <2>1 DEF Calm
<1>15. \A q \in Paths : Blocked(q)' => \E r \in Within(q) : Stands(disk'[r])
  BY <1>2, <1>6 DEF Calm
<1>16. RefusesForAReason' /\ ended' # "done" /\ left' = {}
  BY <1>2, <1>3 DEF RefusesForAReason
<1>17. QED  BY <1>5, <1>13, <1>14, <1>15, <1>16 DEF Calm, Stands

(* The read of what is to be replaced.                                       *)
LEMMA RereadsCalmly ==
  ASSUME Typed, InOrder, Calm, edits = 0, target' = target, payload' = payload,
         NEW p \in Paths, ReadReplaced(p)
  PROVE  Calm'
<1>1. /\ phase = "plan" /\ UNCHANGED <<disk, offered, phase, hand, left, ended, edits, unplanned, refused>>
      /\ unread' = {} /\ hand = {} /\ ended = "not yet"
  BY DEF ReadReplaced, done, InOrder, Typed
<1>2. left = {} /\ disk = offered /\ Running
  BY <1>1 DEF Calm, Running
<1>3. (InTheWay' <=> InTheWay) /\ (Clashes' <=> Clashes)
  BY <1>1 DEF InTheWay, Clashes, Gone, Wanting, Stands, Same, Held
<1>4. \A q \in Paths : /\ Blocked(q)' <=> Blocked(q)
                       /\ Settled(q)' <=> Settled(q)
  BY <1>1 DEF Blocked, Settled, Missing, Wanting, Stands, Same, Held
<1>5. \A j \in todo' \cup hand' : Fit(j)'
  <2> SUFFICES ASSUME NEW j \in todo' PROVE Fit(j)'
    BY <1>1
  <2>1. PICK i \in todo : /\ j.do = i.do /\ j.path = i.path /\ j.wants = i.wants
                          /\ j = i \/ (i.path = p /\ j.replaces = disk[p])
    BY Rereads
  <2>2. Fit(i) /\ i \in Moves \cup Others
    BY <1>1, <1>2 DEF Running, Typed
  <2>3. CASE j = i
    BY <1>1, <2>2, <2>3, FitStays
  <2>4. CASE i.path = p /\ j.replaces = disk[p]
    <3>1. disk[p] \in Files /\ disk[p].is = "file"
      BY Rereads DEF Files
    <3>2. StillThere(j) /\ j.replaces # Directory
      BY <2>1, <2>4, <3>1 DEF StillThere, Directory
    <3>3. j.do = "move" => i.replaces.holds = j.replaces.holds
      BY <2>1, <2>2, <2>4 DEF Fit, FitMove, StillThere
    <3>4. Fit(j)
      <4>1. j.do = "remove" => FitRemove(j)
        BY <2>1, <2>2, <3>2 DEF Fit, FitRemove
      <4>2. j.do \in {"write", "link"} => FitWrite(j)
        BY <2>1, <2>2, <3>2 DEF Fit, FitWrite
      <4>3. j.do = "mode" => FitMode(j)
        BY <2>1, <2>2 DEF Fit, FitMode
      <4>4. j.do = "move" => FitMove(j)
        BY <2>1, <2>2, <3>2, <3>3 DEF Fit, FitMove
      <4>5. QED  BY <4>1, <4>2, <4>3, <4>4 DEF Fit
    <3>5. QED  BY <1>1, <3>4, FitStays
  <2>5. QED  BY <2>1, <2>3, <2>4
<1>6. Apart(todo' \cup hand')
  <2> SUFFICES ASSUME NEW j \in todo', NEW k \in todo'
               PROVE  /\ j.path = k.path => j = k
                      /\ j.do = "move" /\ k.do = "move" /\ j.wants = k.wants => j = k
    BY <1>1 DEF Apart
  <2>1. PICK i \in todo, h \in todo :
          /\ j.path = i.path /\ k.path = h.path /\ j.do = i.do /\ k.do = h.do
          /\ j.wants = i.wants /\ k.wants = h.wants /\ (i = h => j = k)
    BY Rereads
  <2>2. Apart(todo)
    BY <1>1, <1>2 DEF Running, Apart
  <2>3. (i.path = h.path => i = h) /\ (i.do = "move" /\ h.do = "move" /\ i.wants = h.wants => i = h)
    BY <2>1, <2>2 DEF Apart
  <2>4. QED  BY <2>1, <2>3
<1>7. /\ \A j \in todo' : j.path \notin unplanned'
      /\ \A j \in todo' \cup hand' : j.path \notin left'
      /\ todo' \cap hand' = {} /\ \A j \in hand' : FALSE
  <2>1. \A j \in todo' : \E i \in todo : j.path = i.path
    BY Rereads
  <2>2. QED  BY <1>1, <1>2, <2>1 DEF Running
<1>8. \A q \in Paths \ unplanned' :
         /\ Blocked(q) => q \in refused'
         /\ q \in refused' \/ Settled(q) \/ \E j \in todo' \cup hand' : j.path = q
  <2> SUFFICES ASSUME NEW q \in Paths \ unplanned
               PROVE  /\ Blocked(q) => q \in refused
                      /\ q \in refused \/ Settled(q) \/ \E j \in todo' : j.path = q
    BY <1>1
  <2>1. Blocked(q) => q \in refused
    BY <1>1, <1>2 DEF Running
  <2>2. q \in refused \/ Settled(q) \/ \E j \in todo : j.path = q
    BY <1>1, <1>2 DEF Running
  <2>3. \A i \in todo : \E j \in todo' : j.path = i.path
    BY Rereads
  <2>4. QED  BY <2>1, <2>2, <2>3
<1>9. \A d \in Paths : Stands(disk'[d]) => Stands(offered'[d]) \/ target'[d] # Nothing
  BY <1>1, <1>2
<1>10. Running'
  BY <1>1, <1>2, <1>4, <1>5, <1>6, <1>7, <1>8, <1>9 DEF Running, Apart, Stands
<1>11. refused' # {} => InTheWay \/ Clashes
  BY <1>1 DEF Calm
<1>12. \A q \in Paths : Blocked(q)' => \E r \in Within(q) : Stands(disk'[r])
  BY <1>1, <1>4 DEF Calm
<1>13. RefusesForAReason' /\ ended' # "done" /\ left' = {}
  BY <1>1, <1>2 DEF RefusesForAReason
<1>14. QED  BY <1>3, <1>10, <1>11, <1>12, <1>13 DEF Calm, Stands

(* With nobody editing, only a clash stops a look, a plan or an act. *)
LEMMA FailsForAReason ==
  ASSUME Typed, InOrder, Calm, PlanFails \/ ApplyFails
  PROVE  Clashes
<1>1. ASSUME NEW p \in Paths, phase # "idle", Unaskable(p), target[p].is \in {"link", "file"} PROVE Clashes
  <2>1. target[p] # Nothing
    BY <1>1, WantedIsThere
  <2>2. QED  BY <1>1, <2>1, UnaskableClashes DEF Calm
<1>2. CASE PlanFails
  <2>1. phase = "plan" /\ disk = offered /\ \A p \in unread : disk[p].is = "file"
    BY <1>2 DEF PlanFails, Calm, Running
  <2>2. Now \subseteq Paths
    BY NowIsToCome DEF Typed
  <2>3. PICK p \in Now :
          \/ offered[p].is = "file" /\ disk[p].is # "file"
          \/ Unaskable(p) /\ target[p].is \in {"link", "file"}
    BY <1>2, <2>1 DEF PlanFails
  <2>4. QED  BY <1>1, <2>1, <2>2, <2>3
<1>3. CASE ApplyFails
  <2>1. phase = "apply" /\ Running
    BY <1>3 DEF ApplyFails, Calm
  <2>2. ASSUME NEW i \in todo, NEW p \in Asks(i), Unaskable(p) PROVE Clashes
    <3>1. Fit(i) /\ i.do \in {"remove", "move", "write", "link", "mode"} /\ i.path \in Paths
      BY <2>1, ItemsHave DEF Running, Typed
    <3>2. p = i.path \/ (i.do = "move" /\ p = i.wants)
      BY <2>2 DEF Asks, Ends
    <3>3. CASE p = i.path /\ i.do \in {"remove", "move", "mode"}
      <4>1. Stands(disk[p])
        BY <3>1, <3>3, FitStands
      <4>2. QED  BY <2>2, <3>1, <3>3, <4>1, StandsAskably
    <3>4. CASE p = i.path /\ i.do \in {"write", "link"}
      <4>1. target[p].is \in {"link", "file"}
        BY <3>1, <3>4, FitStands
      <4>2. QED  BY <1>1, <2>1, <2>2, <3>1, <3>4, <4>1
    <3>5. CASE i.do = "move" /\ p = i.wants
      <4>1. p \in Paths /\ target[p].is = "file"
        BY <3>1, <3>5, FitStands
      <4>2. QED  BY <1>1, <2>1, <2>2, <4>1
    <3>6. QED  BY <3>1, <3>2, <3>3, <3>4, <3>5
  <2>3. ASSUME NEW i \in hand,
               \/ i.do \in {"remove", "move"} /\ ~Stands(disk[i.path])
               \/ i.do = "move" /\ (disk[i.wants] = Directory \/ Unaskable(i.wants))
               \/ i.do \in {"write", "link"} /\ (disk[i.path] = Directory \/ Unaskable(i.path))
               \/ i.do = "mode" /\ disk[i.path].is # "file"
        PROVE  Clashes
    <3>1. Fit(i) /\ i.path \in Paths /\ (i.do = "move" => disk[i.wants] = Nothing)
      BY <2>1, HandOf, ItemsHave DEF Running
    <3>2. /\ i.do \in {"remove", "move"} => Stands(disk[i.path])
          /\ i.do = "mode" => disk[i.path].is = "file"
          /\ i.do \in {"write", "link"} => disk[i.path] # Directory
      BY <3>1, FitStands
    <3>3. CASE i.do = "move" /\ Unaskable(i.wants)
      <4>1. i.wants \in Paths /\ target[i.wants].is = "file"
        BY <3>1, <3>3, FitStands
      <4>2. QED  BY <1>1, <2>1, <3>3, <4>1
    <3>4. CASE i.do \in {"write", "link"} /\ Unaskable(i.path)
      <4>1. target[i.path].is \in {"link", "file"}
        BY <3>1, <3>4, FitStands
      <4>2. QED  BY <1>1, <2>1, <3>1, <3>4, <4>1
    <3>5. Nothing # Directory
      BY DEF Nothing, Directory
    <3>6. QED  BY <2>3, <3>1, <3>2, <3>3, <3>4, <3>5
  <2>4. ASSUME NEW i \in todo PROVE disk[i.path] # Directory
    <3>1. Fit(i) /\ i.do \in {"remove", "move", "write", "link", "mode"} /\ i.path \in Paths
      BY <2>1, <2>4, ItemsHave DEF Running, Typed
    <3>2. /\ i.do \in {"remove", "move"} => Stands(disk[i.path])
          /\ i.do = "mode" => disk[i.path].is = "file"
          /\ i.do \in {"write", "link"} => disk[i.path] # Directory
      BY <3>1, FitStands
    <3>3. QED  BY <3>1, <3>2 DEF Stands, Directory
  <2>5. QED  BY <1>3, <2>2, <2>3, <2>4, TurnIsToDo DEF ApplyFails, Unreadable
<1>4. QED  BY <1>2, <1>3

(* A look drops nothing but a move to where the walk saw a directory. *)
LEMMA LooksCalmly ==
  ASSUME Typed, InOrder, Calm, edits = 0, target' = target, payload' = payload,
         NEW i \in todo, Look(i)
  PROVE  Calm'
<1>1. /\ phase = "apply" /\ hand = {} /\ todo' = todo \ {i}
      /\ hand' = (IF Unmoved(i) THEN {i} ELSE {})
      /\ left' = (IF Unmoved(i) \/ (i.do = "remove" /\ disk[i.path] = Nothing)
                  THEN left ELSE left \cup {i.path})
      /\ UNCHANGED <<disk, offered, phase, ended, edits, unread, unplanned, refused>>
      /\ unplanned = {} /\ refused = {} /\ ended = "not yet"
  BY DEF Look, InOrder, Typed
<1>2. /\ Running /\ Fit(i) /\ i.path \in Paths /\ i.do \in {"remove", "move", "write", "link", "mode"}
      /\ Apart(todo)
  BY <1>1, ItemsHave DEF Calm, Running, Typed
<1>3. i.do # "move" => Unmoved(i)
  BY <1>2, FitStands DEF Unmoved
<1>4. i.do = "move" => (Unmoved(i) <=> disk[i.wants] = Nothing)
  BY <1>2, FitStands DEF Unmoved
<1>5. ASSUME ~Unmoved(i)
      PROVE  /\ Settled(i.path)
             /\ \E q \in Paths : /\ target[i.path] = Nothing /\ offered[q] = Directory
                                 /\ target[q].is = "file" /\ Missing(q) /\ Same(disk[i.path], target[q])
  <2>1. i.do = "move" /\ disk[i.wants] # Nothing
    BY <1>3, <1>4, <1>5
  <2>2. /\ i.wants \in Paths /\ target[i.path] = Nothing /\ Missing(i.wants)
        /\ target[i.wants].is = "file" /\ Same(disk[i.path], target[i.wants]) /\ ~Held(i.path, disk[i.path].holds)
    BY <1>2, <2>1, FitStands
  <2>3. offered[i.wants] = Directory
    BY <1>2, <2>1 DEF Fit, FitMove
  <2>4. Settled(i.path)
    <3>1. target[i.path].is = "nothing"
      BY <2>2 DEF Nothing
    <3>2. QED  BY <2>2, <3>1 DEF Settled
  <2>5. QED  BY <2>2, <2>3, <2>4
<1>6. (InTheWay' <=> InTheWay) /\ (Clashes' <=> Clashes)
  BY <1>1 DEF InTheWay, Clashes, Gone, Wanting, Stands, Same, Held
<1>7. \A q \in Paths : /\ Blocked(q)' <=> Blocked(q)
                       /\ Settled(q)' <=> Settled(q)
                       /\ Missing(q)' <=> Missing(q)
  BY <1>1 DEF Blocked, Settled, Missing, Wanting, Stands, Same, Held
<1>8. todo' \cup hand' \subseteq todo
  BY <1>1
<1>9. \A j \in todo' \cup hand' : Fit(j)'
  <2> SUFFICES ASSUME NEW j \in todo PROVE Fit(j)'
    BY <1>8
  <2>1. Fit(j)
    BY <1>1, <1>2 DEF Running
  <2>2. QED  BY <1>1, <2>1, FitStays
<1>10. Apart(todo' \cup hand')
  BY <1>2, <1>8 DEF Apart
<1>11. \A j \in todo' \cup hand' : j.path \notin left'
  <2>1. \A j \in todo : j.path \notin left /\ (j.path = i.path => j = i)
    BY <1>1, <1>2 DEF Running, Apart
  <2>2. QED  BY <1>1, <2>1
<1>12. \A q \in Paths : ~Blocked(q) /\ (Settled(q) \/ \E j \in todo' \cup hand' : j.path = q)
  <2> SUFFICES ASSUME NEW q \in Paths
               PROVE  ~Blocked(q) /\ (Settled(q) \/ \E j \in todo' \cup hand' : j.path = q)
    OBVIOUS
  <2>1. ~Blocked(q) /\ (Settled(q) \/ \E j \in todo : j.path = q)
    BY <1>1, <1>2 DEF Running
  <2>2. i \in todo' \cup hand' \/ Settled(i.path)
    BY <1>1, <1>5
  <2>3. QED  BY <1>1, <2>1, <2>2
<1>13. \A d \in Paths : Stands(disk[d]) => Stands(offered[d]) \/ target[d] # Nothing
  BY <1>1, <1>2 DEF Running
<1>14. Running'
  <2>1. todo' \cap hand' = {} /\ \A j \in todo' : j.path \notin unplanned'
    BY <1>1
  <2>2. \A j \in hand' : j.do = "move" => disk'[j.wants] = Nothing
    BY <1>1, <1>4
  <2>3. QED
    BY <1>1, <1>7, <1>9, <1>10, <1>11, <1>12, <1>13, <2>1, <2>2 DEF Running, Apart, Stands
<1>15. \A p \in left' : \E q \in Paths :
         /\ target'[p] = Nothing /\ offered'[q] = Directory
         /\ target'[q].is = "file" /\ Missing(q)' /\ Same(disk'[p], target'[q])
  <2>1. \A p \in left : \E q \in Paths :
          /\ target[p] = Nothing /\ offered[q] = Directory
          /\ target[q].is = "file" /\ Missing(q) /\ Same(disk[p], target[q])
    BY DEF Calm
  <2>2. \A p \in left' : \E q \in Paths :
          /\ target[p] = Nothing /\ offered[q] = Directory
          /\ target[q].is = "file" /\ Missing(q) /\ Same(disk[p], target[q])
    BY <1>1, <1>5, <2>1
  <2>3. QED  BY <1>1, <1>7, <2>2
<1>16. \A q \in Paths : Blocked(q)' => \E r \in Within(q) : Stands(disk'[r])
  BY <1>7, <1>12
<1>17. RefusesForAReason' /\ ended' # "done" /\ refused' = {}
  BY <1>1 DEF RefusesForAReason
<1>18. QED  BY <1>14, <1>15, <1>16, <1>17 DEF Calm, Stands, Same

(* An act, a beginning and a step that changes nothing.                      *)
LEMMA ActsCalmly ==
  ASSUME Typed, InOrder, Calm, NEW i \in hand, Act(i)
  PROVE  Calm'
<1>1. /\ phase = "apply" /\ hand = {i} /\ target' = target /\ payload' = payload
      /\ UNCHANGED <<offered, refused, left, ended>> /\ unplanned = {} /\ refused = {}
      /\ ended = "not yet"
  BY ActsLeave DEF plan, InOrder, Typed
<1>2. Running /\ i.path \notin left /\ i.path \in Paths /\ Fit(i)
      /\ \A p \in Paths : ~Blocked(p)
  BY <1>1, HandOf, ItemsHave DEF Calm, Running
<1>3. Running'
  BY <1>2, ActsRun
<1>4. \A q \in Paths : ~Blocked(q)'
  BY <1>2, ActsKeepTheRest
<1>5. \A p \in left' : \E q \in Paths :
        /\ target'[p] = Nothing /\ offered'[q] = Directory
         /\ target'[q].is = "file" /\ Missing(q)' /\ Same(disk'[p], target'[q])
  <2> SUFFICES ASSUME NEW p \in left
               PROVE  \E q \in Paths : /\ target'[p] = Nothing /\ offered'[q] = Directory
                                       /\ target'[q].is = "file" /\ Missing(q)' /\ Same(disk'[p], target'[q])
    BY <1>1
  <2>1. PICK q \in Paths :
          /\ target[p] = Nothing /\ offered[q] = Directory
          /\ target[q].is = "file" /\ Missing(q) /\ Same(disk[p], target[q])
    BY DEF Calm
  <2>2. p \in Paths /\ p # i.path
    BY <1>2 DEF Typed
  <2>4. disk[p] # Nothing
    BY <2>1 DEF Same, Nothing
  <2>5. i.do = "move" => p # i.wants
    BY <1>2, <2>1, FitStands
  <2>6. disk'[p] = disk[p]
    BY <1>2, <2>2, <2>4, <2>5, ActsReach DEF Goes
  <2>7. QED  BY <1>1, <2>1, <2>6 DEF Missing, Wanting, Same
<1>6. RefusesForAReason' /\ ended' # "done" /\ refused' = {}
  BY <1>1 DEF RefusesForAReason
<1>7. QED  BY <1>3, <1>4, <1>5, <1>6 DEF Calm

LEMMA BeginsCalmly ==
  ASSUME Typed, InOrder, Calm, target' = target, payload' = payload, Begin
  PROVE  Calm'
<1>1. /\ phase' = "plan" /\ offered' = disk /\ disk' = disk /\ unplanned' = Paths /\ phase = "idle"
      /\ unread' = {} /\ refused' = {} /\ todo' = {} /\ hand' = {} /\ left' = {} /\ ended' = "not yet"
  BY DEF Begin, folder
<1>2. Running'
  BY <1>1 DEF Running, Apart, Fit
<1>3. \A q \in Paths : Blocked(q)' <=> Blocked(q)
  BY <1>1 DEF Blocked, Missing, Wanting
<1>4. \A q \in Paths : Blocked(q)' => \E r \in Within(q) : Stands(disk'[r])
  BY <1>1, <1>3 DEF Calm
<1>5. RefusesForAReason'
  BY <1>1 DEF RefusesForAReason
<1>6. QED  BY <1>1, <1>2, <1>4, <1>5 DEF Calm, Stands

(* The directories that go with what was in them held nothing anyone wants. *)
LEMMA TidiesCalmly ==
  ASSUME Typed, InOrder, Calm, target' = target, payload' = payload, EndApply
  PROVE  Calm'
<1>1. /\ phase = "apply" /\ todo = {} /\ hand = {} /\ phase' = "idle" /\ ended' = "done"
      /\ UNCHANGED <<offered, refused, left>> /\ unplanned = {} /\ refused = {}
  BY DEF EndApply, plan, done, InOrder
<1>2. \A q \in Paths : disk'[q] = disk[q] \/ (disk[q] = Directory /\ disk'[q] = Nothing)
  BY TidyingLeaves
<1>3. \A q \in Paths : ~Blocked(q) /\ Settled(q)
  BY <1>1 DEF Calm, Running
<1>4. /\ Nothing.is = "nothing" /\ Directory.is = "directory" /\ Nothing # Directory
      /\ ~Stands(Nothing) /\ ~Stands(Directory)
  BY NothingIsKept DEF Nothing, Directory
<1>5. \A q \in Paths : ~Blocked(q)' /\ Settled(q)'
  <2> SUFFICES ASSUME NEW q \in Paths PROVE ~Blocked(q)' /\ Settled(q)'
    OBVIOUS
  <2>1. CASE disk'[q] = disk[q]
    BY <1>3, <2>1, SettledStays DEF Blocked, Missing, Wanting
  <2>2. CASE disk[q] = Directory /\ disk'[q] = Nothing
    <3>1. ~Blocked(q)'
      BY <1>4, <2>2 DEF Blocked
    <3>2. target[q].is # "link"
      BY <1>3, <1>4, <2>2 DEF Settled, Same
    <3>3. target[q].is = "file" => Missing(q)
      BY <1>3, <1>4, <2>2 DEF Settled
    <3>4. Settled(q)'
      BY <1>4, <2>2, <3>2, <3>3 DEF Settled, Missing, Wanting, Stands
    <3>5. QED  BY <3>1, <3>4
  <2>3. QED  BY <1>2, <2>1, <2>2
<1>6. \A p \in left' : \E q \in Paths :
        /\ target'[p] = Nothing /\ offered'[q] = Directory
        /\ target'[q].is = "file" /\ Missing(q)' /\ Same(disk'[p], target'[q])
  <2> SUFFICES ASSUME NEW p \in left
               PROVE  \E q \in Paths : /\ target'[p] = Nothing /\ offered'[q] = Directory
                                       /\ target'[q].is = "file" /\ Missing(q)'
                                       /\ Same(disk'[p], target'[q])
    BY <1>1
  <2>1. PICK q \in Paths :
          /\ target[p] = Nothing /\ offered[q] = Directory
          /\ target[q].is = "file" /\ Missing(q) /\ Same(disk[p], target[q])
    BY DEF Calm
  <2>2. p \in Paths /\ disk[p] # Directory
    BY <1>4, <2>1 DEF Typed, Same
  <2>3. disk'[p] = disk[p]
    BY <1>2, <2>2
  <2>4. QED  BY <1>1, <2>1, <2>3 DEF Missing, Wanting, Same
<1>7. Running' /\ RefusesForAReason' /\ refused' = {}
  BY <1>1 DEF Running, RefusesForAReason
<1>8. QED  BY <1>5, <1>6, <1>7 DEF Calm

LEMMA IdlesCalmly ==
  ASSUME Calm, UNCHANGED vars
  PROVE  Calm'
BY DEF Calm, vars, Running, RefusesForAReason, InTheWay, Clashes, Gone, Wanting, Missing, Stands, Same, Held,
       Blocked, Settled, Apart, Fit, FitRemove, FitWrite, FitMode, FitMove, StillThere

(* With nobody editing, every step leaves the folder calm.                   *)
LEMMA NextCalm ==
  ASSUME Typed, InOrder, edits = 0 => Calm, [Next]_vars, edits' = 0
  PROVE  Calm'
<1>1. target' = target /\ payload' = payload
  BY StoreStays
<1>2. \A p, s : ~Edit(p, s)
  <2> SUFFICES ASSUME NEW p, NEW s, Edit(p, s) PROVE FALSE
    OBVIOUS
  <2>1. edits' = edits + 1 /\ edits \in Nat
    BY DEF Edit, Typed
  <2>2. QED  BY <2>1
<1>3. ASSUME edits = 0 PROVE Calm'
  <2>0. Calm
    BY <1>3
  <2>1. CASE Begin
    BY <1>1, <2>0, <2>1, BeginsCalmly
  <2>2. ASSUME NEW p \in Paths, Plan(p) PROVE Calm'
    BY <1>1, <1>3, <2>0, <2>2, PlansCalmly, RereadsCalmly
  <2>3. CASE PlanFails \/ ApplyFails
    <3>1. UNCHANGED <<disk, offered, refused, left>> /\ phase' = "idle" /\ ended' = "failed"
      BY <2>3 DEF PlanFails, ApplyFails, Fail, folder, plan, done
    <3>2. Clashes
      BY <2>0, <2>3, FailsForAReason
    <3>3. QED  BY <1>1, <2>0, <3>1, <3>2, StopsCalmly
  <2>4. CASE EndPlan
    <3>1. /\ UNCHANGED <<disk, offered, refused, left, edits, unread, unplanned, todo, hand>>
          /\ phase = "plan"
      BY <2>4 DEF EndPlan, folder, plan, done
    <3>2. CASE refused = {}
      <4>1. phase' = "apply" /\ ended' = ended /\ Running
        BY <2>0, <2>4, <3>2 DEF EndPlan, Calm
      <4>2. Running'
        BY <1>1, <3>1, <4>1 DEF Running, Missing, Wanting, Stands, Same, Held, Blocked, Settled, Apart, Fit,
              FitRemove, FitWrite, FitMode, FitMove, StillThere
      <4>3. ended' = "not yet"
        BY <3>1, <4>1 DEF Typed
      <4>4. RefusesForAReason'
        BY <4>3 DEF RefusesForAReason
      <4>5. \A q \in Paths : /\ Blocked(q)' <=> Blocked(q)
                             /\ Missing(q)' <=> Missing(q)
        BY <1>1, <3>1 DEF Blocked, Missing, Wanting
      <4>6. left' = {}
        BY <3>1, <4>1 DEF Running
      <4>7. \A q \in Paths : Blocked(q)' => \E r \in Within(q) : Stands(disk'[r])
        BY <2>0, <3>1, <4>5 DEF Calm
      <4>8. QED  BY <3>1, <3>2, <4>2, <4>3, <4>4, <4>6, <4>7 DEF Calm, Stands
    <3>3. CASE refused # {}
      <4>1. phase' = "idle" /\ ended' = "refused"
        BY <2>4, <3>3 DEF EndPlan
      <4>2. InTheWay \/ Clashes
        BY <2>0, <3>3 DEF Calm
      <4>3. QED  BY <1>1, <2>0, <3>1, <4>1, <4>2, StopsCalmly
    <3>4. QED  BY <3>2, <3>3
  <2>5. ASSUME NEW i \in todo, Look(i) PROVE Calm'
    BY <1>1, <1>3, <2>0, <2>5, LooksCalmly
  <2>6. ASSUME NEW i \in hand, Act(i) PROVE Calm'
    BY <2>0, <2>6, ActsCalmly
  <2>7. CASE EndApply
    BY <1>1, <2>0, <2>7, TidiesCalmly
  <2>8. CASE Stop
    <3>1. UNCHANGED <<disk, offered, refused, left>> /\ phase' = "idle" /\ ended' = "stopped"
      BY <2>8 DEF Stop, folder, plan, done
    <3>2. QED  BY <1>1, <2>0, <3>1, StopsCalmly
  <2>9. CASE UNCHANGED vars
    BY <2>0, <2>9, IdlesCalmly
  <2>10. QED  BY <1>2, <2>1, <2>2, <2>3, <2>4, <2>5, <2>6, <2>7, <2>8, <2>9 DEF Next, Command
<1>4. CASE edits # 0
  <2>1. edits' = edits
    <3>1. CASE UNCHANGED vars
      BY <3>1 DEF vars
    <3>2. CASE Begin \/ Command \/ Stop
      BY <3>2 DEF folder, Begin, Command, Plan, PlanDisputed, PlanLink, PlanOverFile, PlanOverNothing,
         PlanInTheWay, ReadReplaced, PlanStray, Decide, PlanFails, Fail, EndPlan, Look, Act, ActRemove,
         ActMove, ActWrite, ActLink, ActMode, Acted, ApplyFails, EndApply, Stop
    <3>3. QED  BY <1>2, <3>1, <3>2 DEF Next
  <2>2. QED  BY <1>4, <2>1
<1>5. QED  BY <1>3, <1>4
-----------------------------------------------------------------------------
(* A folder somebody worked in, and a tree a folder can hold. *)
LEMMA Begins ==
  ASSUME Init
  PROVE  FolderInv
<1>1. /\ disk \in Folders /\ phase = "idle" /\ ended = "not yet" /\ offered = disk
      /\ unread = {} /\ unplanned = {} /\ refused = {} /\ todo = {} /\ hand = {}
      /\ removed = {} /\ left = {} /\ unseen = {} /\ raced = {} /\ lost = {} /\ edits = 0
  BY DEF Init
<1>2. disk \in [Paths -> Standing] /\ \A p \in Paths : disk[p] = Directory <=> \E q \in Within(p) : Stands(disk[q])
  BY <1>1 DEF Folders
<1>3. /\ target \in [Paths -> Standing \cup {Disputed}]
      /\ \A p \in Paths : target[p] \in EntriesAt(p)
      /\ \A p \in Paths : target[p] # Nothing => \A d \in Holders(p) : target[d] = Nothing
      /\ payload \in [Payloads -> {"held", "elsewhere", "forgotten"}]
  BY DEF Init
<1>4. Typed
  BY <1>1, <1>2, <1>3 DEF Typed
<1>5. Orderly(disk)
  <2> SUFFICES ASSUME NEW p \in Paths, Stands(disk[p]), NEW d \in Holders(p) PROVE disk[d] = Directory
    BY DEF Orderly
  <2>1. d \in Paths /\ p \in Within(d)
    BY HoldersHold
  <2>2. QED  BY <1>2, <2>1
<1>6. InOrder
  BY <1>1, <1>3, <1>5 DEF InOrder
<1>7. Guarded /\ LosesOnlyWhatItNeverSaw
  BY <1>1 DEF Guarded, GuardsRead, GuardsPlanned, GuardsHold, LosesOnlyWhatItNeverSaw
<1>8. Calm
  <2>1. Running /\ RefusesForAReason
    BY <1>1 DEF Running, RefusesForAReason
  <2>2. \A d \in Paths : Blocked(d) => \E p \in Within(d) : Stands(disk[p])
    BY <1>2 DEF Blocked
  <2>3. QED  BY <1>1, <2>1, <2>2 DEF Calm
<1>9. QED  BY <1>4, <1>6, <1>7, <1>8 DEF FolderInv

(* The invariant is inductive.                                               *)
LEMMA Continues ==
  ASSUME FolderInv, [Next]_vars
  PROVE  FolderInv'
<1>1. Typed' /\ InOrder'
  BY NextTyped DEF FolderInv
<1>2. Guarded' /\ LosesOnlyWhatItNeverSaw'
  BY NextGuarded DEF FolderInv
<1>3. edits' = 0 => Calm'
  BY NextCalm DEF FolderInv
<1>4. QED  BY <1>1, <1>2, <1>3 DEF FolderInv

(* It says all an update promises.                                           *)
LEMMA Promised ==
  ASSUME FolderInv
  PROVE  TypeOK /\ LosesOnlyWhatItNeverSaw /\ DoneHoldsTheHead /\ RefusesForAReason
<1>1. TypeOK
  <2>1. Cardinality(hand) <= 1
    <3>1. hand = {} \/ \E i \in Moves \cup Others : hand = {i}
      BY DEF FolderInv, Typed
    <3>2. hand = {} => Cardinality(hand) = 0
      BY FS_EmptySet
    <3>3. \A i : hand = {i} => Cardinality(hand) = 1
      BY FS_Singleton
    <3>4. QED  BY <3>1, <3>2, <3>3
  <2>2. \A i \in todo \cup hand : i.do \in DOMAIN Rank
    <3>1. \A i \in todo \cup hand : i \in Moves \cup Others
      BY HandOf DEF FolderInv, Typed
    <3>2. DOMAIN Rank = {"remove", "move", "write", "link", "mode"}
      BY DEF Rank
    <3>3. QED  BY <3>1, <3>2, ItemsHave
  <2>3. \A p \in Paths : Stands(disk[p]) => \A d \in Holders(p) : disk[d] = Directory
    BY DEF FolderInv, InOrder, Orderly
  <2>4. QED  BY <2>1, <2>2, <2>3 DEF FolderInv, Typed, TypeOK
<1>2. LosesOnlyWhatItNeverSaw
  BY DEF FolderInv
<1>3. RefusesForAReason
  BY DEF FolderInv, Calm, RefusesForAReason
<1>4. DoneHoldsTheHead
  <2> SUFFICES ASSUME ended = "done", edits = 0 PROVE DoneHoldsTheHead
    BY DEF DoneHoldsTheHead
  <2>1. Calm
    BY DEF FolderInv
  <2>2. \A p \in Paths : Settled(p)
    BY <2>1 DEF Calm
  <2>3. \A p \in left : \E q \in Paths :
          /\ target[p] = Nothing /\ offered[q] = Directory
          /\ target[q].is = "file" /\ Missing(q) /\ Same(disk[p], target[q])
    BY <2>1 DEF Calm
  <2>4. QED  BY <2>2, <2>3 DEF DoneHoldsTheHead, Settled
<1>5. QED  BY <1>1, <1>2, <1>3, <1>4
-----------------------------------------------------------------------------
(* A walk's stamp is not later than the file: times only rise.             *)
StampedBefore == stamp.time <= file.time

(* A file that was written since it was stamped, or hashed, and still has  *)
(* the time it was stamped with, was written twice in that tick.           *)
WrittenAgain == fresh /\ stamp.time = file.time => again

(* What a command read of a file nobody has written since is so, and what  *)
(* it believes of one is so unless the catalogue was written amid a write. *)
KnownIsSo ==
  command # "none" /\ known # "none" /\ ~fresh =>
    known = file.holds \/ (~learned /\ amid)

(* A command that is writing was told that the folder holds the head's.    *)
WritesOverTheHead ==
  /\ step # "none" => command # "none"
  /\ step = "write" => known = AtHead

SurveyInv ==
  /\ Surveys!TypeOK /\ StampedBefore /\ WrittenAgain /\ KnownIsSo /\ WritesOverTheHead
  /\ Surveys!WrongOnlyAmidASurvey /\ Surveys!LostOnlyAmidASurvey
-----------------------------------------------------------------------------
(* An entry is believed of the size and the time it was written with, and  *)
(* of a time before the catalogue's own.                                   *)
LEMMA BelievedOf ==
  ASSUME NEW s, Surveys!Believed(s) # "none"
  PROVE  /\ Surveys!Believed(s) = catalogue.digest /\ catalogue.size = s.size
         /\ catalogue.time = s.time /\ catalogue.time < catalogue.at
BY DEF Surveys!Believed

(* What a walk is told of a file.                                            *)
LEMMA StampsAreStamps ==
  ASSUME NEW f \in [holds : Versions, time : 0 .. MaxTick]
  PROVE  /\ Surveys!StampOf(f) \in Surveys!Stamps
         /\ Surveys!StampOf(f).time = f.time /\ Surveys!StampOf(f).size = Surveys!Size(f.holds)
BY DEF Surveys!StampOf, Surveys!Size, Surveys!Stamps

(* The invariant of a survey, from the start.                                *)
LEMMA SurveysBegin == Surveys!Init => SurveyInv
<1> SUFFICES ASSUME Surveys!Init PROVE SurveyInv
  OBVIOUS
<1>1. file \in [holds : Versions, time : 0 .. MaxTick] /\ file.time = 0
  BY VersionsAssumption, BoundsAssumption DEF Surveys!Init
<1>2. stamp \in Surveys!Stamps /\ stamp.time = 0
  BY <1>1, StampsAreStamps DEF Surveys!Init
<1>3. catalogue \in Surveys!Entries /\ catalogue.at = 0 /\ catalogue.time = 0
  BY BoundsAssumption DEF Surveys!Init, Surveys!Entries, Surveys!NoCatalogue
<1>4. Surveys!TypeOK
  <2>1. clock \in 1 .. MaxTick /\ file.time <= clock /\ catalogue.at <= clock /\ stamp.time <= clock
    BY <1>1, <1>2, <1>3, BoundsAssumption DEF Surveys!Init
  <2>2. again \in BOOLEAN /\ learned \in BOOLEAN /\ fresh \in BOOLEAN /\ amid \in BOOLEAN
    BY DEF Surveys!Init
  <2>3. command = "none" /\ known = "none" /\ step = "none" /\ guard \in Versions
    BY VersionsAssumption DEF Surveys!Init
  <2>4. overwritten = {} /\ writes \in 0 .. MaxWrites /\ commands \in 0 .. MaxCommands
    BY BoundsAssumption DEF Surveys!Init
  <2>5. QED  BY <1>1, <1>2, <1>3, <2>1, <2>2, <2>3, <2>4 DEF Surveys!TypeOK
<1>5. Surveys!WrongOnlyAmidASurvey
  BY <1>3, BelievedOf DEF Surveys!WrongOnlyAmidASurvey
<1>6. Surveys!LostOnlyAmidASurvey
  BY DEF Surveys!Init, Surveys!LostOnlyAmidASurvey
<1>7. StampedBefore /\ WrittenAgain /\ KnownIsSo /\ WritesOverTheHead
  BY <1>1, <1>2 DEF Surveys!Init, StampedBefore, WrittenAgain, KnownIsSo, WritesOverTheHead
<1>8. QED  BY <1>4, <1>5, <1>6, <1>7 DEF SurveyInv

(* Types. *)
LEMMA SurveysTyped == Surveys!TypeOK /\ [Surveys!Next]_(Surveys!vars) => Surveys!TypeOK'
<1> SUFFICES ASSUME Surveys!TypeOK, [Surveys!Next]_(Surveys!vars) PROVE Surveys!TypeOK'
  OBVIOUS
<1> USE VersionsAssumption, BoundsAssumption
<1>1. ASSUME NEW what \in {"survey", "undo"}, Surveys!Walk(what) PROVE Surveys!TypeOK'
  <2>1. Surveys!StampOf(file) \in Surveys!Stamps /\ Surveys!StampOf(file).time = file.time
    BY StampsAreStamps DEF Surveys!TypeOK
  <2>2. Surveys!Believed(Surveys!StampOf(file)) \in Versions \cup {"none"}
    BY DEF Surveys!TypeOK, Surveys!Entries, Surveys!Believed
  <2>3. stamp' \in Surveys!Stamps /\ stamp'.time <= clock' /\ known' \in Versions \cup {"none"}
    BY <1>1, <2>1, <2>2 DEF Surveys!Walk, Surveys!TypeOK
  <2>4. commands' \in 0 .. MaxCommands
    BY <1>1 DEF Surveys!Walk, Surveys!TypeOK
  <2>5. QED  BY <1>1, <2>3, <2>4 DEF Surveys!Walk, Surveys!TypeOK
<1>2. CASE Surveys!Digest
  BY <1>2 DEF Surveys!Digest, Surveys!TypeOK
<1>3. CASE Surveys!Remember
  <2>1. Surveys!Entry \in Surveys!Entries /\ Surveys!Entry.at = clock
    BY DEF Surveys!Entry, Surveys!Entries, Surveys!Stamps, Surveys!TypeOK
  <2>2. catalogue' \in Surveys!Entries /\ catalogue'.at <= clock'
    BY <1>3, <2>1 DEF Surveys!Remember, Surveys!TypeOK
  <2>3. QED  BY <1>3, <2>2 DEF Surveys!Remember, Surveys!Done, Surveys!TypeOK
<1>4. CASE Surveys!Holds
  BY <1>4 DEF Surveys!Holds, Surveys!Done, Surveys!TypeOK
<1>5. CASE Surveys!Write
  <2>1. CASE file.holds = guard
    <3>1. file' = [holds |-> Undone, time |-> clock] /\ again' = (file.time = clock)
      BY <1>5, <2>1 DEF Surveys!Write
    <3>2. overwritten' \subseteq [holds : Versions \ Known, before : BOOLEAN, amid : BOOLEAN]
      <4>1. CASE file.holds \in Known
        BY <1>5, <2>1, <4>1 DEF Surveys!Write, Surveys!TypeOK
      <4>2. CASE file.holds \notin Known
        <5>1. PICK b \in BOOLEAN : b = ~fresh
          OBVIOUS
        <5>2. overwritten' = overwritten \cup {[holds |-> file.holds, before |-> b, amid |-> amid]}
          BY <1>5, <2>1, <4>2, <5>1 DEF Surveys!Write
        <5>3. file.holds \in Versions \ Known /\ amid \in BOOLEAN
          BY <4>2 DEF Surveys!TypeOK
        <5>4. [holds |-> file.holds, before |-> b, amid |-> amid]
                \in [holds : Versions \ Known, before : BOOLEAN, amid : BOOLEAN]
          BY <5>3
        <5>5. QED  BY <5>2, <5>4 DEF Surveys!TypeOK
      <4>3. QED  BY <4>1, <4>2
    <3>3. QED  BY <1>5, <3>1, <3>2 DEF Surveys!Write, Surveys!Done, Surveys!TypeOK
  <2>2. CASE file.holds # guard
    BY <1>5, <2>2 DEF Surveys!Write, Surveys!Done, Surveys!TypeOK
  <2>3. QED  BY <2>1, <2>2
<1>6. ASSUME NEW c \in Versions, Surveys!PersonWrites(c) PROVE Surveys!TypeOK'
  BY <1>6 DEF Surveys!PersonWrites, Surveys!TypeOK
<1>7. CASE Surveys!Tick
  <2>1. clock' \in 1 .. MaxTick /\ clock <= clock' /\ clock \in Nat
    BY <1>7 DEF Surveys!Tick, Surveys!TypeOK
  <2>2. file.time \in Nat /\ catalogue.at \in Nat /\ stamp.time \in Nat
    BY DEF Surveys!TypeOK, Surveys!Entries, Surveys!Stamps
  <2>3. file.time <= clock' /\ catalogue.at <= clock' /\ stamp.time <= clock'
    BY <2>1, <2>2 DEF Surveys!TypeOK
  <2>4. QED  BY <1>7, <2>1, <2>3 DEF Surveys!Tick, Surveys!TypeOK
<1>8. CASE UNCHANGED Surveys!vars
  BY <1>8 DEF Surveys!vars, Surveys!TypeOK
<1>9. QED  BY <1>1, <1>2, <1>3, <1>4, <1>5, <1>6, <1>7, <1>8 DEF Surveys!Next

(* A file that is written has the clock's time, which no entry that can be *)
(* believed has: so it is wrong of nothing.                                *)
LEMMA WrittenIsNotBelieved ==
  ASSUME Surveys!TypeOK, Surveys!TypeOK', file'.time = clock, clock' = clock, catalogue' = catalogue
  PROVE  Surveys!WrongOnlyAmidASurvey'
<1>1. Surveys!Believed(Surveys!StampOf(file))' = "none"
  <2>1. Surveys!StampOf(file').time = clock
    BY StampsAreStamps DEF Surveys!TypeOK
  <2>2. ~(catalogue'.time = clock /\ catalogue'.time < catalogue'.at)
    BY DEF Surveys!TypeOK, Surveys!Entries
  <2>3. QED  BY <2>1, <2>2 DEF Surveys!Believed, Surveys!StampOf
<1>2. QED  BY <1>1 DEF Surveys!WrongOnlyAmidASurvey

(* Nothing is believed otherwise while neither file nor catalogue changes. *)
LEMMA StillBelieved ==
  ASSUME Surveys!WrongOnlyAmidASurvey, UNCHANGED <<file, catalogue, again, amid>>
  PROVE  Surveys!WrongOnlyAmidASurvey'
BY DEF Surveys!WrongOnlyAmidASurvey, Surveys!Believed, Surveys!StampOf

(* And after every step.                                                     *)
LEMMA SurveysContinue == SurveyInv /\ [Surveys!Next]_(Surveys!vars) => SurveyInv'
<1> SUFFICES ASSUME SurveyInv, [Surveys!Next]_(Surveys!vars) PROVE SurveyInv'
  OBVIOUS
<1>1. Surveys!TypeOK /\ Surveys!TypeOK'
  BY SurveysTyped DEF SurveyInv
<1>2. /\ file.time \in 0 .. MaxTick /\ stamp.time \in 0 .. MaxTick /\ clock \in 1 .. MaxTick
      /\ file.time <= clock /\ stamp.time <= file.time /\ fresh \in BOOLEAN /\ amid \in BOOLEAN
      /\ again \in BOOLEAN /\ learned \in BOOLEAN
  BY <1>1 DEF SurveyInv, Surveys!TypeOK, Surveys!Stamps, StampedBefore
<1>3. ASSUME NEW what \in {"survey", "undo"}, Surveys!Walk(what) PROVE SurveyInv'
  <2>1. stamp'.time = file'.time /\ file' = file /\ fresh' = FALSE
    BY <1>1, <1>3, StampsAreStamps DEF Surveys!Walk, Surveys!TypeOK
  <2>2. StampedBefore' /\ WrittenAgain'
    BY <1>2, <2>1 DEF StampedBefore, WrittenAgain
  <2>3. KnownIsSo'
    <3>1. known' # "none" => known' = file.holds \/ amid
      BY <1>3 DEF Surveys!Walk, SurveyInv, Surveys!WrongOnlyAmidASurvey
    <3>2. learned' = FALSE /\ amid' = amid /\ file' = file
      BY <1>3 DEF Surveys!Walk
    <3>3. QED  BY <3>1, <3>2 DEF KnownIsSo
  <2>4. WritesOverTheHead'
    BY <1>3 DEF Surveys!Walk, WritesOverTheHead
  <2>5. Surveys!WrongOnlyAmidASurvey' /\ Surveys!LostOnlyAmidASurvey'
    BY <1>3, StillBelieved DEF Surveys!Walk, SurveyInv, Surveys!LostOnlyAmidASurvey
  <2>6. QED  BY <1>1, <2>2, <2>3, <2>4, <2>5 DEF SurveyInv
<1>4. CASE Surveys!Digest
  <2>1. StampedBefore' /\ WrittenAgain'
    BY <1>4 DEF Surveys!Digest, SurveyInv, StampedBefore, WrittenAgain
  <2>2. KnownIsSo'
    <3>1. CASE known = "none"
      BY <1>4, <3>1 DEF Surveys!Digest, KnownIsSo
    <3>2. CASE known # "none"
      <4>1. known' = known /\ learned' = FALSE /\ fresh' = fresh /\ UNCHANGED <<file, amid, command>>
        BY <1>2, <1>4, <3>2 DEF Surveys!Digest
      <4>2. QED  BY <4>1, <3>2 DEF SurveyInv, KnownIsSo
    <3>3. QED  BY <3>1, <3>2
  <2>3. WritesOverTheHead'
    BY <1>4 DEF Surveys!Digest, SurveyInv, WritesOverTheHead
  <2>4. Surveys!WrongOnlyAmidASurvey' /\ Surveys!LostOnlyAmidASurvey'
    BY <1>4, StillBelieved DEF Surveys!Digest, SurveyInv, Surveys!LostOnlyAmidASurvey
  <2>5. QED  BY <1>1, <2>1, <2>2, <2>3, <2>4 DEF SurveyInv
<1>5. CASE Surveys!Remember
  <2>1. StampedBefore' /\ WrittenAgain' /\ KnownIsSo' /\ WritesOverTheHead'
    BY <1>5 DEF Surveys!Remember, Surveys!Done, SurveyInv, StampedBefore, WrittenAgain, KnownIsSo, WritesOverTheHead
  <2>2. Surveys!LostOnlyAmidASurvey'
    BY <1>5 DEF Surveys!Remember, SurveyInv, Surveys!LostOnlyAmidASurvey
  <2>3. Surveys!WrongOnlyAmidASurvey'
    <3>1. CASE ~learned
      BY <1>5, <3>1, StillBelieved DEF Surveys!Remember, SurveyInv
    <3>2. CASE learned
      <4> SUFFICES ASSUME Surveys!Believed(Surveys!StampOf(file))' # "none", Surveys!Believed(Surveys!StampOf(file))' # file'.holds
                   PROVE  again' /\ amid'
        BY DEF Surveys!WrongOnlyAmidASurvey
      <4>1. catalogue' = Surveys!Entry /\ amid' = fresh /\ UNCHANGED <<file, again>>
        BY <1>5, <3>2 DEF Surveys!Remember
      <4>2. /\ Surveys!Believed(Surveys!StampOf(file))' = known
            /\ stamp.time = Surveys!StampOf(file).time
        BY <4>1 DEF Surveys!Believed, Surveys!StampOf, Surveys!Entry
      <4>3. stamp.time = file.time /\ known # "none" /\ known # file.holds
        BY <4>1, <4>2 DEF Surveys!StampOf
      <4>4. command # "none"
        BY <1>5 DEF Surveys!Remember, SurveyInv, WritesOverTheHead
      <4>5. fresh
        BY <3>2, <4>3, <4>4 DEF SurveyInv, KnownIsSo
      <4>6. QED  BY <4>1, <4>3, <4>5 DEF SurveyInv, WrittenAgain
    <3>3. QED  BY <3>1, <3>2
  <2>4. QED  BY <1>1, <2>1, <2>2, <2>3 DEF SurveyInv
<1>6. CASE Surveys!Holds
  <2>1. StampedBefore' /\ WrittenAgain'
    BY <1>6 DEF Surveys!Holds, SurveyInv, StampedBefore, WrittenAgain
  <2>2. KnownIsSo' /\ WritesOverTheHead'
    BY <1>6 DEF Surveys!Holds, Surveys!Done, SurveyInv, KnownIsSo, WritesOverTheHead
  <2>3. Surveys!WrongOnlyAmidASurvey' /\ Surveys!LostOnlyAmidASurvey'
    BY <1>6, StillBelieved DEF Surveys!Holds, SurveyInv, Surveys!LostOnlyAmidASurvey
  <2>4. QED  BY <1>1, <2>1, <2>2, <2>3 DEF SurveyInv
<1>7. CASE Surveys!Write
  <2>1. KnownIsSo' /\ WritesOverTheHead'
    BY <1>7 DEF Surveys!Write, Surveys!Done, KnownIsSo, WritesOverTheHead
  <2>2. CASE file.holds # guard
    <3>1. UNCHANGED <<file, again, overwritten, catalogue, amid, fresh, stamp>>
      BY <1>7, <2>2 DEF Surveys!Write
    <3>2. StampedBefore' /\ WrittenAgain' /\ Surveys!WrongOnlyAmidASurvey' /\ Surveys!LostOnlyAmidASurvey'
      BY <3>1, StillBelieved DEF SurveyInv, StampedBefore, WrittenAgain, Surveys!LostOnlyAmidASurvey
    <3>3. QED  BY <1>1, <2>1, <3>2 DEF SurveyInv
  <2>3. CASE file.holds = guard
    <3>1. /\ file' = [holds |-> Undone, time |-> clock] /\ again' = (file.time = clock)
          /\ UNCHANGED <<clock, catalogue, stamp, fresh, amid>>
      BY <1>7, <2>3 DEF Surveys!Write
    <3>2. StampedBefore' /\ WrittenAgain'
      BY <1>2, <3>1 DEF StampedBefore, WrittenAgain
    <3>3. Surveys!WrongOnlyAmidASurvey'
      BY <1>1, <3>1, WrittenIsNotBelieved
    <3>4. Surveys!LostOnlyAmidASurvey'
      <4>1. CASE file.holds \in Known
        BY <1>7, <2>3, <4>1 DEF Surveys!Write, SurveyInv, Surveys!LostOnlyAmidASurvey
      <4>2. CASE file.holds \notin Known
        <5> DEFINE l == [holds |-> file.holds, before |-> ~fresh, amid |-> amid]
        <5>1. overwritten' = overwritten \cup {l}
          BY <1>7, <2>3, <4>2 DEF Surveys!Write
        <5>2. known = AtHead /\ command # "none"
          BY <1>7 DEF Surveys!Write, SurveyInv, WritesOverTheHead
        <5>3. known # "none" /\ known # file.holds
          BY <4>2, <5>2, VersionsAssumption
        <5>4. ~fresh => amid
          BY <5>2, <5>3 DEF SurveyInv, KnownIsSo
        <5>5. l.before => l.amid
          BY <5>4
        <5>6. QED  BY <5>1, <5>5 DEF SurveyInv, Surveys!LostOnlyAmidASurvey
      <4>3. QED  BY <4>1, <4>2
    <3>5. QED  BY <1>1, <2>1, <3>2, <3>3, <3>4 DEF SurveyInv
  <2>4. QED  BY <2>2, <2>3
<1>8. ASSUME NEW c \in Versions, Surveys!PersonWrites(c) PROVE SurveyInv'
  <2>1. /\ file' = [holds |-> c, time |-> clock] /\ again' = (file.time = clock) /\ fresh' = TRUE
        /\ UNCHANGED <<clock, catalogue, command, step, stamp, known, learned, amid, overwritten>>
    BY <1>8 DEF Surveys!PersonWrites
  <2>2. StampedBefore' /\ WrittenAgain'
    <3>1. stamp'.time = stamp.time /\ file'.time = clock
      BY <2>1
    <3>2. stamp.time = clock => file.time = clock
      BY <1>2
    <3>3. file.time = clock => again'
      BY <2>1
    <3>4. QED  BY <1>2, <3>1, <3>2, <3>3 DEF StampedBefore, WrittenAgain
  <2>3. KnownIsSo' /\ WritesOverTheHead'
    BY <2>1 DEF SurveyInv, KnownIsSo, WritesOverTheHead
  <2>4. Surveys!WrongOnlyAmidASurvey'
    BY <1>1, <2>1, WrittenIsNotBelieved
  <2>5. Surveys!LostOnlyAmidASurvey'
    BY <2>1 DEF SurveyInv, Surveys!LostOnlyAmidASurvey
  <2>6. QED  BY <1>1, <2>2, <2>3, <2>4, <2>5 DEF SurveyInv
<1>9. ASSUME UNCHANGED <<file, again, catalogue, command, step, stamp, known, learned, fresh, amid, overwritten>>
      PROVE  SurveyInv'
  <2>1. StampedBefore' /\ WrittenAgain' /\ KnownIsSo' /\ WritesOverTheHead'
    BY <1>9 DEF SurveyInv, StampedBefore, WrittenAgain, KnownIsSo, WritesOverTheHead
  <2>2. Surveys!WrongOnlyAmidASurvey' /\ Surveys!LostOnlyAmidASurvey'
    BY <1>9, StillBelieved DEF SurveyInv, Surveys!LostOnlyAmidASurvey
  <2>3. QED  BY <1>1, <2>1, <2>2 DEF SurveyInv
<1>10. CASE Surveys!Tick
  BY <1>9, <1>10 DEF Surveys!Tick
<1>11. CASE UNCHANGED Surveys!vars
  BY <1>9, <1>11 DEF Surveys!vars
<1>12. QED  BY <1>3, <1>4, <1>5, <1>6, <1>7, <1>8, <1>10, <1>11 DEF Surveys!Next
-----------------------------------------------------------------------------
(* Undoing a revision.  The facts about one undoing hold of any three trees *)
(* and any folder, wherever the trees stand in a line; the line is needed   *)
(* only to know that what it holds are trees, which a line keeps because an *)
(* undoing that is not refused leaves one.                                  *)
\* The parts of a file, what one of them may hold, and the modes the file may have.
PartsOf(f) ==
  CASE Kinds[f] = "lines" -> Passages [] Kinds[f] = "whole" -> {"whole"} [] Kinds[f] = "link" -> {"link"}
ValuesOf(f) == IF Kinds[f] = "link" THEN Tracked \ {f} ELSE Wordings
ModesOf(f)  == IF Kinds[f] = "lines" THEN FileModes ELSE {"plain"}

\* The sides of an undoing are trees.
OfTrees(s) == s.before \in Line!Trees /\ s.after \in Line!Trees /\ s.now \in Line!Trees
-----------------------------------------------------------------------------
(* What a file is in a tree has a path, the parts of its kind and a mode.  *)
LEMMA EntryShape ==
  ASSUME NEW f \in Tracked
  PROVE  \A e : e \in Line!EntriesOf(f) <=>
               /\ e = [path |-> e.path, holds |-> e.holds, mode |-> e.mode]
               /\ e.path \in Places /\ e.holds \in [PartsOf(f) -> ValuesOf(f)] /\ e.mode \in ModesOf(f)
<1>1. Kinds[f] \in {"lines", "whole", "link"}
  BY KindsAssumption
<1>2. Line!HoldsOf(f) = [PartsOf(f) -> ValuesOf(f)]
  <2>1. CASE Kinds[f] = "lines"  BY <2>1 DEF Line!HoldsOf, PartsOf, ValuesOf
  <2>2. CASE Kinds[f] = "whole"  BY <2>2 DEF Line!HoldsOf, PartsOf, ValuesOf
  <2>3. CASE Kinds[f] = "link"   BY <2>3 DEF Line!HoldsOf, PartsOf, ValuesOf
  <2>4. QED  BY <1>1, <2>1, <2>2, <2>3
<1>3. Line!EntriesOf(f) = [path : Places, holds : [PartsOf(f) -> ValuesOf(f)], mode : ModesOf(f)]
  BY <1>2 DEF Line!EntriesOf, ModesOf
<1>4. QED  BY <1>3

(* In a tree a file is absent, which no path says, or it has an entry.     *)
LEMMA InTrees ==
  ASSUME NEW t \in Line!Trees, NEW f \in Tracked
  PROVE  /\ t[f] = Line!Absent \/ t[f] \in Line!EntriesOf(f)
         /\ t[f] \in Line!EntriesOf(f) => t[f] # Line!Absent /\ t[f].path \in Places /\ t[f].path # "none"
         /\ t[f] # Line!Absent => t[f] \in Line!EntriesOf(f)
         /\ t[f] = Line!Absent => t[f].path = "none"
<1>1. t[f] \in Line!EntriesOf(f) \cup {Line!Absent}
  BY DEF Line!Trees
<1>2. t[f] \in Line!EntriesOf(f) => t[f].path \in Places
  BY EntryShape
<1>3. Line!Absent.path = "none"
  BY DEF Line!Absent
<1>4. QED  BY <1>1, <1>2, <1>3, PlacesAssumption

LEMMA TreesAreTrees ==
  ASSUME NEW t \in Line!Trees
  PROVE  /\ \A f, g \in Tracked : t[f] # Line!Absent /\ t[g].path = t[f].path => f = g
         /\ \A f \in Tracked : t[f] # Line!Absent /\ Kinds[f] = "link" => t[Line!Named(t, f)] # Line!Absent
BY DEF Line!Trees, Line!IsTree

LEMMA TreeFromEntries ==
  ASSUME NEW t, t = [f \in Tracked |-> t[f]],
         \A f \in Tracked : t[f] \in Line!EntriesOf(f) \cup {Line!Absent}, Line!IsTree(t)
  PROVE  t \in Line!Trees
<1>1. t \in [Tracked -> (UNION {Line!EntriesOf(f) : f \in Tracked}) \cup {Line!Absent}]
  <2>1. \A f \in Tracked : t[f] \in (UNION {Line!EntriesOf(g) : g \in Tracked}) \cup {Line!Absent}
    OBVIOUS
  <2>2. QED  BY <2>1
<1>2. QED  BY <1>1 DEF Line!Trees

LEMMA EmptyIsATree == [f \in Tracked |-> Line!Absent] \in Line!Trees
<1> DEFINE t == [f \in Tracked |-> Line!Absent]
<1>1. Line!IsTree(t)
  BY DEF Line!IsTree
<1>2. QED  BY <1>1, TreeFromEntries
-----------------------------------------------------------------------------
(* One part of a three-way is what it was before or what it is now.        *)
LEMMA PartsBack ==
  ASSUME NEW f \in Tracked, NEW s, OfTrees(s),
         s.before[f] # Line!Absent, s.after[f] # Line!Absent, s.now[f] # Line!Absent
  PROVE  /\ DOMAIN s.before[f].holds = PartsOf(f)
         /\ DOMAIN s.now[f].holds = PartsOf(f)
         /\ Line!ThreeWay(f, s) \in [PartsOf(f) -> ValuesOf(f)]
         /\ \A x \in PartsOf(f) :
              Line!ThreeWay(f, s)[x] = IF s.now[f].holds[x] = s.after[f].holds[x]
                                  THEN s.before[f].holds[x] ELSE s.now[f].holds[x]
         /\ Line!ModeOf(f, s) \in ModesOf(f)
         /\ Line!Destination(f, s) \in Places
<1>1. /\ s.before[f] \in Line!EntriesOf(f) /\ s.after[f] \in Line!EntriesOf(f) /\ s.now[f] \in Line!EntriesOf(f)
      /\ s.before[f].path \in Places /\ s.now[f].path \in Places
  BY InTrees DEF OfTrees
<1>2. /\ s.before[f].holds \in [PartsOf(f) -> ValuesOf(f)]
      /\ s.now[f].holds \in [PartsOf(f) -> ValuesOf(f)]
      /\ s.before[f].mode \in ModesOf(f) /\ s.now[f].mode \in ModesOf(f)
  BY <1>1, EntryShape
<1>3. QED  BY <1>1, <1>2 DEF Line!ThreeWay, Line!Part, Line!ModeOf, Line!Destination

(* An undoing gives a file back as what a file of its kind can be.         *)
LEMMA EndsAreEntries ==
  ASSUME NEW f \in Tracked, NEW s, OfTrees(s)
  PROVE  Line!Undoes(f, s).end \in Line!EntriesOf(f) \cup {Line!Absent}
<1>1. /\ s.before[f] \in Line!EntriesOf(f) \cup {Line!Absent} /\ s.now[f] \in Line!EntriesOf(f) \cup {Line!Absent}
  BY InTrees DEF OfTrees
<1>2. CASE s.before[f] = s.after[f]
  BY <1>1, <1>2 DEF Line!Undoes, Line!Ends
<1>3. CASE s.before[f] = Line!Absent /\ s.after[f] # Line!Absent
  BY <1>1, <1>3 DEF Line!Undoes, Line!Unadd, Line!Ends, Line!Refuse
<1>4. CASE s.before[f] # Line!Absent /\ s.after[f] = Line!Absent
  BY <1>1, <1>4 DEF Line!Undoes, Line!Undrop, Line!Laid, Line!Ends, Line!Refuse
<1>5. CASE s.before[f] # Line!Absent /\ s.after[f] # Line!Absent /\ s.before[f] # s.after[f]
  <2>1. Line!Undoes(f, s) = Line!Unedit(f, s)
    BY <1>5 DEF Line!Undoes
  <2>2. CASE s.now[f] = Line!Absent
    BY <2>1, <2>2 DEF Line!Unedit, Line!Ends
  <2>3. CASE s.now[f] # Line!Absent
    <3> DEFINE end == [path |-> Line!Destination(f, s), holds |-> Line!ThreeWay(f, s), mode |-> Line!ModeOf(f, s)]
    <3>1. end \in Line!EntriesOf(f)
      BY <1>5, <2>3, PartsBack, EntryShape
    <3> HIDE DEF end
    <3>2. Line!Unedit(f, s).end \in {end, s.now[f]}
      BY <2>3 DEF Line!Unedit, Line!Laid, Line!Ends, Line!Refuse, end
    <3>3. QED  BY <1>1, <2>1, <3>1, <3>2
  <2>4. QED  BY <2>2, <2>3
<1>6. QED  BY <1>2, <1>3, <1>4, <1>5

(* A changed file of the head that is not refused gets what the three-way  *)
(* says, in a place nobody is in, and not over what the folder alone has.  *)
LEMMA EditsTakenBack ==
  ASSUME NEW f \in Tracked, NEW s,
         s.before[f] # Line!Absent, s.after[f] # Line!Absent, s.before[f] # s.after[f], s.now[f] # Line!Absent,
         ~Line!Undoes(f, s).refused
  PROVE  /\ Line!Undoes(f, s).end = [path |-> Line!Destination(f, s), holds |-> Line!ThreeWay(f, s),
                                     mode |-> Line!ModeOf(f, s)]
         /\ ~Line!Blocked(f, s)
         /\ Line!Undoes(f, s).end # s.now[f] => f \notin s.dirty
<1> DEFINE now == s.now[f]
           end == [path |-> Line!Destination(f, s), holds |-> Line!ThreeWay(f, s), mode |-> Line!ModeOf(f, s)]
           contest == \E x \in DOMAIN now.holds : Line!Contested(s.before[f].holds[x], s.after[f].holds[x], now.holds[x])
<1>1. Line!Undoes(f, s) = Line!Unedit(f, s)
  BY DEF Line!Undoes
<1>2. CASE end = now
  <2>1. Line!Unedit(f, s) = IF Line!Blocked(f, s) THEN Line!Refuse(now)
                            ELSE IF contest THEN Line!Refuse(now) ELSE Line!Ends(now)
    BY <1>2 DEF Line!Unedit
  <2>2. Line!Unedit(f, s).end = now
    BY <2>1 DEF Line!Refuse, Line!Ends
  <2>3. Line!Blocked(f, s) => Line!Unedit(f, s) = Line!Refuse(now)
    BY <2>1
  <2>4. Line!Refuse(now).refused
    BY DEF Line!Refuse
  <2>5. QED  BY <1>1, <1>2, <2>2, <2>3, <2>4
<1>3. CASE end # now
  <2>1. Line!Unedit(f, s) =
          IF Line!Blocked(f, s) \/ f \in s.dirty \/ contest THEN Line!Refuse(now)
          ELSE IF end.holds # now.holds \/ end.path # now.path THEN Line!Laid(f, end, s) ELSE Line!Ends(end)
    BY <1>3 DEF Line!Unedit
  <2>2. Line!Refuse(now).refused
    BY DEF Line!Refuse
  <2>3. ~(Line!Blocked(f, s) \/ f \in s.dirty \/ contest)
    BY <1>1, <2>1, <2>2
  <2>4. Line!Unedit(f, s) \in {Line!Laid(f, end, s), Line!Ends(end)}
    BY <2>1, <2>3
  <2>5. Line!Laid(f, end, s).end = end /\ Line!Ends(end).end = end
    BY DEF Line!Laid, Line!Refuse, Line!Ends
  <2>6. QED  BY <1>1, <2>3, <2>4, <2>5
<1>4. QED  BY <1>2, <1>3

(* A file that was added goes only if nobody has changed it since.         *)
LEMMA AddsTakenBack ==
  ASSUME NEW f \in Tracked, NEW s, s.before[f] = Line!Absent, s.after[f] # Line!Absent, ~Line!Undoes(f, s).refused
  PROVE  /\ Line!Undoes(f, s).end = Line!Absent
         /\ s.now[f] # Line!Absent => /\ s.now[f].holds = s.after[f].holds /\ s.now[f].mode = s.after[f].mode
                                 /\ f \notin s.dirty
<1>1. Line!Undoes(f, s) = Line!Unadd(f, s)
  BY DEF Line!Undoes
<1>2. CASE s.now[f] = Line!Absent
  BY <1>1, <1>2 DEF Line!Unadd, Line!Ends
<1>3. CASE s.now[f] # Line!Absent
  <2> DEFINE changed == s.now[f].holds # s.after[f].holds \/ s.now[f].mode # s.after[f].mode \/ f \in s.dirty
  <2>1. Line!Unadd(f, s) = IF changed THEN Line!Refuse(s.now[f]) ELSE Line!Ends(Line!Absent)
    BY <1>3 DEF Line!Unadd
  <2>2. Line!Refuse(s.now[f]).refused
    BY DEF Line!Refuse
  <2>3. ~changed
    BY <1>1, <2>1, <2>2
  <2>4. Line!Undoes(f, s) = Line!Ends(Line!Absent)
    BY <1>1, <2>1, <2>3
  <2>5. QED  BY <2>3, <2>4 DEF Line!Ends
<1>4. QED  BY <1>2, <1>3

(* A file that was dropped comes back where nothing has come meanwhile.    *)
LEMMA DropsTakenBack ==
  ASSUME NEW f \in Tracked, NEW s, s.before[f] # Line!Absent, s.after[f] = Line!Absent, ~Line!Undoes(f, s).refused
  PROVE  IF s.now[f] # Line!Absent THEN Line!Undoes(f, s).end = s.now[f]
         ELSE /\ Line!Undoes(f, s).end = s.before[f]
              /\ Line!At(s.now, s.before[f].path) = {} /\ s.before[f].path \notin s.strays
<1>1. Line!Undoes(f, s) = Line!Undrop(f, s)
  BY DEF Line!Undoes
<1>2. CASE s.now[f] # Line!Absent
  BY <1>1, <1>2 DEF Line!Undrop, Line!Ends
<1>3. CASE s.now[f] = Line!Absent
  <2> DEFINE taken == Line!At(s.now, s.before[f].path) # {} \/ s.before[f].path \in s.strays
  <2>1. Line!Undrop(f, s) = IF taken THEN Line!Refuse(s.now[f]) ELSE Line!Laid(f, s.before[f], s)
    BY <1>3 DEF Line!Undrop
  <2>2. Line!Refuse(s.now[f]).refused
    BY DEF Line!Refuse
  <2>3. ~taken
    BY <1>1, <2>1, <2>2
  <2>4. Line!Undoes(f, s) = Line!Laid(f, s.before[f], s)
    BY <1>1, <2>1, <2>3
  <2>5. Line!Laid(f, s.before[f], s).end = s.before[f]
    BY DEF Line!Laid, Line!Refuse, Line!Ends
  <2>6. QED  BY <1>3, <2>3, <2>4, <2>5
<1>4. QED  BY <1>2, <1>3

LEMMA UntouchedStay ==
  ASSUME NEW f, NEW s, s.before[f] = s.after[f]
  PROVE  Line!Undoes(f, s).end = s.now[f] /\ ~Line!Undoes(f, s).refused
BY DEF Line!Undoes, Line!Ends

(* Where a file ends is where the head has it, or where it was before the  *)
(* revision, and then nothing recorded or unrecorded is there.             *)
LEMMA Whereabouts ==
  ASSUME NEW f \in Tracked, NEW s, OfTrees(s), ~Line!Undoes(f, s).refused, Line!Undoes(f, s).end # Line!Absent
  PROVE  \/ s.now[f] # Line!Absent /\ Line!Undoes(f, s).end.path = s.now[f].path
         \/ /\ s.before[f] # Line!Absent /\ Line!Undoes(f, s).end.path = s.before[f].path
            /\ Line!At(s.now, s.before[f].path) = {} /\ s.before[f].path \notin s.strays
<1>1. CASE s.before[f] = s.after[f]
  BY <1>1, UntouchedStay
<1>2. CASE s.before[f] = Line!Absent /\ s.after[f] # Line!Absent
  BY <1>2, AddsTakenBack
<1>3. CASE s.before[f] # Line!Absent /\ s.after[f] = Line!Absent
  BY <1>3, DropsTakenBack
<1>4. CASE s.before[f] # Line!Absent /\ s.after[f] # Line!Absent /\ s.before[f] # s.after[f]
  <2>1. CASE s.now[f] = Line!Absent
    BY <1>4, <2>1 DEF Line!Undoes, Line!Unedit, Line!Ends
  <2>2. CASE s.now[f] # Line!Absent
    <3>1. /\ Line!Undoes(f, s).end = [path |-> Line!Destination(f, s), holds |-> Line!ThreeWay(f, s),
                                     mode |-> Line!ModeOf(f, s)]
          /\ ~Line!Blocked(f, s)
      BY <1>4, <2>2, EditsTakenBack
    <3>2. Line!Undoes(f, s).end.path = Line!Destination(f, s) /\ ~Line!Blocked(f, s)
      BY <3>1
    <3>3. Line!Destination(f, s) = s.now[f].path \/ Line!Destination(f, s) = s.before[f].path
      BY DEF Line!Destination
    <3>4. Line!Destination(f, s) # s.now[f].path =>
            Line!At(s.now, Line!Destination(f, s)) = {} /\ Line!Destination(f, s) \notin s.strays
      BY <3>2 DEF Line!Blocked
    <3>5. QED  BY <1>4, <2>2, <3>2, <3>3, <3>4
  <2>3. QED  BY <2>1, <2>2
<1>5. QED  BY <1>1, <1>2, <1>3, <1>4
-----------------------------------------------------------------------------
(* An undoing that is not refused leaves a tree: a file that comes back     *)
(* finds its place free, two that come back were apart before, and every    *)
(* link was pointed.                                                        *)
LEMMA LeavesATree ==
  ASSUME NEW s, OfTrees(s), ~Line!Refused(s)
  PROVE  Line!Result(s) \in Line!Trees
<1> DEFINE t == Line!Result(s)
<1>1. \A f \in Tracked : t[f] = Line!Undoes(f, s).end /\ ~Line!Undoes(f, s).refused
  BY DEF Line!Result, Line!Refused
<1>2. ASSUME NEW f \in Tracked, NEW g \in Tracked, t[f] # Line!Absent, t[g].path = t[f].path
      PROVE  f = g
  <2>1. t[f] \in Line!EntriesOf(f) /\ t[f].path \in Places
    <3>1. t[f] \in Line!EntriesOf(f)
      BY <1>1, <1>2, EndsAreEntries
    <3>2. QED  BY <3>1, EntryShape
  <2>2. t[g] # Line!Absent
    BY <1>2, <2>1, PlacesAssumption DEF Line!Absent
  <2>3. \/ s.now[f] # Line!Absent /\ t[f].path = s.now[f].path
        \/ s.before[f] # Line!Absent /\ t[f].path = s.before[f].path /\ Line!At(s.now, t[f].path) = {}
    BY <1>1, <1>2, Whereabouts
  <2>4. \/ s.now[g] # Line!Absent /\ t[g].path = s.now[g].path
        \/ s.before[g] # Line!Absent /\ t[g].path = s.before[g].path /\ Line!At(s.now, t[g].path) = {}
    BY <1>1, <2>2, Whereabouts
  <2>5. CASE t[f].path = s.now[f].path /\ t[g].path = s.now[g].path /\ s.now[f] # Line!Absent
    BY <1>2, <2>5, TreesAreTrees DEF OfTrees
  <2>6. CASE t[f].path = s.now[f].path /\ Line!At(s.now, t[g].path) = {}
    BY <1>2, <2>6 DEF Line!At
  <2>7. CASE t[g].path = s.now[g].path /\ Line!At(s.now, t[f].path) = {}
    BY <1>2, <2>7 DEF Line!At
  <2>8. CASE s.before[f] # Line!Absent /\ t[f].path = s.before[f].path /\ t[g].path = s.before[g].path
    BY <1>2, <2>8, TreesAreTrees DEF OfTrees
  <2>9. QED  BY <2>3, <2>4, <2>5, <2>6, <2>7, <2>8
<1>3. ASSUME NEW f \in Tracked, t[f] # Line!Absent, Kinds[f] = "link"
      PROVE  t[Line!Named(t, f)] # Line!Absent
  BY <1>3 DEF Line!Refused, Line!Unpointed
<1>4. Line!IsTree(t)
  BY <1>2, <1>3 DEF Line!IsTree
<1>5. t = [f \in Tracked |-> t[f]]
  BY DEF Line!Result
<1>6. \A f \in Tracked : t[f] \in Line!EntriesOf(f) \cup {Line!Absent}
  BY <1>1, EndsAreEntries
<1> HIDE DEF t
<1>7. t \in Line!Trees
  BY <1>4, <1>5, <1>6, TreeFromEntries
<1>8. QED  BY <1>7 DEF t

(* What an undoing gives back of a file is its revision's to give.         *)
LEMMA TakesItsOwn ==
  ASSUME NEW s, OfTrees(s), ~Line!Refused(s), NEW f \in Tracked, NEW e, e = Line!Result(s)[f]
  PROVE  /\ s.now[f] = Line!Absent /\ e # Line!Absent => s.before[f] = e /\ s.after[f] = Line!Absent
         /\ s.now[f] # Line!Absent /\ e = Line!Absent =>
              s.before[f] = Line!Absent /\ s.now[f].holds = s.after[f].holds /\ s.now[f].mode = s.after[f].mode
         /\ s.now[f] # Line!Absent /\ e # Line!Absent /\ s.before[f] # Line!Absent /\ s.after[f] # Line!Absent =>
              /\ e.path = IF s.after[f].path = s.now[f].path THEN s.before[f].path ELSE s.now[f].path
              /\ e.mode = IF s.after[f].mode = s.now[f].mode THEN s.before[f].mode ELSE s.now[f].mode
              /\ \A x \in DOMAIN s.now[f].holds :
                   e.holds[x] = IF s.after[f].holds[x] = s.now[f].holds[x]
                                THEN s.before[f].holds[x] ELSE s.now[f].holds[x]
<1>1. e = Line!Undoes(f, s).end /\ ~Line!Undoes(f, s).refused
  BY DEF Line!Result, Line!Refused
<1>2. CASE s.before[f] = s.after[f]
  <2>1. e = s.now[f]
    BY <1>1, <1>2, UntouchedStay
  <2>2. QED  BY <1>2, <2>1
<1>3. CASE s.before[f] = Line!Absent /\ s.after[f] # Line!Absent
  BY <1>1, <1>3, AddsTakenBack
<1>4. CASE s.before[f] # Line!Absent /\ s.after[f] = Line!Absent
  BY <1>1, <1>4, DropsTakenBack
<1>5. CASE s.before[f] # Line!Absent /\ s.after[f] # Line!Absent /\ s.before[f] # s.after[f]
  <2>1. CASE s.now[f] = Line!Absent
    <3>1. e = Line!Absent
      BY <1>1, <1>5, <2>1 DEF Line!Undoes, Line!Unedit, Line!Ends
    <3>2. QED  BY <2>1, <3>1
  <2>2. CASE s.now[f] # Line!Absent
    <3>1. e = [path |-> Line!Destination(f, s), holds |-> Line!ThreeWay(f, s), mode |-> Line!ModeOf(f, s)]
      BY <1>1, <1>5, <2>2, EditsTakenBack
    <3>2. e # Line!Absent
      <4>1. e.path \in Places
        BY <1>5, <2>2, <3>1, PartsBack
      <4>2. QED  BY <4>1, PlacesAssumption DEF Line!Absent
    <3>3. e.path = IF s.after[f].path = s.now[f].path THEN s.before[f].path ELSE s.now[f].path
      BY <3>1 DEF Line!Destination
    <3>4. e.mode = IF s.after[f].mode = s.now[f].mode THEN s.before[f].mode ELSE s.now[f].mode
      BY <3>1 DEF Line!ModeOf, Line!Part
    <3>5. \A x \in DOMAIN s.now[f].holds :
            e.holds[x] = IF s.after[f].holds[x] = s.now[f].holds[x]
                         THEN s.before[f].holds[x] ELSE s.now[f].holds[x]
      BY <1>5, <2>2, <3>1, PartsBack
    <3>6. QED  BY <2>2, <3>2, <3>3, <3>4, <3>5
  <2>3. QED  BY <2>1, <2>2
<1>6. QED  BY <1>2, <1>3, <1>4, <1>5

(* Nothing that is in the folder alone is written over.                    *)
LEMMA SparesTheFolder ==
  ASSUME NEW s, OfTrees(s), ~Line!Refused(s), NEW f \in Tracked, NEW e, e = Line!Result(s)[f], e # s.now[f]
  PROVE  /\ s.now[f] # Line!Absent => f \notin s.dirty
         /\ e # Line!Absent /\ e.path # s.now[f].path => e.path \notin s.strays
<1>1. e = Line!Undoes(f, s).end /\ ~Line!Undoes(f, s).refused
  BY DEF Line!Result, Line!Refused
<1>2. e # Line!Absent /\ e.path # s.now[f].path => e.path \notin s.strays
  BY <1>1, Whereabouts
<1>3. ASSUME s.now[f] # Line!Absent PROVE f \notin s.dirty
  <2>1. CASE s.before[f] = s.after[f]
    BY <1>1, <2>1, UntouchedStay
  <2>2. CASE s.before[f] = Line!Absent /\ s.after[f] # Line!Absent
    BY <1>1, <1>3, <2>2, AddsTakenBack
  <2>3. CASE s.before[f] # Line!Absent /\ s.after[f] = Line!Absent
    BY <1>1, <1>3, <2>3, DropsTakenBack
  <2>4. CASE s.before[f] # Line!Absent /\ s.after[f] # Line!Absent /\ s.before[f] # s.after[f]
    BY <1>1, <1>3, <2>4, EditsTakenBack
  <2>5. QED  BY <2>1, <2>2, <2>3, <2>4
<1>4. QED  BY <1>2, <1>3
-----------------------------------------------------------------------------
\* What stands in the way of undoing the head: one of two files where the
\* other was, or bytes that are not here.
PlaceTaken(s) ==
  \E f, g \in Tracked : /\ f # g /\ s.before[f] # Line!Absent /\ s.after[g] # Line!Absent
                         /\ s.before[f].path = s.after[g].path
BytesGone(s) ==
  \E f \in Tracked : Kinds[f] = "whole" /\ s.before[f] # Line!Absent /\ s.before[f].holds["whole"] \notin s.payloads

(* With the head itself undone in a folder that holds it, every file ends  *)
(* as it was before, unless its place is taken or its bytes are gone.      *)
LEMMA HeadGoesBack ==
  ASSUME NEW s, OfTrees(s), s.after = s.now, s.strays = {}, s.dirty = {},
         ~PlaceTaken(s), ~BytesGone(s), NEW f \in Tracked
  PROVE  Line!Undoes(f, s) = Line!Ends(s.before[f])
<1>1. CASE s.before[f] = s.after[f]
  BY <1>1 DEF Line!Undoes
<1>2. CASE s.before[f] = Line!Absent /\ s.after[f] # Line!Absent
  BY <1>2 DEF Line!Undoes, Line!Unadd
<1>3. ASSUME s.before[f] # Line!Absent
      PROVE  /\ s.before[f].path \in Places /\ s.before[f].path # "none"
             /\ \A g \in Tracked : g # f /\ s.now[g] # Line!Absent => s.now[g].path # s.before[f].path
             /\ \A e : e.holds = s.before[f].holds => Line!Laid(f, e, s) = Line!Ends(e)
  <2>1. s.before[f].path \in Places /\ s.before[f].path # "none"
    BY <1>3, InTrees DEF OfTrees
  <2>2. ASSUME NEW g \in Tracked, g # f, s.now[g] # Line!Absent PROVE s.now[g].path # s.before[f].path
    BY <1>3, <2>2 DEF PlaceTaken
  <2>3. ASSUME NEW e, e.holds = s.before[f].holds PROVE Line!Laid(f, e, s) = Line!Ends(e)
    <3>1. Kinds[f] = "whole" => s.before[f].holds["whole"] \in s.payloads
      BY <1>3 DEF BytesGone
    <3>2. QED  BY <2>3, <3>1 DEF Line!Laid
  <2>4. QED  BY <2>1, <2>2, <2>3
<1>4. ASSUME s.before[f] # Line!Absent, s.now[f].path # s.before[f].path
      PROVE  Line!At(s.now, s.before[f].path) = {}
  <2>1. \A g \in Tracked : s.now[g].path # s.before[f].path
    BY <1>3, <1>4, InTrees DEF OfTrees
  <2>2. QED  BY <2>1 DEF Line!At
<1>5. CASE s.before[f] # Line!Absent /\ s.after[f] = Line!Absent
  <2>1. Line!Undoes(f, s) = Line!Undrop(f, s) /\ s.now[f] = Line!Absent
    BY <1>5 DEF Line!Undoes
  <2>2. Line!At(s.now, s.before[f].path) = {}
    BY <1>3, <1>4, <1>5, <2>1 DEF Line!Absent
  <2>3. Line!Undrop(f, s) = Line!Laid(f, s.before[f], s)
    BY <2>1, <2>2 DEF Line!Undrop
  <2>4. QED  BY <1>3, <1>5, <2>1, <2>3
<1>6. CASE s.before[f] # Line!Absent /\ s.after[f] # Line!Absent /\ s.before[f] # s.after[f]
  <2> DEFINE now == s.now[f]
             end == [path |-> Line!Destination(f, s), holds |-> Line!ThreeWay(f, s), mode |-> Line!ModeOf(f, s)]
  <2>1. Line!Undoes(f, s) = Line!Unedit(f, s) /\ now # Line!Absent /\ now = s.after[f]
    BY <1>6 DEF Line!Undoes
  <2>2. Line!Destination(f, s) = s.before[f].path /\ Line!ModeOf(f, s) = s.before[f].mode
    BY <2>1 DEF Line!Destination, Line!ModeOf, Line!Part
  <2>3. /\ s.before[f] \in Line!EntriesOf(f)
        /\ s.before[f] = [path |-> s.before[f].path, holds |-> s.before[f].holds, mode |-> s.before[f].mode]
        /\ s.before[f].holds \in [PartsOf(f) -> ValuesOf(f)]
    <3>1. s.before[f] \in Line!EntriesOf(f)
      BY <1>6, InTrees DEF OfTrees
    <3>2. QED  BY <3>1, EntryShape
  <2>4. Line!ThreeWay(f, s) = s.before[f].holds
    <3>1. /\ DOMAIN now.holds = PartsOf(f)
          /\ Line!ThreeWay(f, s) \in [PartsOf(f) -> ValuesOf(f)]
          /\ \A x \in PartsOf(f) : Line!ThreeWay(f, s)[x] = s.before[f].holds[x]
      BY <1>6, <2>1, PartsBack
    <3>2. QED  BY <2>3, <3>1
  <2>5. end = s.before[f]
    BY <2>2, <2>3, <2>4
  <2>6. ~Line!Blocked(f, s)
    BY <1>4, <1>6, <2>2 DEF Line!Blocked
  <2>7. ~\E x \in DOMAIN now.holds : Line!Contested(s.before[f].holds[x], s.after[f].holds[x], now.holds[x])
    BY <2>1 DEF Line!Contested
  <2>8. end # now
    BY <1>6, <2>1, <2>5
  <2>9. Line!Unedit(f, s) =
          IF end.holds # now.holds \/ end.path # now.path THEN Line!Laid(f, end, s) ELSE Line!Ends(end)
    BY <2>1, <2>6, <2>7, <2>8 DEF Line!Unedit
  <2>10. Line!Laid(f, end, s) = Line!Ends(end)
    BY <1>3, <1>6, <2>4
  <2>11. QED  BY <2>1, <2>5, <2>9, <2>10
<1>7. QED  BY <1>1, <1>2, <1>5, <1>6

(* And so the head is undone: what it leaves is the tree before it, whose  *)
(* links name files it holds.                                              *)
LEMMA HeadCanBeUndone ==
  ASSUME NEW s, OfTrees(s), s.after = s.now, s.strays = {}, s.dirty = {}, Line!Refused(s)
  PROVE  PlaceTaken(s) \/ BytesGone(s)
<1> SUFFICES ASSUME ~PlaceTaken(s), ~BytesGone(s) PROVE FALSE
  OBVIOUS
<1>1. \A f \in Tracked : Line!Undoes(f, s) = Line!Ends(s.before[f])
  BY HeadGoesBack
<1>2. \A f \in Tracked : ~Line!Undoes(f, s).refused /\ Line!Result(s)[f] = s.before[f]
  <2>1. \A e : Line!Ends(e).end = e /\ ~Line!Ends(e).refused
    BY DEF Line!Ends
  <2>2. QED  BY <1>1, <2>1 DEF Line!Result
<1>3. PICK f \in Tracked :
        /\ Line!Result(s)[f] # Line!Absent /\ Kinds[f] = "link" /\ f \notin s.dirty
        /\ Line!Result(s)[Line!Named(Line!Result(s), f)] = Line!Absent
  BY <1>2 DEF Line!Refused, Line!Unpointed
<1>4. Line!Named(Line!Result(s), f) = Line!Named(s.before, f)
  BY <1>2 DEF Line!Named
<1>5. Line!Named(s.before, f) \in Tracked
  <2>1. s.before[f].holds \in [PartsOf(f) -> ValuesOf(f)]
    BY <1>2, <1>3, InTrees, EntryShape DEF OfTrees
  <2>2. QED  BY <1>3, <2>1 DEF PartsOf, ValuesOf, Line!Named
<1>6. s.before[Line!Named(s.before, f)] = Line!Absent
  BY <1>2, <1>3, <1>4, <1>5
<1>7. QED  BY <1>2, <1>3, <1>6, TreesAreTrees DEF OfTrees
-----------------------------------------------------------------------------
(* The sides of an undoing are trees of the line, or the empty one.        *)
LEMMA SidesAreTrees ==
  ASSUME Line!TypeOK, NEW n \in 1 .. Len(trees), NEW strays, NEW dirty
  PROVE  OfTrees(Line!Sides(n, strays, dirty))
<1>1. \A m \in 1 .. Len(trees) : trees[m] \in Line!Trees
  BY DEF Line!TypeOK
<1>2. Len(trees) \in Nat
  BY DEF Line!TypeOK
<1>3. \A m \in 0 .. Len(trees) : Line!Tree(m) \in Line!Trees
  BY <1>1, <1>2, EmptyIsATree DEF Line!Tree
<1>4. n - 1 \in 0 .. Len(trees) /\ n \in 0 .. Len(trees) /\ Len(trees) \in 0 .. Len(trees)
  BY <1>2
<1>5. QED  BY <1>3, <1>4 DEF OfTrees, Line!Sides

LEMMA UndoingsOfTrees ==
  ASSUME Line!TypeOK, NEW s \in Line!Undoings
  PROVE  OfTrees(s)
BY SidesAreTrees DEF Line!Undoings

LEMMA LineBegins == Line!Init => Line!TypeOK
BY MaxRevisionsAssumption DEF Line!Init, Line!TypeOK

LEMMA LineContinues == Line!TypeOK /\ [Line!Next]_(Line!vars) => Line!TypeOK'
<1> SUFFICES ASSUME Line!TypeOK, [Line!Next]_(Line!vars) PROVE Line!TypeOK'
  OBVIOUS
<1>1. ASSUME NEW t \in Line!Trees, Len(trees) < MaxRevisions, trees' = Append(trees, t), UNCHANGED payloads
      PROVE  Line!TypeOK'
  BY <1>1, MaxRevisionsAssumption DEF Line!TypeOK
<1>2. CASE Line!Record
  BY <1>1, <1>2 DEF Line!Record
<1>3. CASE Line!Undo
  <2>1. PICK n \in 1 .. Len(trees) :
          ~Line!Refused(Line!Sides(n, {}, {})) /\ trees' = Append(trees, Line!Result(Line!Sides(n, {}, {})))
    BY <1>3 DEF Line!Undo
  <2>2. Line!Result(Line!Sides(n, {}, {})) \in Line!Trees
    BY <2>1, SidesAreTrees, LeavesATree
  <2>3. QED  BY <1>1, <1>3, <2>1, <2>2 DEF Line!Undo
<1>4. CASE UNCHANGED Line!vars
  BY <1>4 DEF Line!vars, Line!TypeOK
<1>5. QED  BY <1>2, <1>3, <1>4 DEF Line!Next
-----------------------------------------------------------------------------
(* The invariants hold of each component in every behaviour of its own.    *)
THEOREM FolderInvariance == Spec => []FolderInv
BY Begins, Continues, PTL DEF Spec

(* No stamp of a survey is later than the clock (working/catalogue.rs,     *)
(* nanoseconds and believed).                                              *)
THEOREM SurveyInvariance == Surveys!Spec => []SurveyInv
BY SurveysBegin, SurveysContinue, PTL DEF Surveys!Spec

(* A line holds trees: recording adds one, and so does undoing (revert.rs). *)
THEOREM LinesHoldTrees == Line!Spec => []Line!TypeOK
BY LineBegins, LineContinues, PTL DEF Line!Spec

(* What holds of each component, in the behaviours that are of it.         *)
WorkingFolderInv ==
  /\ part = "folder" => FolderInv
  /\ part = "working" => SurveyInv
  /\ part = "reverting" => Line!TypeOK

(* The inductive invariant, of every behaviour of any of the three.        *)
THEOREM Invariance == MCSpec => []WorkingFolderInv
<1>1. MCInit => WorkingFolderInv
  BY Begins, SurveysBegin, LineBegins DEF MCInit, WorkingFolderInv
<1>2. WorkingFolderInv /\ [MCNext]_<<part, vars, surveysVars, lineVars>> => WorkingFolderInv'
  <2> SUFFICES ASSUME WorkingFolderInv, [MCNext]_<<part, vars, surveysVars, lineVars>>
               PROVE  WorkingFolderInv'
    OBVIOUS
  <2>1. part' = part
    BY DEF MCNext
  <2>2. part = "folder" => [Next]_vars
    BY DEF MCNext
  <2>3. part = "working" => [Surveys!Next]_(Surveys!vars)
    BY DEF MCNext, Surveys!vars, surveysVars
  <2>4. part = "folder" => FolderInv'
    BY <2>2, Continues DEF WorkingFolderInv
  <2>5. part = "working" => SurveyInv'
    BY <2>3, SurveysContinue DEF WorkingFolderInv
  <2>6. part = "reverting" => [Line!Next]_(Line!vars)
    BY DEF MCNext, Line!vars, lineVars
  <2>7. part = "reverting" => Line!TypeOK'
    BY <2>6, LineContinues DEF WorkingFolderInv
  <2>8. QED  BY <2>1, <2>4, <2>5, <2>7 DEF WorkingFolderInv
<1>3. QED  BY <1>1, <1>2, PTL DEF MCSpec

(* An update writes over, or takes away, nothing it had looked at that the *)
(* store does not hold or nobody raced it to; where nobody edited, one     *)
(* that ends well leaves the folder as the head has it, and one that       *)
(* refuses does so for something in its way (update.rs).                   *)
THEOREM UpdatesKept == MCSpec => []UpdatesLoseNothing
<1>1. WorkingFolderInv => UpdatesLoseNothing
  BY Promised DEF WorkingFolderInv, UpdatesLoseNothing
<1>2. QED  BY <1>1, Invariance, PTL

(* A survey is wrong about a file, and a command loses what a person wrote *)
(* before it, only where the person wrote while a survey was between       *)
(* looking and acting: the racy-mtime rule of working/catalogue.rs closes  *)
(* every other window.                                                     *)
THEOREM BelievedRightly == MCSpec => []SurveysAreBelievedRightly
<1>1. WorkingFolderInv => SurveysAreBelievedRightly
  BY DEF WorkingFolderInv, SurveyInv, SurveysAreBelievedRightly, Surveys!SurveysAreBelievedRightly
<1>2. QED  BY <1>1, Invariance, PTL

(* In any line of trees, with any files, passages and folder: undoing any   *)
(* revision leaves a tree, takes back its own and nothing else, and spares  *)
(* what the folder alone has; and the head can be undone unless its place   *)
(* is taken or its bytes are gone.                                          *)
THEOREM UndoingIsRight == MCSpec => []RevertsTakeTheirOwn
<1>1. Line!TypeOK => Line!UndoingLeavesATree
  BY UndoingsOfTrees, LeavesATree DEF Line!UndoingLeavesATree, Line!Trees
<1>2. Line!TypeOK => Line!UndoingTakesItsOwn
  BY UndoingsOfTrees, TakesItsOwn DEF Line!UndoingTakesItsOwn
<1>3. Line!TypeOK => Line!UndoingSparesTheFolder
  BY UndoingsOfTrees, SparesTheFolder DEF Line!UndoingSparesTheFolder
<1>4. Line!TypeOK => Line!TheHeadCanBeUndone
  <2> SUFFICES ASSUME Line!TypeOK, trees # <<>>, Line!Refused(Line!Sides(Len(trees), {}, {}))
      PROVE  \/ \E f, g \in Tracked : /\ f # g /\ Line!Tree(Len(trees) - 1)[f] # Line!Absent
                                      /\ Line!Tree(Len(trees))[g] # Line!Absent
                                      /\ Line!Tree(Len(trees) - 1)[f].path = Line!Tree(Len(trees))[g].path
             \/ \E f \in Tracked : /\ Kinds[f] = "whole" /\ Line!Tree(Len(trees) - 1)[f] # Line!Absent
                                   /\ Line!Tree(Len(trees) - 1)[f].holds["whole"] \notin payloads
    BY DEF Line!TheHeadCanBeUndone, Line!Sides
  <2> DEFINE s == Line!Sides(Len(trees), {}, {})
  <2>1. Len(trees) \in 1 .. Len(trees)
    BY DEF Line!TypeOK
  <2>2. OfTrees(s)
    BY <2>1, SidesAreTrees
  <2>3. s.after = s.now /\ s.strays = {} /\ s.dirty = {}
    BY DEF Line!Sides
  <2> HIDE DEF s
  <2>4. PlaceTaken(s) \/ BytesGone(s)
    BY <2>2, <2>3, HeadCanBeUndone DEF s
  <2>5. QED  BY <2>4 DEF s, Line!Sides, PlaceTaken, BytesGone
<1>5. Line!TypeOK => Line!RevertsTakeTheirOwn
  BY <1>1, <1>2, <1>3, <1>4 DEF Line!RevertsTakeTheirOwn
<1>6. WorkingFolderInv => RevertsTakeTheirOwn
  BY <1>5 DEF WorkingFolderInv, RevertsTakeTheirOwn
<1>7. QED  BY <1>6, Invariance, PTL
=============================================================================
