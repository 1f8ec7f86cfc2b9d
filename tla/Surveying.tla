------------------------------ MODULE Surveying ------------------------------
(***************************************************************************)
(* The file set a history leaves behind (tree.rs), and what recording a    *)
(* folder states about it (record/mod.rs): a survey compares the folder    *)
(* with the tree of the parents, a plan turns what it found into facts     *)
(* about files, and `record`, `amend` and `merge` are the commands that    *)
(* run them.  There are no directories: every path stands at the root, so  *)
(* a link's spelling is the path it names, or `Out`, which names nothing   *)
(* this history holds.  The lower digest of two revisions is the one       *)
(* recorded first.                                                         *)
(***************************************************************************)
EXTENDS Naturals, Sequences, SequencesExt, Functions

CONSTANTS
    Paths,       \* where a file may sit
    Texts,       \* contents that are lines
    Blobs,       \* contents that are not
    Out,         \* a link's target outside this history's reach
    Marked,      \* a rendering that holds lines the merge wrote
    MaxRevs,     \* revisions ever recorded: a bound
    Scenes       \* what a person does, and how much of it: a bound

VARIABLES
    rev,       \* the revisions, in the order they were recorded
    at,        \* the revisions the folder was laid out from
    folder,    \* what stands at each path that holds something
    lacks,     \* the payloads another copy holds and this store does not
    touched,   \* the paths a person changed since the folder was laid out
    touches,   \* how many changes a person has made
    scene      \* what a person does here: fixed when the history begins

vars == <<rev, at, folder, lacks, touched, touches, scene>>

Does(act) == act \in scene.does

Nothing == [x \in {} |-> x]
Built(g) == g @@ Nothing    \* the same function, which TLC evaluates once
None == <<>>
Nowhere == <<"nowhere">>

\* Where a merge puts a file beside a path another file keeps.
Aside(f) == <<f[1], f[2], "beside">>
Everywhere == Paths \cup {Aside(<<i, p>>) : i \in 1 .. MaxRevs, p \in Paths}

\* What stands at a path: a file and its executable bit, or a link.
Filed(holds, runs) == [is |-> "file", holds |-> holds, runs |-> runs]
Linked(spells)     == [is |-> "link", spells |-> spells]

-----------------------------------------------------------------------------
(* The file set at some heads. *)

Revs == 1 .. Len(rev)

\* A revision's past is itself and everything it stands on.
Seen(H) == UNION {rev[h].past : h \in H}
Before(i, j) == i # j /\ i \in rev[j].past

\* Heads: what nothing stands on and nothing rewrote.
Heads == {i \in Revs : \A j \in Revs : i \notin rev[j].on /\ rev[j].over # i}

Places(i) == rev[i].added @@ rev[i].moved

\* A revision that says the file matters.
Touching(i, f) ==
    f \in UNION {DOMAIN Places(i), DOMAIN rev[i].modes, DOMAIN rev[i].text,
                 DOMAIN rev[i].bytes, DOMAIN rev[i].links}

\* The statements of one kind about a file that nothing later replaced.
Current(H, f, Stated(_)) ==
    LET stating == {i \in Seen(H) : f \in DOMAIN Stated(i)}
    IN  {i \in stating : \A j \in stating : ~Before(i, j)}
Lowest(S) == CHOOSE i \in S : \A j \in S : i <= j

\* A drop wins only where nothing concurrent says the file matters.
Gone(H, f) ==
    \E d \in Seen(H) :
        /\ f \in rev[d].dropped
        /\ \A t \in Seen(H) : Touching(t, f) /\ t # d => Before(t, d)

KindOf(H, f) ==
    LET adding == CHOOSE i \in Seen(H) : f \in DOMAIN rev[i].added
    IN  IF f \in DOMAIN rev[adding].links THEN "link"
        ELSE IF f \in DOMAIN rev[adding].bytes THEN "whole" ELSE "lines"

EntryOf(H, f) ==
    LET Bytes(i) == rev[i].bytes
        Modes(i) == rev[i].modes
        Links(i) == rev[i].links
        placing  == Lowest(Current(H, f, Places))
        stating  == Current(H, f, Bytes)
        moding   == Current(H, f, Modes)
        pointing == Current(H, f, Links)
    IN  [path    |-> Places(placing)[f],
         kind    |-> KindOf(H, f),
         payload |-> IF Cardinality(stating) = 1
                       THEN rev[Lowest(stating)].bytes[f] ELSE None,
         runs    |-> moding # {} /\ rev[Lowest(moding)].modes[f],
         target  |-> IF pointing = {} THEN Nowhere
                       ELSE rev[Lowest(pointing)].links[f]]

\* The file a link's target is a reference to.
Refers(target) == IF target[1] = "ref" THEN {target[2]} ELSE {}

\* Files a drop took that a surviving link still names come back, and so do
\* the files those name.
RECURSIVE Raised(_, _)
Raised(alive, entries) ==
    LET named == UNION {Refers(entries[f].target) : f \in alive}
                     \cap DOMAIN entries
    IN  IF named \subseteq alive THEN alive ELSE Raised(alive \cup named, entries)

Known(H) == UNION {DOMAIN rev[i].added : i \in Seen(H)}
Surviving(H) == {f \in Known(H) : ~Gone(H, f)}

Tree(H) ==
    LET entries == Built([f \in Known(H) |-> EntryOf(H, f)])
    IN  Built(Restrict(entries, Raised(Surviving(H), entries)))

\* Files the tree holds only because a link names them.
Buried(H) == DOMAIN Tree(H) \ Surviving(H)

\* What a link at this tree spells.
Spelled(tree, target) ==
    CASE target[1] = "at"  -> target[2]
      [] target[1] = "ref" -> IF target[2] \in DOMAIN tree
                                THEN tree[target[2]].path ELSE None
      [] OTHER -> None

\* The text one revision leaves a file of lines: what the nearest revision
\* stating it says, and what its parents agree on where it says nothing.
RECURSIVE TextAt(_, _)
TextAt(i, f) ==
    IF f \in DOMAIN rev[i].text THEN {rev[i].text[f]}
    ELSE UNION {TextAt(j, f) : j \in rev[i].on}

-----------------------------------------------------------------------------
(* The survey.  `v` is what one is asked: the parents, where a person says  *)
(* files sit, the paths to look at, the kinds stated, and what the folder   *)
(* was laid out from.                                                       *)

Asked(on, sits, only, kinds, laid, stands) ==
    LET tree == Tree(on)
    IN  [on |-> on, sits |-> sits, only |-> only, kinds |-> kinds,
         laid |-> laid, tree |-> tree, folder |-> stands,
         placed |-> sits @@ [f \in DOMAIN tree |-> tree[f].path]]

Joining(v) == Cardinality(v.on) > 1
Claiming(v, p) == {f \in DOMAIN v.placed : v.placed[f] = p}
Unsettled(v) == {p \in v.only : Cardinality(Claiming(v, p)) > 1}
Held(v) == {p \in v.only : Cardinality(Claiming(v, p)) = 1}
Who(v, p) == CHOOSE f \in Claiming(v, p) : TRUE

Walked_All(v) == DOMAIN v.folder \ Unsettled(v)
Walked(v) == (v.only \cap DOMAIN v.folder) \ Unsettled(v)
IsLink(v, p) == v.folder[p].is = "link"

\* A path that changed between a link and a file is a drop and an add.
Swapped(v) ==
    {p \in Walked(v) \cap Held(v) :
        IsLink(v, p) # (v.tree[Who(v, p)].kind = "link")}
Added(v) == (Walked(v) \ Held(v)) \cup Swapped(v)
Kept(v)  == Walked(v) \ Added(v)

Observed_Running(v) ==
    LET files == {p \in Walked(v) : ~IsLink(v, p)}
    IN  Built([p \in {q \in files : v.folder[q].runs} |-> TRUE])

Observed(v) ==
    LET files == {p \in Walked(v) : ~IsLink(v, p)}
        recorded(p) == p \in Kept(v) /\ v.tree[Who(v, p)].runs
    IN  Built([p \in {q \in files : v.folder[q].runs # recorded(q)} |->
                 v.folder[p].runs])

\* The kind an added file is: what a person said, or what its bytes say.
Sniffed(v, p) ==
    IF p \in DOMAIN v.kinds THEN v.kinds[p]
    ELSE IF v.folder[p].holds \in Blobs THEN "whole" ELSE "lines"

KindAt(v, p) ==
    IF IsLink(v, p) THEN "link"
    ELSE IF p \in Added(v) THEN Sniffed(v, p) ELSE v.tree[Who(v, p)].kind

Wholes(v) ==
    LET recorded(p) == IF p \in Added(v) THEN None ELSE v.tree[Who(v, p)].payload
        stated == {p \in Walked(v) : /\ KindAt(v, p) = "whole"
                                     /\ v.folder[p].holds # recorded(p)}
    IN  Built([p \in stated |-> v.folder[p].holds])

\* What the parents each leave a file of lines.
Left(v, p) == {TextAt(i, Who(v, p)) : i \in v.on} \ {{}}

Stating(i) == rev[i].text

\* Two texts stated apart meet: the walk renders them fenced.
Meets(H, f) ==
    Cardinality({rev[i].text[f] : i \in Current(H, f, Stating)}) > 1
Merged(H, f) == rev[Lowest(Current(H, f, Stating))].text[f]

Written_BeyondTheWalk(v) ==
    LET lines == {p \in Walked(v) : KindAt(v, p) = "lines"}
        same  == {p \in lines \cap Kept(v) : Merged(v.on, Who(v, p)) = v.folder[p].holds}
    IN  Built([p \in lines \ same |-> v.folder[p].holds])

\* A path whose parents differ owes a resolution, whether or not the folder
\* holds what the walk would have proposed; any other states what changed.
Written(v) ==
    LET lines  == {p \in Walked(v) : KindAt(v, p) = "lines"}
        agreed == {p \in lines \cap Kept(v) : Cardinality(Left(v, p)) = 1}
        same   == {p \in agreed : Left(v, p) = {{v.folder[p].holds}}}
    IN  Built([p \in lines \ same |-> v.folder[p].holds])

Standing(v) ==
    {p \in DOMAIN Written(v) : /\ Joining(v)
                               /\ p \in Kept(v)
                               /\ Meets(v.on, Who(v, p))
                               /\ v.folder[p].holds = Marked}

\* Contested bytes: the tree holds the file and no payload for it.
Divided(v) ==
    {p \in Held(v) \ Swapped(v) :
        /\ v.tree[Who(v, p)].kind = "whole"
        /\ v.tree[Who(v, p)].payload = None}

Lacking_Never(v, f) == FALSE

\* A file of bytes the folder lacks, where the revision the folder was laid
\* out from names a payload this store does not hold: nobody removed it.
Absent(v) == {f \in DOMAIN v.placed : v.placed[f] \in v.only \ DOMAIN v.folder}
Lacking(v, f) ==
    /\ v.only = Everywhere
    /\ v.tree[f].kind = "whole" => v.tree[f].payload # None
    /\ f \in DOMAIN v.laid
    /\ v.laid[f].kind = "whole"
    /\ v.laid[f].payload \in lacks
Elsewhere(v) ==
    {f \in Absent(v) : Lacking(v, f) /\ v.tree[f].payload = v.laid[f].payload}
Unstatable(v) ==
    \/ \E f \in Absent(v) : Lacking(v, f) /\ v.tree[f].payload # v.laid[f].payload
    \/ \E f \in DOMAIN v.laid \ DOMAIN v.placed :
          /\ v.laid[f].path \in v.only \ DOMAIN v.folder
          /\ v.laid[f].payload \in lacks

Dropped(v) ==
    {Who(v, p) : p \in Swapped(v)} \cup {f \in Absent(v) : ~Lacking(v, f)}

-----------------------------------------------------------------------------
(* What the survey makes of the links. *)

\* The paths of the tree this revision states.
StatedPaths(v) == {v.placed[f] : f \in DOMAIN v.placed \ Dropped(v)} \cup Added(v)

\* What the folder was given for the fact the parents state.
Given(v, p) ==
    IF p \in Kept(v) /\ Refers(v.tree[Who(v, p)].target) \cap Dropped(v) = {}
      THEN Spelled(v.tree, v.tree[Who(v, p)].target) ELSE None

Pointing(v) == {p \in Walked(v) : IsLink(v, p)}
Resolved(v, p) ==
    LET spells == v.folder[p].spells
    IN  IF spells \in StatedPaths(v) THEN <<"to", spells>> ELSE <<"at", spells>>
Pointed(v, p) ==
    LET target == v.tree[Who(v, p)].target
    IN  CASE p \notin Kept(v) -> Nowhere
          [] target[1] = "ref" /\ target[2] \in Dropped(v) -> Nowhere
          [] target[1] = "ref" /\ target[2] \notin Dropped(v) ->
                <<"to", v.placed[target[2]]>>
          [] OTHER -> target
Retargeted(v) ==
    {p \in Pointing(v) : /\ Given(v, p) # v.folder[p].spells
                         /\ Resolved(v, p) # Pointed(v, p)}

WouldDangle_Never(v) == FALSE

\* A link this record is not looking at names a file it drops.
WouldDangle(v) ==
    \E f \in DOMAIN v.placed \ Dropped(v) :
        /\ v.placed[f] \notin Pointing(v)
        /\ Refers(v.tree[f].target) \cap Dropped(v) # {}

\* What the folder holds and the format cannot take: a file recorded as
\* lines that holds none, or stated as lines that holds none.
Unreadable(v) ==
    {p \in Walked(v) : KindAt(v, p) = "lines" /\ v.folder[p].holds \in Blobs}

Refused(v, accepts) ==
    \/ \E p \in DOMAIN v.kinds : p \notin v.only \/ p \in Range(v.placed)
    \/ Unsettled(v) # {}
    \/ Unreadable(v) # {}
    \/ Standing(v) # {}
    \/ Divided(v) # accepts
    \/ Unstatable(v)
    \/ WouldDangle(v)

-----------------------------------------------------------------------------
(* The plan: what the survey found, said about files. *)

FileAt_OfThePath(v, kept, p) ==
    IF Claiming(v, p) = {} THEN <<Len(rev) + 1, p>> ELSE Who(v, p)

FileAt(v, kept, p) ==
    IF p \in Added(v)
      THEN IF p \in DOMAIN kept THEN kept[p] ELSE <<Len(rev) + 1, p>>
      ELSE Who(v, p)

\* A function of paths, said of the files at those paths.
About(v, kept, g) ==
    Built([f \in {FileAt(v, kept, p) : p \in DOMAIN g} |->
             g[CHOOSE p \in DOMAIN g : FileAt(v, kept, p) = f]])

Plan(v, kept) ==
    LET names(p) ==
            LET r == Resolved(v, p)
            IN  IF r[1] = "at" THEN r
                ELSE IF r[2] \in Added(v) \/ Cardinality(Claiming(v, r[2])) = 1
                  THEN <<"ref", FileAt(v, kept, r[2])>> ELSE <<"at", r[2]>>
    IN  [added   |-> About(v, kept, [p \in Added(v) |-> p]),
         moved   |-> Built(Restrict(v.sits, DOMAIN v.sits \ Dropped(v))),
         dropped |-> Dropped(v),
         text    |-> About(v, kept, Written(v)),
         bytes   |-> About(v, kept, Wholes(v)),
         modes   |-> About(v, kept, Observed(v)),
         links   |-> About(v, kept, [p \in Retargeted(v) |-> names(p)])]

Facts == {"added", "moved", "dropped", "text", "bytes", "modes", "links"}
Silent == [[k \in Facts |-> Nothing] EXCEPT !["dropped"] = {}]
Said(i) == Restrict(rev[i], Facts)
\* (`looks` is remembered for the properties only.)
Based(on, n, over, looks) ==
    [on |-> on, over |-> over, past |-> {n} \cup Seen(on), looks |-> looks]

-----------------------------------------------------------------------------
(* The commands. *)

Init ==
    /\ rev = <<>>
    /\ at = {}
    /\ folder = Nothing
    /\ lacks = {}
    /\ touched = {}
    /\ touches = 0
    /\ scene \in Scenes

\* What a person does to the folder behind the program's back.
Stands(p) == p \in DOMAIN folder
IsFile(p) == Stands(p) /\ folder[p].is = "file"
Without(p) == Built(Restrict(folder, DOMAIN folder \ {p}))

Touched(paths, after) ==
    /\ touches < scene.touches
    /\ folder' = after
    /\ folder' # folder
    /\ touched' = touched \cup paths
    /\ touches' = touches + 1
    /\ UNCHANGED <<rev, at, lacks, scene>>

Write(p) ==
    \E c \in Texts \cup (IF Does("bytes") THEN Blobs ELSE {}) :
        Touched({p}, (p :> Filed(c, IsFile(p) /\ folder[p].runs)) @@ folder)
Chmod(p) ==
    /\ Does("chmod")
    /\ IsFile(p)
    /\ Touched({p}, [folder EXCEPT ![p].runs = ~@])
Point(p) ==
    /\ Does("links")
    /\ \E s \in (Paths \ {p}) \cup {Out} : Touched({p}, (p :> Linked(s)) @@ folder)
Unlink(p) == Stands(p) /\ Touched({p}, Without(p))
Rename(p, q) ==
    /\ Does("rename")
    /\ Stands(p)
    /\ ~Stands(q)
    /\ Touched({p, q}, (q :> folder[p]) @@ Without(p))

\* Files left out for want of bytes that have come back: a survey looks at
\* them again, and the folder does not hold them.
Returned(tree, bytes) == {e.path : e \in {d \in Range(tree) : d.payload \in bytes}}

\* `record`, of everything or of the paths named, with a rename stated or not.
\* The rename is performed in whichever state the folder is in.
Performed(from, to) ==
    IF Stands(from) THEN (to :> folder[from]) @@ Without(from) ELSE folder

Recorded(v) ==
    LET n == Len(rev) + 1
    IN  /\ n <= scene.revs
        /\ ~Refused(v, Divided(v))
        /\ \E plan \in {Plan(v, Nothing)} :
              /\ plan # Silent \/ Joining(v)
              /\ rev' = Append(rev, plan @@ Based(v.on, n, 0, v.only))
              /\ lacks' = lacks \ Range(plan.bytes)
              /\ touched' = (touched \ v.only)
                              \cup Returned(v.tree, Range(plan.bytes) \cap lacks)
        /\ at' = {n}
        /\ folder' = v.folder
        /\ UNCHANGED <<touches, scene>>

\* The file a merge put beside each path two files claim, as it prints them.
Besides(H) ==
    LET tree == Tree(H)
        there(p) == {f \in DOMAIN tree : tree[f].path = p}
        first(p) == CHOOSE f \in there(p) : \A g \in there(p) : f[1] <= g[1]
    IN  [f \in {g \in DOMAIN tree : g # first(tree[g].path)} |-> Aside(f)]

Record(only, kinds) ==
    /\ Cardinality(at) > 1 => only = Everywhere
    /\ DOMAIN kinds \subseteq DOMAIN folder
    /\ Recorded(Asked(at, Besides(at), only, kinds, Tree(at), folder))

RecordMoved(only, from, to) ==
    LET tree == Tree(at)
        moved == {f \in DOMAIN tree : tree[f].path = from}
    IN  /\ Does("rename")
        /\ Cardinality(at) = 1
        /\ {from, to} \subseteq only
        /\ Stands(from) # Stands(to)
        /\ Cardinality(moved) = 1
        /\ Recorded(Asked(at, [f \in moved |-> to], only, Nothing, tree,
                          Performed(from, to)))

Restated_WhereItStood(h) ==
    LET kept == [p \in Range(rev[h].added) |->
                    CHOOSE f \in DOMAIN rev[h].added : rev[h].added[f] = p]
    IN  [view |-> Asked(rev[h].on, Nothing, Everywhere, Nothing, Tree({h}), folder),
         kept |-> kept]

\* `amend`: the head, restated as the folder stands, against its own parents.
Restated(h) ==
    LET kept == [p \in Range(rev[h].added) |->
                    CHOOSE f \in DOMAIN rev[h].added : rev[h].added[f] = p]
        kinds == [p \in DOMAIN kept |->
                    IF kept[p] \in DOMAIN rev[h].bytes THEN "whole" ELSE "lines"]
    IN  [view |-> Asked(rev[h].on, rev[h].moved, Everywhere, kinds, Tree({h}), folder),
         kept |-> kept]

Amend(h) ==
    /\ Does("amend")
    /\ Len(rev) < scene.revs
    /\ at = {h}
    /\ h \in Heads
    /\ \E r \in {Restated(h)} :
          /\ ~Refused(r.view, {})
          /\ \E plan \in {Plan(r.view, r.kept)} :
                /\ plan # Said(h)
                /\ rev' = Append(rev, plan @@ Based(rev[h].on, Len(rev) + 1, h, Everywhere))
                /\ lacks' = lacks \ Range(plan.bytes)
                /\ touched' = Returned(Tree({h}), Range(plan.bytes) \cap lacks)
    /\ at' = {Len(rev) + 1}
    /\ UNCHANGED <<folder, touches, scene>>

Stood_Plain(tree, entry, text) ==
    CASE entry.kind = "link"  -> Linked(Spelled(tree, entry.target))
      [] entry.kind = "whole" -> Filed(entry.payload, FALSE)
      [] OTHER                -> Filed(text, FALSE)

\* A folder laid out afresh from one revision: `update` of a folder nobody
\* touched, or the tree of any revision in a directory of its own.
Stood(tree, entry, text) ==
    CASE entry.kind = "link"  -> Linked(Spelled(tree, entry.target))
      [] entry.kind = "whole" -> Filed(entry.payload, entry.runs)
      [] OTHER                -> Filed(text, entry.runs)

Lay(h) ==
    LET tree == Tree({h})
        laid == {f \in DOMAIN tree :
                    ~(tree[f].kind = "whole" /\ tree[f].payload \in lacks)}
        sits(p) == CHOOSE f \in laid : tree[f].path = p
        Text(f) == CHOOSE t \in TextAt(h, f) : TRUE
    IN  Built([p \in {tree[f].path : f \in laid} |->
                 Stood(tree, tree[sits(p)], Text(sits(p)))])

Update(h) ==
    /\ Does("update")
    /\ \A i \in Revs : rev[i].over # h
    /\ touched = {}
    /\ folder' = Lay(h)
    /\ at # {h} \/ folder' # folder
    /\ at' = {h}
    /\ UNCHANGED <<rev, lacks, touched, touches, scene>>

\* `merge`: every head, rendered into the folder for `record` to survey.  A
\* path holding work no head recorded is left alone, unless a link goes there
\* or what stands there is not text.
Rendered(H, tree, f, a) ==
    LET entry == tree[f]
        text  == IF Meets(H, f) THEN Marked ELSE Merged(H, f)
        heads == UNION {TextAt(h, f) : h \in H}
        sides == {Tree({h})[f].payload : h \in {i \in H : f \in DOMAIN Tree({i})}}
        held  == IF Stands(a) THEN {folder[a]} ELSE {}
        holds == {e.holds : e \in {d \in held : d.is = "file"}}
        new   == {Stood(tree, entry, text)}
    IN  CASE entry.kind = "link" -> new
          [] entry.kind = "whole" /\ entry.payload = None -> held
          [] entry.kind = "whole" /\ entry.payload \in lacks ->
                IF holds \subseteq sides \ (lacks \cup {entry.payload}) THEN {} ELSE held
          [] entry.kind = "whole" /\ entry.payload \notin lacks ->
                IF holds \subseteq sides \cup {entry.payload} THEN new ELSE held
          [] OTHER ->
                IF holds \subseteq heads \cup {text} \cup Blobs THEN new ELSE held

\* Where each file goes, and what the merge makes of each of those places.
Goes(tree, aside) == [f \in DOMAIN tree |-> IF f \in DOMAIN aside THEN aside[f] ELSE tree[f].path]
Made(H, tree, goes) ==
    [p \in Range(goes) |-> Rendered(H, tree, CHOOSE f \in DOMAIN goes : goes[f] = p, p)]
Over(made) ==
    [p \in {p \in DOMAIN made : made[p] # {}} |-> CHOOSE e \in made[p] : TRUE]
        @@ Restrict(folder, DOMAIN folder \ DOMAIN made)
LaidOut(H) == LET tree == Tree(H) IN Over(Made(H, tree, Goes(tree, Besides(H))))

\* Left out: a merge that finds a link where a file goes, and would write
\* through it.
Merge ==
    LET tree == Tree(Heads)
    IN  /\ Cardinality(Heads) = 2
        /\ at \subseteq Heads
        /\ \A f \in DOMAIN tree :
              tree[f].kind # "link" /\ Stands(tree[f].path) => IsFile(tree[f].path)
        /\ at' = Heads
        /\ folder' = LaidOut(Heads)
        /\ UNCHANGED <<rev, lacks, touched, touches, scene>>

\* Bytes let go of here, from the store and then from the folder, because
\* another copy offers them; and a fetch that brings them back, which does not
\* touch the folder.
Evict(b) ==
    /\ Does("evict")
    /\ b \notin lacks
    /\ \E i \in Revs : b \in Range(rev[i].bytes)
    /\ LET gone == {p \in DOMAIN folder :
                      /\ folder[p].is = "file"
                      /\ folder[p].holds = b
                      /\ \E f \in DOMAIN Tree(at) : /\ Tree(at)[f].path = p
                                                    /\ Tree(at)[f].payload = b}
       IN  folder' = Built(Restrict(folder, DOMAIN folder \ gone))
    /\ lacks' = lacks \cup {b}
    /\ UNCHANGED <<rev, at, touched, touches, scene>>

Fetch(b) ==
    /\ b \in lacks
    /\ lacks' = lacks \ {b}
    /\ touched' = touched \cup Returned(Tree(at), {b})
    /\ UNCHANGED <<rev, at, folder, touches, scene>>

Kinds == {Nothing} \cup
    (IF Does("kinds") THEN {p :> k : p \in Paths, k \in {"lines", "whole"}} ELSE {})
Looks == {Everywhere} \cup (IF Does("some") THEN {{p} : p \in Paths} ELSE {})
MovedLooks(p, q) == {Everywhere} \cup (IF Does("some") THEN {{p, q}} ELSE {})

Next ==
    \/ \E p \in Paths : Write(p) \/ Chmod(p) \/ Point(p) \/ Unlink(p)
    \/ \E p, q \in Paths : Rename(p, q)
    \/ \E only \in Looks, kinds \in Kinds : Record(only, kinds)
    \/ \E p, q \in Paths : \E only \in MovedLooks(p, q) : RecordMoved(only, p, q)
    \/ \E h \in Revs : Amend(h) \/ Update(h)
    \/ Merge
    \/ \E b \in Blobs : Evict(b) \/ Fetch(b)

Spec == Init /\ [][Next]_vars

-----------------------------------------------------------------------------
(* What recording promises. *)

\* A revision names only files its parents' tree holds, or files it adds,
\* and a file keeps the identifier it was added under across an amendment.
TypeOK ==
    /\ at \subseteq Revs
    /\ DOMAIN folder \subseteq Everywhere
    /\ lacks \subseteq Blobs
    /\ \A i \in Revs :
          /\ rev[i].on \subseteq 1 .. (i - 1)
          /\ \A f \in DOMAIN rev[i].added :
                \/ f[1] = i
                \/ rev[i].over # 0 /\ f \in DOMAIN rev[rev[i].over].added
          /\ UNION {DOMAIN rev[i].moved, rev[i].dropped} \subseteq DOMAIN Tree(rev[i].on)
          /\ UNION {DOMAIN rev[i].text, DOMAIN rev[i].bytes, DOMAIN rev[i].modes,
                    DOMAIN rev[i].links}
                \subseteq DOMAIN Tree(rev[i].on) \cup DOMAIN rev[i].added

\* The tree of every recorded revision is whole: one file to a path, every
\* reference to a file it holds, and one content for every file, so that it
\* can be laid out.  (History only grows, so the newest is asked.)
Newest == Len(rev)

TreesAreWhole ==
    rev # <<>> =>
        LET tree == Tree({Newest})
        IN  /\ \A f, g \in DOMAIN tree : tree[f].path = tree[g].path => f = g
            /\ \A f \in DOMAIN tree :
                  /\ Refers(tree[f].target) \subseteq DOMAIN tree
                  /\ tree[f].kind = "whole" => tree[f].payload # None
                  /\ tree[f].kind = "lines" => Cardinality(TextAt(Newest, f)) = 1

\* What one revision does to the tree it stands on, line by line: the replay
\* of one line of history, which the merge of the whole graph has to agree
\* with.
Applied(tree, r) ==
    LET files == (DOMAIN tree \cup DOMAIN r.added) \ r.dropped
        was(f) == IF f \in DOMAIN tree THEN tree[f]
                  ELSE [path |-> r.added[f], payload |-> None, runs |-> FALSE,
                        target |-> Nowhere,
                        kind |-> IF f \in DOMAIN r.links THEN "link"
                                 ELSE IF f \in DOMAIN r.bytes THEN "whole" ELSE "lines"]
        Now(g, f, old) == IF f \in DOMAIN g THEN g[f] ELSE old
    IN  [f \in files |->
            [path    |-> Now(r.moved, f, was(f).path),
             kind    |-> was(f).kind,
             payload |-> Now(r.bytes, f, was(f).payload),
             runs    |-> Now(r.modes, f, was(f).runs),
             target  |-> Now(r.links, f, was(f).target)]]

\* The revision that stands on one other states the whole difference between
\* their trees.
StatesWhatChanged(i) ==
    Cardinality(rev[i].on) <= 1 => Tree({i}) = Applied(Tree(rev[i].on), rev[i])

\* A revision states only what it changed: its tree is its parent's with its
\* own facts applied.  (docs/decisions/0008-tree.md)
RevisionsStateTheirChange == rev # <<>> => StatesWhatChanged(Newest)

\* The same, but for a parent whose tree holds a file only because a link
\* names it: the next revision need not say what becomes of that file.
OnlyTheNamedSlipAway ==
    (rev # <<>> /\ Buried(rev[Newest].on) = {}) => StatesWhatChanged(Newest)

\* What a survey of the whole folder says about one path.
Asking(heads) == Asked(heads, Nothing, Everywhere, Nothing, Tree(heads), folder)
Says(v, p) ==
    LET only(g) == {g[q] : q \in DOMAIN g \cap {p}}
    IN  <<p \in Added(v), p \in {v.placed[f] : f \in Dropped(v)},
      only(Observed(v)), only(Wholes(v)), only(Written(v)),
      IF p \in Retargeted(v) THEN Resolved(v, p) ELSE Nowhere>>

\* Nobody moved what a link refers to, and no file stands only by a link:
\* the two cases the next survey reads differently.
Steady(i) ==
    \A j \in rev[i].past :
        /\ Buried(rev[j].on) = {}
        /\ \A f \in DOMAIN Tree({j}) : Refers(Tree({j})[f].target) \cap DOMAIN rev[j].moved = {}

\* A folder just laid out or just recorded states nothing: surveyed again, it
\* is what it was surveyed as.
RecordedIsSettled ==
    (touched = {} /\ Cardinality(at) = 1 /\ \A i \in at : Steady(i))
        => LET v == Asking(at)
           IN  ~Refused(v, {}) /\ Plan(v, Nothing) = Silent

\* And amending a revision nobody has changed the folder under would restate
\* it word for word.
AmendingRestates ==
    (touched = {} /\ \A i \in at : Steady(i)) =>
        \A h \in at \cap Heads :
            LET r == Restated(h)
            IN  at = {h} => Refused(r.view, {}) \/ Plan(r.view, r.kept) = Said(h)

\* A record of some paths leaves the others to the next one: surveyed against
\* the revision it made, the folder states of them what it stated before.
RestIsLeftAlone ==
    (rev # <<>> /\ at = {Newest} /\ Cardinality(rev[Newest].on) = 1 /\ Steady(Newest))
        => LET before == Asking(rev[Newest].on)
               after  == Asking(at)
           IN  \A p \in Paths \ rev[Newest].looks : Says(before, p) = Says(after, p)

\* A record retargets a link only where a person touched the link, or the
\* file it names is leaving.  (docs/decisions/0040-a-file-can-be-a-link.md)
Retargets(i) == DOMAIN rev[i].links \ DOMAIN rev[i].added
OnlyTouchedLinksAreRetargeted ==
    [][Len(rev') > Len(rev) =>
        \A f \in Retargets(Newest)' :
            \/ \E i \in at : f \in DOMAIN Tree({i}) /\ Tree({i})[f].path \in touched
            \/ \E i \in at : f \in DOMAIN Tree({i})
                  /\ Refers(Tree({i})[f].target) \cap rev'[Newest'].dropped # {}]_vars

\* A survey of the whole folder finds a file dropped only where a person took
\* it away, or made a link of it or the other way round: never for want of its
\* bytes.
NothingLeavesForWantOfBytes ==
    Cardinality(at) = 1 =>
        LET v == Asking(at) IN {v.placed[f] : f \in Dropped(v)} \subseteq touched

\* A merge a person only ran and recorded undoes nothing either side did, but
\* where a file arrives at a path at which one side has another file: what stands
\* there is left, and is recorded as what the arriving file holds.
Contested(tree, f) == \E g \in DOMAIN tree \ {f} : tree[g].path = tree[f].path
MergesUndoNothing ==
    [][(Len(rev') > Len(rev) /\ touched = {} /\ Cardinality(at) > 1) =>
        LET tree  == Tree(at)
            after == Tree({Newest})'
            aside == Besides(at)
        IN  \A f \in DOMAIN tree :
                Contested(tree, f)
                \/ (tree[f].kind = "whole" /\ (tree[f].payload = None \/ tree[f].payload \in lacks))
                \/ /\ f \in DOMAIN after
                   /\ after[f].path = (aside @@ [g \in {f} |-> tree[f].path])[f]
                   /\ after[f].runs = tree[f].runs
                   /\ after[f].payload = tree[f].payload]_vars

\* What a merge records is the resolution: it adds no file.
\* (docs/cli.md, `merge` and `record --merge`)
MergesStateTheResolution ==
    [][(Len(rev') > Len(rev) /\ touched = {} /\ Cardinality(at) > 1)
        => rev'[Newest'].added = Nothing]_vars

=============================================================================
