---- MODULE Bridge ----
(* The git bridge: a store and a git repository each a person works in, and *)
(* the two commands that bring one up to what the other gained. Revisions   *)
(* and commits are numbered as they are made; `says` is the piece of work one   *)
(* states and how it was last amended. The repository's record is two       *)
(* files, written one after the other once a command has done its work,     *)
(* and a command may be stopped before either. Each side may have a         *)
(* directory of its own, or both may share one.                             *)
EXTENDS Naturals, Sequences, FiniteSets, FiniteSetsExt, SequencesExt, Functions

CONSTANTS Names,      \* branches and the bookmarks of the same names
          Apart,      \* no branch: the two sides have directories of their own
          Heads,      \* where HEAD may be, or Apart
          Deeds,      \* the kinds of thing a person does in the run
          MaxActs,    \* bound: deeds of persons, on either side
          MaxStops    \* bound: commands stopped partway

VARIABLES rev,    \* the store's revisions: what each stands on, its change, what it says and what it supersedes
          bm,     \* the change each bookmark names, or Nothing
          commit, \* every commit git ever made: its parents and what it says
          held,   \* the commits git still holds
          ref,    \* git's references, a function on those there are
          rec,    \* .git/historica/commits: the commit a revision is
          left,   \* .git/historica/refs: where the two last agreed, and whether a write put it there
          job,    \* the command under way
          acts, stops,
          head,   \* the branch checked out in the directory both share, or Apart
          torn,   \* the steps before which a command was stopped
          meant,  \* what persons, on either side, have put at each name
          binned  \* branches both sides had that git has deleted

vars == <<rev, bm, commit, held, ref, rec, left, job, acts, stops, head, torn, meant, binned>>
persons == <<acts, head, meant, binned>>
store == <<rev, bm>>
git == <<commit, held, ref>>
record == <<rec, left>>

Nothing == <<"none", 0>>
Own(r) == <<"own", r>>       \* a change minted for a revision recorded here
Of(c) == <<"of", c>>         \* the change a commit's object ID is
Branch(b) == <<"heads", b>>
Unnamed(r) == <<"unnamed", r>>
Work(n) == [work |-> n, draft |-> 0]
NoWork == Work(0)           \* what a commit that changes nothing says
Idle == [at |-> "idle"]

Superseded == UNION {rev[r].over : r \in DOMAIN rev}
Visible == DOMAIN rev \ Superseded
Parents(r) == ToSet(rev[r].on)
InOrder(made, S) == SelectSeq([i \in DOMAIN made |-> i], LAMBDA i : i \in S)

\* Where a bookmark stands: the one current revision of its change.
Current(change) ==
  LET now == {r \in Visible : rev[r].change = change}
  IN  IF Cardinality(now) = 1 THEN CHOOSE r \in now : TRUE ELSE 0

RECURSIVE Above(_, _)
Above(s, r) == {r} \cup UNION {Above(s, p) : p \in ToSet(s[r].on)}
Reached(tips) == UNION {Above(commit, c) : c \in tips}

----
(* Import: what the store already holds of git, and what it takes.           *)

RevisionOf_ByItsChange(c, n) ==
  LET originals == {r \in 1..n : rev[r].change = Of(c) /\ rev[r].over = {}}
  IN  IF Cardinality(originals) = 1 THEN CHOOSE r \in originals : TRUE ELSE 0

\* The revision a commit is: by the record, or as the one original of the
\* change its object ID is, among the first n revisions.
RevisionOf(c, n) ==
  LET noted == {r \in DOMAIN rec : rec[r] = c /\ r <= n}
      originals == {r \in 1..n : rev[r].change = Of(c) /\ rev[r].over = {}}
  IN  IF noted # {} THEN Max(noted)
      ELSE IF Cardinality(originals) = 1 THEN CHOOSE r \in originals : TRUE ELSE 0
Resolve(c) == IF c \in DOMAIN job.by THEN job.by[c] ELSE RevisionOf(c, job.known)

\* A commit the export left out: itself, or up its first parents past what changed nothing.
RECURSIVE NamedUp(_)
NamedUp(c) ==
  IF RevisionOf(c, job.known) # 0 \/ commit[c].on = <<>> THEN RevisionOf(c, job.known)
  ELSE NamedUp(commit[c].on[1])

StandsOn(c) == IF c \in job.stream THEN (IF c \in DOMAIN job.by THEN job.by[c] ELSE 0) ELSE NamedUp(c)

BranchesNow == {b \in Names : Branch(b) \in DOMAIN ref}

\* Sharing a directory, a store follows the branch checked out there and those it
\* has a bookmark for: the rest are another checkout's.
BranchesFollowed == {b \in BranchesNow : head \in {Apart, b} \/ bm[b] # Nothing}

BeginImport ==
  /\ job = Idle /\ "bridge" \in Deeds
  /\ LET n == Len(rev)
         tips == {ref[Branch(b)] : b \in BranchesFollowed}
         known == Reached({c \in tips : RevisionOf(c, n) # 0})
         stream == Reached(tips) \ known
     IN  job' = [at |-> "take", known |-> n, cur |-> [b \in BranchesFollowed |-> ref[Branch(b)]],
                 stream |-> stream, queue |-> InOrder(commit, stream), by |-> <<>>, fresh |-> {},
                 back |-> <<>>, todo |-> BranchesFollowed, agreed |-> <<>>, gone |-> {}, went |-> {}]
  /\ UNCHANGED <<store, git, record, stops, torn, persons>>

Landed(c, r) == [job EXCEPT !.by = (c :> r) @@ @, !.queue = Tail(@)]

\* Bookmarks `record` carries forward: those naming the change of a parent.
Followed(on) == {b \in Names : \E p \in ToSet(on) : bm[b] = rev[p].change}

Recognise ==
  /\ job.at = "take" /\ job.queue # <<>>
  /\ LET c == Head(job.queue) IN
       /\ RevisionOf(c, job.known) # 0
       /\ job' = Landed(c, RevisionOf(c, job.known))
  /\ UNCHANGED <<store, git, record, stops, torn, persons>>

Fold_ ==
  /\ job.at = "take" /\ job.queue # <<>>
  /\ LET c == Head(job.queue)
         on == [i \in DOMAIN commit[c].on |-> StandsOn(commit[c].on[i])]
     IN  /\ RevisionOf(c, job.known) = 0 /\ commit[c].says = NoWork
         /\ on # <<>> /\ 0 \notin ToSet(on)
         /\ job' = Landed(c, on[1])
  /\ UNCHANGED <<store, git, record, stops, torn, persons>>

Convert ==
  /\ job.at = "take" /\ job.queue # <<>>
  /\ LET c == Head(job.queue)
         on == [i \in DOMAIN commit[c].on |-> StandsOn(commit[c].on[i])]
         followed == Followed(on)
     IN  /\ RevisionOf(c, job.known) = 0 /\ commit[c].says # NoWork /\ 0 \notin ToSet(on)
         /\ rev' = Append(rev, [on |-> on, change |-> Of(c), says |-> commit[c].says, over |-> {}])
         /\ bm' = [b \in Names |-> IF b \in followed THEN Of(c) ELSE bm[b]]
         /\ job' = [Landed(c, Len(rev) + 1) EXCEPT !.at = "back", !.fresh = @ \cup {c},
                                                   !.back = Restrict(bm, followed)]
  /\ UNCHANGED <<git, record, stops, torn, persons>>

PutBack_Never ==
  /\ job.at = "back"
  /\ bm' = bm
  /\ job' = [job EXCEPT !.at = "take", !.back = <<>>]
  /\ UNCHANGED <<rev, git, record, stops, torn, persons>>

\* Where git's branches stand is git's to say: what `record` advanced goes back.
PutBack ==
  /\ job.at = "back"
  /\ bm' = job.back @@ bm
  /\ job' = [job EXCEPT !.at = "take", !.back = <<>>]
  /\ UNCHANGED <<rev, git, record, stops, torn, persons>>
\* A commit on one that became no revision: the import stops there.
Refuse ==
  /\ job.at = "take" /\ job.queue # <<>>
  /\ LET c == Head(job.queue) IN
       /\ RevisionOf(c, job.known) = 0
       /\ \E p \in ToSet(commit[c].on) : StandsOn(p) = 0
  /\ job' = Idle
  /\ UNCHANGED <<store, git, record, stops, torn, persons>>

\* A root that changes nothing becomes nothing, and lands nowhere.
PassOver ==
  /\ job.at = "take" /\ job.queue # <<>>
  /\ LET c == Head(job.queue) IN RevisionOf(c, job.known) = 0 /\ commit[c].says = NoWork /\ commit[c].on = <<>>
  /\ job' = [job EXCEPT !.queue = Tail(@)]
  /\ UNCHANGED <<store, git, record, stops, torn, persons>>

MayFollow_Gladly(b, standing, arriving) == TRUE

\* Whether the bookmark standing at one revision may follow its branch to another:
\* an import of the directory both share is asked for git's branches as they stand.
MayFollow(b, standing, arriving) ==
  LET was == IF Branch(b) \in DOMAIN left THEN Resolve(left[Branch(b)].oid) ELSE 0
  IN  \/ head # Apart
      \/ was # 0 /\ was # arriving /\ was = standing
      \/ was = 0 /\ standing \in Above(rev, arriving)
NameOne ==
  /\ job.at = "take" /\ job.queue = <<>> /\ job.todo # {}
  /\ \E b \in job.todo :
       LET arriving == Resolve(job.cur[b])
           standing == Current(bm[b])
           follows == \/ bm[b] = Nothing
                      \/ standing # 0 /\ MayFollow(b, standing, arriving)
           said == job.cur[b]
       IN  IF arriving = 0 THEN /\ UNCHANGED bm
                                /\ job' = [job EXCEPT !.todo = @ \ {b}, !.cur = [x \in DOMAIN @ \ {b} |-> @[x]]]
           ELSE LET settled == bm[b] = rev[arriving].change \/ follows IN
                /\ bm' = IF settled THEN [bm EXCEPT ![b] = rev[arriving].change] ELSE bm
                /\ job' = [job EXCEPT !.todo = @ \ {b},
                             !.agreed = IF settled THEN (Branch(b) :> said) @@ @ ELSE @]
  /\ UNCHANGED <<rev, git, record, stops, torn, persons>>

\* Branches the record remembers and git was not seen to have, whose bookmarks
\* still stand where the branch was left.
Gone == {b \in Names : /\ Branch(b) \in DOMAIN left /\ b \notin DOMAIN job.cur /\ bm[b] # Nothing
                       /\ Current(bm[b]) # 0 /\ Resolve(left[Branch(b)].oid) = Current(bm[b])}
FindGone ==
  /\ job.at = "take" /\ job.queue = <<>> /\ job.todo = {}
  /\ job' = [job EXCEPT !.at = "gone", !.gone = Gone, !.went = Gone]
  /\ UNCHANGED <<store, git, record, stops, torn, persons>>

Unname ==
  /\ job.at = "gone" /\ job.gone # {}
  /\ \E b \in job.gone : /\ bm' = [bm EXCEPT ![b] = Nothing]
                         /\ job' = [job EXCEPT !.gone = @ \ {b}]
  /\ UNCHANGED <<rev, git, record, stops, torn, persons>>

----
(* The record, kept by both commands: the commits and then the references.   *)

KeepImportedCommits ==
  /\ job.at = "gone" /\ job.gone = {}
  /\ rec' = [r \in {job.by[c] : c \in job.fresh} |-> CHOOSE c \in job.fresh : job.by[c] = r] @@ rec
  /\ job' = [job EXCEPT !.at = "agree"]
  /\ UNCHANGED <<store, git, left, stops, torn, persons>>

Made(reference) == reference \in DOMAIN left /\ left[reference].made

KeepAgreement ==
  /\ job.at = "agree"
  /\ LET all == [x \in DOMAIN job.agreed |-> [oid |-> job.agreed[x], made |-> Made(x)]] @@ left
     IN  left' = Restrict(all, DOMAIN all \ {Branch(b) : b \in job.went})
  /\ job' = Idle
  /\ UNCHANGED <<store, git, rec, stops, torn, persons>>

----
(* Write: what git gains, and the references it moves.                       *)

\* The sweeps: in digest order, whatever stands on nothing visible and unplaced.
\* Digests are arbitrary: here the later revision's sorts first.
RECURSIVE Sweep(_, _, _)
Sweep(now, r, done) ==
  IF r = 0 THEN done
  ELSE LET ready == r \in now \ ToSet(done) /\ Parents(r) \cap now \subseteq ToSet(done)
       IN  Sweep(now, r - 1, IF ready THEN Append(done, r) ELSE done)
RECURSIVE Sweeps(_, _)
Sweeps(now, done) == IF ToSet(done) = now THEN done ELSE Sweeps(now, Sweep(now, Len(rev), done))
Order == LET now == Visible IN Sweeps(now, <<>>)

\* Up from a superseded parent, by first parents, to one git has.
RECURSIVE VisibleUp(_)
VisibleUp(r) == IF r \in Visible \/ rev[r].on = <<>> THEN r ELSE VisibleUp(rev[r].on[1])

\* A commit is what it says and what it stands on: the same again is the same object.
Object(commits, made) ==
  IF \E c \in DOMAIN commits : commits[c] = made THEN CHOOSE c \in DOMAIN commits : commits[c] = made
  ELSE Len(commits) + 1

SendOne(sofar, r) ==
  IF r \in DOMAIN sofar.placed THEN sofar
  ELSE LET up == [i \in DOMAIN rev[r].on |-> VisibleUp(rev[r].on[i])]
           on == SelectSeq(up, LAMBDA p : p \in DOMAIN sofar.placed)
           made == [on |-> [i \in DOMAIN on |-> sofar.placed[on[i]]], says |-> rev[r].says]
           c == Object(sofar.commits, made)
       IN  [commits |-> IF c > Len(sofar.commits) THEN Append(sofar.commits, made) ELSE sofar.commits,
            placed |-> (r :> c) @@ sofar.placed, sent |-> sofar.sent \cup {r}]

Remembered_Always == DOMAIN rec \cap Visible

\* Commits git still holds are named and not sent again.
Remembered == {r \in DOMAIN rec \cap Visible : rec[r] \in held}
Sent == FoldLeft(SendOne, [commits |-> commit, placed |-> Restrict(rec, Remembered), sent |-> {}], Order)

Decide_Forcibly(reference, c, fresh) ==
  IF reference \notin DOMAIN ref
  THEN IF reference \in DOMAIN left THEN "back" ELSE "move"
  ELSE IF ~fresh /\ ref[reference] = c THEN "already" ELSE "move"

\* What one reference comes to: moved, found there already, or held back.
Decide(reference, c, fresh) ==
  IF reference \notin DOMAIN ref
  THEN IF reference \in DOMAIN left THEN "back" ELSE "move"
  ELSE IF ~fresh /\ ref[reference] = c THEN "already"
  ELSE IF reference \in DOMAIN left /\ left[reference].oid = ref[reference] THEN "move" ELSE "back"
Wanted == {b \in Names : bm[b] # Nothing /\ Current(bm[b]) # 0}
Childless == {r \in DOMAIN rev : ~ \E q \in DOMAIN rev : r \in Parents(q)}

Bare_Bookmarked(named) == {r \in Childless \cap Visible : \A b \in Wanted : Current(bm[b]) # r}

\* Heads no reference that stands names: put out of the way rather than nowhere.
Bare(named) == {r \in Childless \cap Visible : r \notin named}
Send ==
  /\ job = Idle /\ "bridge" \in Deeds
  /\ LET sending == Sent
         Fate(x, r) == Decide(x, sending.placed[r], r \in sending.sent)
         branches == {<<Branch(b), Current(bm[b])>> : b \in Wanted}
         stand == {w \in branches : Fate(w[1], w[2]) # "back"}
         all == branches \cup {<<Unnamed(r), r>> : r \in Bare({w[2] : w \in stand})}
         Those(fates) == {w \in all : Fate(w[1], w[2]) \in fates}
         ours == [x \in {w[1] : w \in Those({"move", "already"})} |->
                    sending.placed[(CHOOSE w \in all : w[1] = x)[2]]]
         moved == {w[1] : w \in Those({"move"})}
         backs == {w[1] : w \in Those({"back"})}
         lost == {x \in DOMAIN left : /\ left[x].made /\ x \notin DOMAIN ours \cup backs
                                      /\ x \in DOMAIN ref /\ ref[x] = left[x].oid}
     IN  /\ commit' = sending.commits
         /\ ref' = Restrict(Restrict(ours, moved) @@ ref, (DOMAIN ref \cup moved) \ lost)
         /\ held' = held \cup {sending.placed[r] : r \in sending.sent}
         /\ job' = [at |-> "sent", sent |-> Restrict(sending.placed, sending.sent), ours |-> ours,
                    moved |-> moved, lost |-> lost]
  /\ UNCHANGED <<store, record, stops, torn, persons>>

KeepSentCommits ==
  /\ job.at = "sent"
  /\ rec' = job.sent @@ Restrict(rec, {r \in DOMAIN rec : rec[r] \in held})
  /\ job' = [job EXCEPT !.at = "left"]
  /\ UNCHANGED <<store, git, left, stops, torn, persons>>

KeepLeft_Anew ==
  /\ job.at = "left"
  /\ left' = [x \in DOMAIN job.ours |-> [oid |-> job.ours[x], made |-> x \in job.moved \/ Made(x)]]
  /\ job' = Idle
  /\ UNCHANGED <<store, git, rec, stops, torn, persons>>

KeepLeft ==
  /\ job.at = "left"
  /\ LET all == [x \in DOMAIN job.ours |-> [oid |-> job.ours[x], made |-> x \in job.moved \/ Made(x)]] @@ left
     IN  left' = Restrict(all, DOMAIN all \ job.lost)
  /\ job' = Idle
  /\ UNCHANGED <<store, git, rec, stops, torn, persons>>
Stop ==
  /\ job # Idle /\ stops < MaxStops
  /\ stops' = stops + 1
  /\ torn' = torn \cup {job.at}
  /\ job' = Idle
  /\ UNCHANGED <<store, git, record, persons>>

----
(* What persons do, on either side and while no command runs.                *)

Act(kind) == job = Idle /\ kind \in Deeds /\ acts < MaxActs /\ acts' = acts + 1 /\ UNCHANGED <<record, job, stops, head, torn>>

\* The names whose bookmark a person's deed leaves elsewhere are meant to be there.
Means(names, says) == meant' = [b \in Names |-> IF b \in names THEN meant[b] \cup {says} ELSE meant[b]]
\* What a commit says, past those that change nothing.
RECURSIVE Says(_)
Says(c) == IF commit[c].says # NoWork \/ commit[c].on = <<>> THEN commit[c].says.work ELSE Says(commit[c].on[1])

GitCommit ==
  /\ Act("commit")
  /\ \E b \in Names, says \in {NoWork, Work(acts + 1)} :
       LET made == [on |-> IF b \in BranchesNow THEN <<ref[Branch(b)]>> ELSE <<>>, says |-> says]
           c == Object(commit, made)
       IN  /\ Means({b}, says.work) /\ binned' = binned \ {b}
           /\ commit' = IF c > Len(commit) THEN Append(commit, made) ELSE commit
           /\ held' = held \cup {c}
           /\ ref' = (Branch(b) :> c) @@ ref
  /\ UNCHANGED store

GitBranch ==
  /\ Act("branch")
  /\ \E b \in Names, c \in held : /\ ref' = (Branch(b) :> c) @@ ref /\ ref' # ref
                                /\ Means({b}, Says(c)) /\ binned' = binned \ {b}
  /\ UNCHANGED <<store, commit, held>>

GitDelete ==
  /\ Act("delete")
  /\ \E b \in BranchesNow : /\ ref' = Restrict(ref, DOMAIN ref \ {Branch(b)})
                            /\ binned' = binned \cup ({b} \cap {x \in Names : Branch(x) \in DOMAIN left})
  /\ UNCHANGED <<store, commit, held, meant>>

Gc ==
  /\ Act("gc")
  /\ held' = Reached({ref[x] : x \in DOMAIN ref}) /\ held' # held
  /\ UNCHANGED <<store, commit, ref, meant, binned>>

Record ==
  /\ Act("record")
  /\ \E on \in {<<>>} \cup {<<r>> : r \in Visible} :
       /\ rev' = Append(rev, [on |-> on, change |-> Own(Len(rev) + 1), says |-> Work(acts + 1), over |-> {}])
       /\ bm' = [b \in Names |-> IF b \in Followed(on) THEN Own(Len(rev) + 1) ELSE bm[b]]
       /\ Means(Followed(on), acts + 1)
  /\ UNCHANGED <<git, binned>>

\* A revision written over another, and what stood on the other carried across.
CarryOne(sofar, d) ==
  IF d \in Visible /\ Parents(d) \cap DOMAIN sofar.now # {}
  THEN [revs |-> Append(sofar.revs, [rev[d] EXCEPT !.on = [i \in DOMAIN @ |-> IF @[i] \in DOMAIN sofar.now THEN sofar.now[@[i]] ELSE @[i]],
                                                  !.over = {d}]),
        now |-> (d :> Len(sofar.revs) + 1) @@ sofar.now]
  ELSE sofar
Over(r, new) == FoldLeft(CarryOne, [revs |-> Append(rev, [new EXCEPT !.over = {r}]), now |-> (r :> Len(rev) + 1)],
                         [i \in DOMAIN rev |-> i]).revs

Amend ==
  /\ Act("amend")
  /\ \E r \in Visible : rev' = Over(r, [rev[r] EXCEPT !.says.draft = acts + 1])
  /\ UNCHANGED <<bm, git, meant, binned>>

CarryOnto ==
  /\ Act("carry")
  /\ \E r \in Visible, onto \in Visible :
       /\ r \notin Above(rev, onto) /\ rev[r].on # <<onto>>
       /\ rev' = Over(r, [rev[r] EXCEPT !.on = <<onto>>])
  /\ UNCHANGED <<bm, git, meant, binned>>

\* An amendment received from a copy that did not hold what stands on the amended.
Receive ==
  /\ Act("receive")
  /\ \E r \in Visible : rev' = Append(rev, [rev[r] EXCEPT !.says.draft = acts + 1, !.over = {r}])
  /\ UNCHANGED <<bm, git, meant, binned>>

Name_ ==
  /\ Act("name")
  /\ \E b \in Names, r \in Visible : /\ bm' = [bm EXCEPT ![b] = rev[r].change] /\ bm' # bm
                                   /\ Means({b}, rev[r].says.work) /\ binned' = binned \ {b}
  /\ UNCHANGED <<rev, git>>

DropName ==
  /\ Act("unname")
  /\ \E b \in Names : bm[b] # Nothing /\ bm' = [bm EXCEPT ![b] = Nothing]
  /\ UNCHANGED <<rev, git, meant, binned>>

----
Init ==
  /\ rev = <<>> /\ bm = [b \in Names |-> Nothing]
  /\ commit = <<>> /\ held = {} /\ ref = <<>>
  /\ rec = <<>> /\ left = <<>>
  /\ job = Idle /\ acts = 0 /\ stops = 0 /\ torn = {}
  /\ head \in Heads
  /\ meant = [b \in Names |-> {0}] /\ binned = {}

Import == BeginImport \/ Recognise \/ Fold_ \/ Convert \/ PutBack \/ PassOver \/ Refuse \/ NameOne \/ FindGone \/ Unname
            \/ KeepImportedCommits \/ KeepAgreement
Write == Send \/ KeepSentCommits \/ KeepLeft
Persons == GitCommit \/ GitBranch \/ GitDelete \/ Gc \/ Record \/ Amend \/ CarryOnto \/ Receive \/ Name_ \/ DropName

Next == Import \/ Write \/ Stop \/ Persons
Spec == Init /\ [][Next]_vars

----
\* Every reference is to a commit git holds, the record names revisions there
\* are, and no two stand for one commit.
TypeOK ==
  /\ bm \in [Names -> {Nothing} \cup {rev[r].change : r \in DOMAIN rev}]
  /\ held \subseteq DOMAIN commit /\ Reached(held) = held
  /\ \A x \in DOMAIN ref : ref[x] \in held
  /\ DOMAIN rec \subseteq DOMAIN rev
  /\ \A x \in DOMAIN left : left[x].oid \in DOMAIN commit

\* Commits recorded as revisions, and revisions sent as commits, stay one piece
\* of work: the store holds nothing twice under two changes, unless a write was
\* stopped after git took its commits and before the record said so.
Doubled == \E r, q \in DOMAIN rev : rev[r].says.work = rev[q].says.work /\ rev[r].change # rev[q].change
OnlyATornWriteDoubles == "sent" \in torn \/ ~Doubled
NothingIsDoubled == ~Doubled

\* No branch and no bookmark stands, between commands, at work nobody put
\* there, unless an import was stopped before it put back what `record` moved.
OnlyAStopDragsAName ==
  job = Idle /\ "back" \notin torn =>
    \A b \in Names : /\ b \in BranchesNow => Says(ref[Branch(b)]) \in meant[b]
                     /\ bm[b] # Nothing /\ Current(bm[b]) # 0 => rev[Current(bm[b])].says.work \in meant[b]

\* Whatever a commit was read as: itself, or what it stands on where it changes nothing.
RECURSIVE ReadAs(_)
ReadAs(c) == IF RevisionOf(c, Len(rev)) # 0 \/ commit[c].says # NoWork \/ commit[c].on = <<>>
             THEN RevisionOf(c, Len(rev)) ELSE ReadAs(commit[c].on[1])

\* A write takes a branch off a commit only where the store holds its work.
GitsWorkIsKept ==
  [][job = Idle /\ job'.at = "sent" =>
       \A b \in BranchesNow : Branch(b) \notin DOMAIN ref' \/ ref'[Branch(b)] # ref[Branch(b)]
                                => ReadAs(ref[Branch(b)]) # 0]_vars

\* An import takes a bookmark off where it stood, and one whose branch git has where
\* the two last agreed, so that only the store moved it.
TakesOff(b) == job.at = "take" /\ job'.at = "take" /\ bm[b] # Nothing /\ bm'[b] # bm[b]
DragsBack(b) == TakesOff(b) /\ b \in DOMAIN job.cur /\ Branch(b) \in DOMAIN left
                  /\ left[Branch(b)].oid = job.cur[b]

\* An import from a directory apart takes a bookmark off work only where git has had
\* it, and never where only the store moved it. Sharing a directory it may do both.
StoresWorkIsKept ==
  [][\A b \in Names : head = Apart /\ TakesOff(b) =>
       /\ ~DragsBack(b)
       /\ LET r == Current(bm[b]) IN \E c \in DOMAIN commit : commit[c].says = rev[r].says]_vars

\* An import leaves a bookmark where the store moved it if git's branch is where the
\* two last agreed: the side that moved is the side that is right (import.rs). It
\* fails where the two share a directory.
NothingIsDraggedBack == [][~ \E b \in Names : DragsBack(b)]_vars

\* A branch both sides had and git deleted is not made again by a write unless
\* somebody names it again.
DeletionsStand ==
  [][job = Idle /\ job'.at = "sent" => \A b \in binned : Branch(b) \in DOMAIN ref' => Branch(b) \in DOMAIN ref]_vars

\* Once a write is done with git, every current head is reached by a reference.
Placed(r) == IF r \in DOMAIN job.sent THEN job.sent[r] ELSE rec[r]
Reachable(heads) == job.at = "sent" => {Placed(r) : r \in heads} \subseteq Reached({ref[x] : x \in DOMAIN ref})
HeadsAreReachable == torn = {} => Reachable(Childless \cap Visible)

\* And every current revision is.
Tips == {r \in Visible : ~ \E q \in Visible : r \in Parents(q)}
WorkIsReachable == Reachable(Tips)

\* A branch follows a bookmark only where the bookmark stands at other work
\* than git's branch was read as.
OnlyMovedBookmarksMoveBranches ==
  [][job = Idle /\ job'.at = "sent" =>
       \A b \in BranchesNow : Branch(b) \in DOMAIN ref' /\ ref'[Branch(b)] # ref[Branch(b)]
                                => ReadAs(ref[Branch(b)]) # Current(bm[b])]_vars

\* An import removes a bookmark only where git has no such branch.
OnlyDeletedBranchesAreUnnamed == [][job.at = "gone" => \A b \in BranchesNow : bm[b] # Nothing => bm'[b] # Nothing]_vars

\* A commit sent stands on one wherever its revision has an ancestor git has.
ShapeIsKept == job.at = "sent" => \A r \in DOMAIN job.sent : commit[job.sent[r]].on = <<>> => Above(rev, r) \cap Visible \subseteq {r}
====
