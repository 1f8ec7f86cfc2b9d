---------------------------- MODULE ChangeSets ----------------------------
(***************************************************************************)
(* One change set among copies of a store that share it (change_set.rs,    *)
(* with the bookmarks of receive.rs and moving.rs).                        *)
(*                                                                         *)
(* A change set is an opening revision, the steps that stand on it, and    *)
(* four names each copy keeps: its tip, and what was submitted, accepted   *)
(* and declined.  Revisions never change once filed; a copy holds a set of *)
(* them, in whatever order they reached it.                                *)
(*                                                                         *)
(* Names are the mutable part, and two processes write them in each copy: a *)
(* person's command, and the host's sync.  Either opens the copy, decides  *)
(* from the names and revisions it read there, files what it has to file,  *)
(* and then writes its names one at a time.  Nothing locks: set_bookmark   *)
(* writes what was decided, whatever the other wrote meanwhile.  (A filing *)
(* is one step with the reading it rests on: it adds what is new and is    *)
(* made of what was read, so nothing tells it from the same filing later.) *)
(***************************************************************************)
EXTENDS Integers, Sequences, FiniteSets

CONSTANTS
  Copies,
  Scenes   \* what a behaviour may come to: the copy it is proposed in, how many
           \* revisions, how many processes at once, and which commands are run
ASSUME ScenesAssumption == \A s \in Scenes : s.revs \in Nat /\ s.revs >= 2

VARIABLES
  scene,   \* the one of Scenes this behaviour is
  revs,    \* every revision filed anywhere: what it stands on and supersedes
  held,    \* copy -> the revisions it holds
  names,   \* copy -> the revision each of its names pins, or 0
  doing,   \* copy -> what its command and its host have each yet to write
  review   \* copy -> the tip its reviewer saw, or 0
vars == <<scene, revs, held, names, doing, review>>

Facts == {"tip", "submitted", "accepted", "declined"}
Moves == {"tip", "submitted"}
Unnamed == [n \in Facts |-> 0]
Processes == {"command", "host"}
Nothing == [by \in Processes |-> {}]
Ids == 1 .. Len(revs)

\* A name to write: what it read there, and whether it asked that this be forward.
Write(c, name, to, asked) == [name |-> name, to |-> to, was |-> names[c][name], asked |-> asked]

\* Names are written in their own order, the one the copy keeps them in.
Order == [n \in Facts |-> CASE n = "tip" -> 1 [] n = "accepted" -> 2 [] n = "declined" -> 3 [] OTHER -> 4]

\* Revision 1 is what the change set is proposed on, and 2 is other work on it.
Revision(parents, supersedes, opening) ==
  [parents |-> parents, supersedes |-> supersedes, opening |-> opening]

\* What stands beneath r as far as H goes: what every set holds that holds r and,
\* with each revision of H, what it stands on.
Closed(S, H) == \A x \in S \cap H : revs[x].parents \subseteq S
\* (What a revision stands on is there before it.)
Beneath(H, r) ==
  LET holding == {S \in {T \cup {r} : T \in SUBSET (1 .. r - 1)} : Closed(S, H)}
  IN {x \in 1 .. r : \A S \in holding : x \in S}

\* descends: a strict ancestor, as far as the history at hand goes.
Descends_OrSame(H, later, earlier) == earlier \in Beneath(H, later)
Descends(H, later, earlier) == later # earlier /\ earlier \in Beneath(H, later)

Superseded(c) == UNION {revs[r].supersedes : r \in held[c]}
IsTombstone(r) == revs[r].supersedes # {}
-----------------------------------------------------------------------------
(* How a copy reads the change set: Store::read_change_set.                *)

\* ancestry: what a revision stands on, down to the opening and no further.
Ancestry(c, r) == Beneath({x \in held[c] : ~revs[x].opening}, r)

Opening(c) == {r \in Ancestry(c, names[c]["tip"]) \cap held[c] : revs[r].opening}
Readable(c) == names[c]["tip"] \in held[c] /\ Opening(c) # {}

\* The line: what of the tip's ancestry reaches an opening the copy holds.
OnLine(c) ==
  LET openings == {o \in held[c] : revs[o].opening}
  IN {x \in Ancestry(c, names[c]["tip"]) : Ancestry(c, x) \cap openings # {}}

State(c) ==
  CASE names[c]["accepted"] # 0 -> "accepted"
    [] names[c]["accepted"] = 0 /\ names[c]["declined"] # 0 -> "declined"
    [] OTHER -> "undecided"

\* What a decision covers of the line; everything, where there is none to read.
Covered(c) ==
  LET merge == names[c]["accepted"]  tombstone == names[c]["declined"]
      beneath == UNION {Ancestry(c, p) : p \in revs[merge].parents \cap OnLine(c)}
  IN CASE merge \in held[c] -> IF beneath = {} THEN OnLine(c) ELSE beneath
       [] merge \notin held[c] /\ tombstone \in held[c] -> revs[tombstone].supersedes
       [] OTHER -> OnLine(c)

Steps(c) == (OnLine(c) \ Opening(c)) \cap Covered(c)
After(c) == (OnLine(c) \ Opening(c)) \ Covered(c)

Undecided(c) == State(c) = "undecided" /\ Readable(c)
-----------------------------------------------------------------------------
(* What two readings of one name come to.                                  *)
Reconcile_Newest(H, n, ours, theirs) == IF n \in Moves /\ theirs # 0 THEN theirs ELSE ours
Reconcile_Kept(H, n, ours, theirs) == IF ours = 0 THEN theirs ELSE ours
Reconcile(H, n, ours, theirs) ==
  IF ours = theirs \/ theirs = 0 THEN ours
  ELSE IF ours = 0 \/ (n \in Moves /\ Descends(H, theirs, ours)) THEN theirs ELSE ours

Conflict(H, n, ours, theirs) ==
  /\ ours # theirs /\ 0 \notin {ours, theirs}
  /\ n \notin Moves \/ (~Descends(H, theirs, ours) /\ ~Descends(H, ours, theirs))

\* moving::decide, of a name both state: forward along the line, or kept.
Weighed(H, n, ours, theirs) ==
  IF ours = 0 THEN theirs
  ELSE IF n \in Moves /\ theirs # 0 /\ Descends(H, theirs, ours) THEN theirs ELSE ours
-----------------------------------------------------------------------------
Init ==
  /\ scene \in Scenes
  /\ revs = <<Revision({}, {}, FALSE), Revision({1}, {}, FALSE)>>
  /\ held = [c \in Copies |-> {1, 2}]
  /\ names = [c \in Copies |-> Unnamed]
  /\ doing = [c \in Copies |-> Nothing]
  /\ review = [c \in Copies |-> 0]

Idle(c, by) == doing[c][by] = {}
Busy == Cardinality({x \in Copies \X Processes : ~Idle(x[1], x[2])}) >= scene.atOnce
Ready(c) == Idle(c, "command") /\ ~Busy

\* A command files a revision, and has at most one name left to write.
File(c, revision, writes) ==
  /\ Ready(c) /\ Len(revs) < scene.revs
  /\ revs' = Append(revs, revision)
  /\ held' = [held EXCEPT ![c] = @ \cup {Len(revs) + 1}]
  /\ doing' = [doing EXCEPT ![c]["command"] = writes]
  /\ UNCHANGED <<scene, names, review>>

\* A command that files nothing, and has decided on a name.
Decide(c, name, to, asked) ==
  /\ Ready(c)
  /\ doing' = [doing EXCEPT ![c]["command"] = {Write(c, name, to, asked)}]
  /\ UNCHANGED <<scene, revs, held, names, review>>

Propose(c) ==
  /\ c = scene.proposer /\ \A r \in Ids : ~revs[r].opening
  /\ File(c, Revision({1}, {}, TRUE), {Write(c, "tip", Len(revs) + 1, TRUE)})

\* record: the one tip its one parent is, where nothing has decided it here, moves.
\* The work recorded is on the change set, or merges it with the other work.
Stepped(c, parents) ==
  IF parents = {names[c]["tip"]} /\ names[c]["accepted"] = 0 /\ names[c]["declined"] = 0
  THEN {Write(c, "tip", Len(revs) + 1, TRUE)} ELSE {}
Record(c) ==
  \E p \in held[c] \ {1, 2}, q \in held[c] :
    q \in {p, 2} /\ File(c, Revision({p, q}, {}, FALSE), Stepped(c, {p, q}))

\* set_bookmark: the next of its names, over whatever is there by now.
WriteName(c, by) ==
  \E w \in doing[c][by] :
    /\ \A v \in doing[c][by] : Order[w.name] <= Order[v.name]
    /\ names' = [names EXCEPT ![c][w.name] = w.to]
    /\ doing' = [doing EXCEPT ![c][by] = @ \ {w}]
    /\ UNCHANGED <<scene, revs, held, review>>

\* A process stopped before its names are written leaves them.
Stop(c, by) ==
  /\ ~Idle(c, by)
  /\ doing' = [doing EXCEPT ![c][by] = {}]
  /\ UNCHANGED <<scene, revs, held, names, review>>

Advance(c) ==
  /\ Undecided(c)
  /\ \E to \in held[c] : Descends(held[c], to, names[c]["tip"]) /\ Decide(c, "tip", to, TRUE)

\* submit asks that the line has steps, and not where `submitted` was.
Submit(c) ==
  /\ Undecided(c)
  /\ Steps(c) # {} /\ names[c]["submitted"] # names[c]["tip"]
  /\ Decide(c, "submitted", names[c]["tip"], FALSE)

\* A reviewer looks at the tip, before any merge is recorded: acceptable, which
\* asks nothing of what was submitted.
Review(c) ==
  /\ Ready(c) /\ Undecided(c) /\ review[c] # names[c]["tip"]
  /\ review' = [review EXCEPT ![c] = names[c]["tip"]]
  /\ UNCHANGED <<scene, revs, held, names, doing>>

\* The slip of not asking that the tip is still the one reviewed.
Acceptable_Moved(c) == Undecided(c) /\ review[c] # 0
Acceptable(c) == Undecided(c) /\ review[c] = names[c]["tip"]
Accept(c) ==
  /\ Acceptable(c)
  /\ \E m \in held[c] : /\ Cardinality(revs[m].parents) > 1 /\ names[c]["tip"] \in revs[m].parents
                        /\ Decide(c, "accepted", m, TRUE)

\* What else stands on the line, which a decline refuses over.
Standing_Never(c) == {}
Standing(c) ==
  LET line == Opening(c) \cup Steps(c)
  IN {r \in held[c] \ (line \cup Superseded(c)) : revs[r].parents \cap line # {} /\ ~IsTombstone(r)}

Decline(c) ==
  /\ Undecided(c) /\ Standing(c) = {}
  /\ File(c, Revision({1}, (Opening(c) \cup Steps(c)) \ Superseded(c), FALSE),
          {Write(c, "declined", Len(revs) + 1, TRUE)})
-----------------------------------------------------------------------------
(* What travels.                                                           *)
\* A host's own sync inserts the revisions one by one, in any order.
Arrive(c, d) ==
  /\ \E r \in held[d] \ held[c] : held' = [held EXCEPT ![c] = @ \cup {r}]
  /\ UNCHANGED <<scene, revs, names, doing, review>>

\* The names whose reading here another copy's changes, as new has it.
Taken(c, new) == {Write(c, n, new[n], TRUE) : n \in {m \in Facts : new[m] # names[c][m]}}

TakeNames(c, d) ==
  /\ Idle(c, "host") /\ ~Busy
  /\ doing' = [doing EXCEPT ![c]["host"] =
                 Taken(c, [n \in Facts |-> Reconcile(held[c], n, names[c][n], names[d][n])])]
  /\ UNCHANGED <<scene, revs, held, names, review>>

Receive(c, d) ==
  LET H == held[c] \cup held[d] IN
  /\ Ready(c) /\ \A n \in Facts : ~Conflict(H, n, names[c][n], names[d][n])
  /\ held' = [held EXCEPT ![c] = H]
  /\ doing' = [doing EXCEPT ![c]["command"] =
                 Taken(c, [n \in Facts |-> Reconcile(H, n, names[c][n], names[d][n])])]
  /\ UNCHANGED <<scene, revs, names, review>>

Fetch(c, d) ==
  LET H == held[c] \cup held[d] IN
  /\ Ready(c)
  /\ held' = [held EXCEPT ![c] = H]
  /\ doing' = [doing EXCEPT ![c]["command"] =
                 Taken(c, [n \in Facts |-> Weighed(H, n, names[c][n], names[d][n])])]
  /\ UNCHANGED <<scene, revs, names, review>>

Acts(c) ==
  \/ Propose(c) \/ Record(c)
  \/ "advance" \in scene.commands /\ Advance(c)
  \/ "submit" \in scene.commands /\ Submit(c)
  \/ "accept" \in scene.commands /\ (Review(c) \/ Accept(c))
  \/ "decline" \in scene.commands /\ Decline(c)
  \/ \E by \in Processes : WriteName(c, by) \/ Stop(c, by)
Sync(c, d) == Arrive(c, d) \/ TakeNames(c, d) \/ Receive(c, d) \/ Fetch(c, d)
Next == \E c \in Copies : Acts(c) \/ \E d \in Copies \ {c} : Sync(c, d)

\* A host's sync is run again and again, and no process is stopped before its
\* names every time.
Fairness ==
  \A c \in Copies : /\ \A by \in Processes : SF_vars(WriteName(c, by))
                    /\ \A d \in Copies \ {c} : WF_vars(Arrive(c, d)) /\ WF_vars(TakeNames(c, d))
Spec == Init /\ [][Next]_vars /\ Fairness
-----------------------------------------------------------------------------
Revisions == [parents : SUBSET Nat, supersedes : SUBSET Nat, opening : BOOLEAN]
Writes == [name : Facts, to : 0 .. Len(revs), was : 0 .. Len(revs), asked : BOOLEAN]

TypeOK ==
  /\ scene \in Scenes
  /\ revs \in Seq(Revisions) /\ Len(revs) <= scene.revs
  /\ \A r \in Ids : revs[r].parents \cup revs[r].supersedes \subseteq 1 .. r - 1
  /\ held \in [Copies -> SUBSET Ids]
  /\ names \in [Copies -> [Facts -> 0 .. Len(revs)]]
  /\ doing \in [Copies -> [Processes -> SUBSET Writes]]
  /\ review \in [Copies -> 0 .. Len(revs)]

\* A name decided on from a reading that another process has since written over.
Overtaken(c, n) ==
  \E by \in Processes : \E w \in doing[c][by] :
    w \notin doing'[c][by] /\ w.name = n /\ w.was # names[c][n]

\* A submission, which does not ask where `submitted` was.
Submitted(c, n) ==
  n = "submitted" /\ \E w \in doing[c]["command"] : w \notin doing'[c]["command"] /\ w.name = n /\ ~w.asked

(* A tip and what was submitted move forward along the line only, and a    *)
(* decision never moves, whoever writes and whatever of the line has       *)
(* arrived: but for a name written over another process's, from a reading  *)
(* older than it, and a submission of a tip beside what was submitted.     *)
NamesOnlyMoveForward ==
  [][\A c \in Copies, n \in Facts :
       names[c][n] \notin {0, names'[c][n]} /\ ~Overtaken(c, n) /\ ~Submitted(c, n) =>
         n \in Moves /\ Descends(Ids, names'[c][n], names[c][n])]_vars

(* An acceptance holds what its reviewer saw: in every copy that holds the *)
(* whole change set, the steps beneath the tip that was reviewed are of    *)
(* the decision, whatever has been stepped on since.                       *)
AcceptedHoldsTheReviewed ==
  \A c, d \in Copies :
    (names[c]["accepted"] # 0 /\ names[c]["accepted"] = names[d]["accepted"] /\ held[d] = Ids /\ Readable(d))
      => \E t \in {review[e] : e \in Copies} : /\ t \in OnLine(d) => Ancestry(d, t) \cap OnLine(d) \subseteq Covered(d)
                                              /\ t \in revs[names[c]["accepted"]].parents

(* A tombstone supersedes revisions of its own change set and nothing else, *)
(* and no work is left standing on what its copy then has superseded.      *)
DeclineSparesOtherWork ==
  [][\A c \in Copies : Len(revs') \in held'[c] \ Ids =>
       \A r \in held[c] \ Superseded(c) :
          /\ r \in revs'[Len(revs')].supersedes => \E o \in Ids : revs[o].opening /\ o \in Beneath(Ids, r)
          /\ r \notin revs'[Len(revs')].supersedes /\ revs[r].parents \cap revs'[Len(revs')].supersedes # {}
               => IsTombstone(r)]_vars

\* A tip and what was submitted move forward only, a decision never moves, and a
\* decline supersedes revisions of its own change set and nothing else
\* (change_set.rs, store/moving.rs).
NamesMoveForward == NamesOnlyMoveForward /\ DeclineSparesOtherWork

(* A decline takes in all of the line that its copy holds: it is what the  *)
(* change set, declined, is read to cover.                                 *)
DeclineCoversItsLine ==
  \A c \in Copies : (State(c) = "declined" /\ Readable(c) /\ names[c]["declined"] \in held[c]) =>
                      \E r \in Opening(c) : r \in Covered(c)

(* The copies come to one reading of each name, or to two that part, once  *)
(* nobody goes on submitting: a submission may undo what a sync has taken. *)
Settled ==
  \A c, d \in Copies :
    /\ held[c] = held[d]
    /\ \A n \in Facts : names[c][n] = names[d][n] \/ Conflict(held[c], n, names[c][n], names[d][n])
Submitting == \E c \in Copies : \E w \in doing[c]["command"] : ~w.asked
CopiesSettle == <>[]~Submitting => <>[]Settled
=============================================================================
