----------------------------- MODULE Redaction -----------------------------
(***************************************************************************)
(* Forgetting, and what a reader believes (src/store/forget.rs,            *)
(* src/store/receive.rs, src/store/catalogue.rs, src/store/mod.rs).        *)
(*                                                                         *)
(* One file of lines and its linear history: revision d names document d,  *)
(* which adds and drops items and states the digest of the text it leaves. *)
(* Forgetting an item files, for every document that quotes it, a stand-in *)
(* with the item marked, and destroys the original; the stand-ins of one   *)
(* document are read together.  A reader is quick because of two caches on *)
(* disk: a catalogue of operations/, which says what forgets what, and the *)
(* texts kept from earlier readings, found by the digest an original       *)
(* states.  Neither is locked, and a command may stop between two files.   *)
(*                                                                         *)
(* Documents are filed at the top of operations/ under their digest, where *)
(* `forget', `receive' and a sync put them.                                *)
(***************************************************************************)
EXTENDS Naturals, FiniteSets, Sequences

CONSTANTS
  Item,      \* the lines ever written in the file
  Adds,      \* Adds[d]: the items document d inserts
  Drops,     \* Drops[d]: the items it deletes, which it quotes to do so
  Command,   \* the commands that may be running at once
  Kinds,     \* which of them people run: read, record, forget, receive, sync
  Stops      \* the steps at which a command may be stopped

Doc == 1..Len(Adds)
Kind == {"read", "record", "forget", "receive", "sync"}
Step == {"none", "learned", "opened", "replayed", "shown", "filed", "writing",
         "complying", "dropped", "clearing", "done"}

ASSUME HistoryAssumption ==
  /\ Adds \in Seq(SUBSET Item) /\ Adds # << >> /\ Drops \in [Doc -> SUBSET Item]
  /\ \A d, e \in Doc : d # e => Adds[d] \cap Adds[e] = {}
ASSUME KindsAssumption == Kinds \subseteq Kind /\ Stops \subseteq Step

VARIABLES
  files,      \* operations/ on the disk
  revisions,  \* revisions/ on the disk
  catalogue,  \* the cached catalogue, as the files it names; {} is none
  states,     \* the cached texts, each the set of items it shows
  run         \* run[p]: the command p is, or Idle

vars == <<files, revisions, catalogue, states, run>>
-----------------------------------------------------------------------------
\* The items whose text document d holds.
Quotes(d) == Adds[d] \cup Drops[d]

\* A file of operations/: an original marks nothing, a stand-in something it
\* would have quoted.
File == UNION {[doc : {d}, marks : SUBSET Quotes(d)] : d \in Doc}
Original(d) == [doc |-> d, marks |-> {}]
StandIns(F, d) == {f \in F : f.doc = d /\ f.marks # {}}

\* The items of the file as revision d leaves it.
Shows ==
  [d \in 0..Len(Adds) |->
     {i \in Item : \E e \in 1..d : i \in Adds[e] /\ \A f \in e + 1..d : i \notin Drops[f]}]

\* The union rule: an item is forgotten if any held stand-in marks it.
Marked(F, d) == UNION {f.marks : f \in StandIns(F, d)}

\* The store can say something in place of d.
Answered(F, d) == \E f \in F : f.doc = d

\* The items whose own insertion is marked.
Forgotten(F) == UNION {Adds[d] \cap Marked(F, d) : d \in Doc}

\* A command and how far it is: the files it knows, and whether from a walk;
\* what it records or reads, forgets, has left to write, to destroy and to land.
Run ==
  {r \in [kind : Kind \cup {"none"}, step : Step, after : Step, known : SUBSET File,
          walked : BOOLEAN, doc : Doc \cup {0}, items : SUBSET Item, writes : SUBSET File,
          targets : SUBSET Doc, destroys : SUBSET File, lands : SUBSET Doc,
          clears : BOOLEAN, shown : SUBSET Item, hidden : SUBSET Item] :
     r.kind \in {"read", "record"} => r.doc \in Doc}

Idle == [kind |-> "none", step |-> "none", after |-> "none", known |-> {},
         walked |-> FALSE, doc |-> 0, items |-> {}, writes |-> {}, targets |-> {},
         destroys |-> {}, lands |-> {}, clears |-> FALSE, shown |-> {}, hidden |-> {}]

\* The command p becomes r.
Put(p, r) == run' = [run EXCEPT ![p] = r]

At(p, kind, step) == run[p].kind = kind /\ run[p].step = step

\* Slip: the catalogue is learned from, and the texts are left.
Learn_KeepsStates(p, r, next) ==
  /\ Put(p, IF r.known = catalogue THEN [r EXCEPT !.step = next]
            ELSE [r EXCEPT !.step = "learned", !.after = next])
  /\ UNCHANGED states

\* Command p, now r, has read files the cached catalogue does not name.  The
\* texts kept from before a stand-in among them go first, and the catalogue
\* that stops the next reader seeing it arrive is written after.
Learn(p, r, next) ==
  /\ states' = IF \E f \in r.known \ catalogue : f.marks # {} THEN {} ELSE states
  /\ Put(p, IF r.known = catalogue THEN [r EXCEPT !.step = next]
            ELSE [r EXCEPT !.step = "learned", !.after = next])

KeepCatalogue(p) ==
  /\ run[p].step = "learned"
  /\ catalogue' = run[p].known
  /\ Put(p, [run[p] EXCEPT !.step = run[p].after])
  /\ UNCHANGED <<files, revisions, states>>

\* A command takes the cached catalogue, and looks at the top of operations/
\* for what it does not name; where none is kept it reads the directory.
Start(p, command) ==
  /\ run[p] = Idle
  /\ Learn(p, [command EXCEPT !.known = catalogue \cup files, !.hidden = Forgotten(files)],
           "opened")
  /\ UNCHANGED <<files, revisions, catalogue>>

\* The pass over the directory, paid for where the catalogue cannot answer.
Walk(p, next) ==
  /\ ~run[p].walked
  /\ Learn(p, [run[p] EXCEPT !.known = files, !.walked = TRUE], next)
  /\ UNCHANGED <<files, revisions, catalogue>>

\* A document that is gone and that nothing known stands in for.
Unplaced(p, d) == Original(d) \notin files /\ StandIns(run[p].known, d) = {}

\* `upgrade': any command may come upon something it cannot place.
Upgrade(p) ==
  /\ run[p].step = "opened"
  /\ run[p].kind \in {"forget", "receive"} \/ \E d \in revisions : Unplaced(p, d)
  /\ Walk(p, "opened")
-----------------------------------------------------------------------------
(* Reading a revision. *)

\* The revisions behind d at which a kept text of its file is believed: an
\* original states the digest the text is kept under, and a stand-in does not.
Kept(d) == {e \in 1..d : Original(e) \in files /\ Shows[e] \in states}

\* The walk starts at the newest kept text and replays what came after, each
\* document as the stand-ins the command knows leave it.
Replay(p) ==
  LET d == run[p].doc
      base == IF Kept(d) = {} THEN 0 ELSE CHOOSE e \in Kept(d) : \A f \in Kept(d) : f <= e
      shown == Shows[d] \ UNION {Adds[e] \cap Marked(run[p].known, e) : e \in base + 1..d}
  IN  /\ At(p, "read", "opened")
      /\ \A e \in base + 1..d : ~Unplaced(p, e)
      /\ Put(p, [run[p] EXCEPT !.shown = shown,
                               !.step = IF base = d THEN "shown" ELSE "replayed"])
      /\ UNCHANGED <<files, revisions, catalogue, states>>

\* A reading that cost enough is kept, under the digest of its own bytes.  One
\* with a marker in it is kept where nothing will ask for it.
KeepState(p) ==
  /\ At(p, "read", "replayed")
  /\ states' = IF run[p].shown = Shows[run[p].doc] THEN states \cup {run[p].shown} ELSE states
  /\ Put(p, [run[p] EXCEPT !.step = "shown"])
  /\ UNCHANGED <<files, revisions, catalogue>>
-----------------------------------------------------------------------------
(* Recording the next revision: the document, the revision that names it, and *)
(* then the catalogue. *)

FileDocument(p) ==
  /\ At(p, "record", "opened")
  /\ files' = files \cup {Original(run[p].doc)}
  /\ Put(p, [run[p] EXCEPT !.known = @ \cup {Original(run[p].doc)}, !.step = "filed"])
  /\ UNCHANGED <<revisions, catalogue, states>>

FileRevision(p) ==
  /\ At(p, "record", "filed")
  /\ revisions' = revisions \cup {run[p].doc}
  /\ Put(p, [run[p] EXCEPT !.step = "learned", !.after = "done"])
  /\ UNCHANGED <<files, catalogue, states>>
-----------------------------------------------------------------------------
(* Forgetting items, and receiving another store. *)

\* Slip: the deletes that quote an item back are forgotten about.
StandInsFor_Inserts(known, items, R) ==
  {[doc |-> d, marks |-> Marked(known, d) \cup (Adds[d] \cap items)] :
     d \in {e \in R : ~(Adds[e] \cap items \subseteq Marked(known, e))}}

\* For every document of R that quotes one of the items and does not have it
\* marked already, a stand-in that marks it as well as all that was marked.
StandInsFor(known, items, R) ==
  {[doc |-> d, marks |-> Marked(known, d) \cup (Quotes(d) \cap items)] :
     d \in {e \in R : ~(Quotes(e) \cap items \subseteq Marked(known, e))}}

\* Slip: what is destroyed is what a stand-in is about to be written for.
PlanForget_Written(p) ==
  LET r == run[p]
      writes == StandInsFor(r.known, r.items, revisions)
  IN  /\ At(p, "forget", "opened")
      /\ \A d \in revisions : ~Unplaced(p, d)
      /\ Put(p, [run[p] EXCEPT !.step = "writing", !.clears = TRUE, !.writes = writes,
                               !.targets = {d \in revisions : Quotes(d) \cap r.items # {}},
                               !.destroys = {Original(f.doc) : f \in writes} \cap files])
      /\ UNCHANGED <<files, revisions, catalogue, states>>

\* `forget_plan': every quote of the items in what is held, and the originals
\* of the documents with one.
PlanForget(p) ==
  LET r == run[p]
      targets == {d \in revisions : Quotes(d) \cap r.items # {}}
  IN  /\ At(p, "forget", "opened")
      /\ \A d \in revisions : ~Unplaced(p, d)
      /\ Put(p, [run[p] EXCEPT !.step = "writing", !.clears = TRUE,
                               !.targets = targets,
                               !.writes = StandInsFor(r.known, r.items, revisions),
                               !.destroys = {Original(d) : d \in targets} \cap files])
      /\ UNCHANGED <<files, revisions, catalogue, states>>

\* `receive_plan' from a store that holds S and the revisions R: all of it but
\* the originals that a stand-in on either side forgets.
PlanReceive(p, S, R) ==
  LET known == run[p].known
      forgotten == {f.doc : f \in {g \in known \cup S : g.marks # {}}}
  IN  /\ At(p, "receive", "opened") /\ run[p].walked
      /\ Put(p, [run[p] EXCEPT !.step = "writing",
                               !.writes = (S \ known) \ {Original(d) : d \in forgotten},
                               !.targets = {d \in forgotten : Original(d) \in known},
                               !.lands = R \ revisions])
      /\ UNCHANGED <<files, revisions, catalogue, states>>

Write(p, f) ==
  /\ run[p].step = "writing" /\ f \in run[p].writes
  /\ files' = files \cup {f}
  /\ Put(p, [run[p] EXCEPT !.writes = @ \ {f}, !.known = @ \cup {f}])
  /\ UNCHANGED <<revisions, catalogue, states>>

\* What a receive is to destroy is looked for once everything is filed, and
\* the kept texts are cleared only if there is any.  A forget looked before.
Comply(p) ==
  LET found == {Original(d) : d \in run[p].targets} \cap files
  IN  /\ run[p].step = "writing" /\ run[p].writes = {}
      /\ Put(p, IF run[p].kind = "forget" THEN [run[p] EXCEPT !.step = "complying"]
                ELSE [run[p] EXCEPT !.step = "complying", !.destroys = found,
                                    !.clears = (found # {})])
      /\ UNCHANGED <<files, revisions, catalogue, states>>

\* Slip: originals are destroyed as soon as the plan is made.
Destroy_First(p, f) ==
  /\ run[p].step \in {"writing", "complying"} /\ f \in run[p].destroys \cap files
  /\ files' = files \ {f}
  /\ Put(p, [run[p] EXCEPT !.destroys = @ \ {f}])
  /\ UNCHANGED <<revisions, catalogue, states>>

\* A file that is gone when it is to be destroyed is the disk's error, and the
\* command ends there.
Destroy(p, f) ==
  /\ run[p].step = "complying" /\ f \in run[p].destroys
  /\ files' = files \ {f}
  /\ Put(p, IF f \in files THEN [run[p] EXCEPT !.destroys = @ \ {f}] ELSE Idle)
  /\ UNCHANGED <<revisions, catalogue, states>>

\* The catalogue to take files out of has to be a walked one.
WalkToDrop(p) ==
  /\ run[p].step = "complying" /\ run[p].destroys = {}
  /\ Walk(p, "complying")

\* What was destroyed leaves the catalogue, which is written to the cache.
DropFromCatalogue(p) ==
  LET left == run[p].known \ {Original(d) : d \in run[p].targets}
  IN  /\ run[p].step = "complying" /\ run[p].destroys = {} /\ run[p].walked
      /\ catalogue' = left
      /\ Put(p, [run[p] EXCEPT !.known = left,
                               !.step = IF run[p].clears THEN "clearing" ELSE "dropped"])
      /\ UNCHANGED <<files, revisions, states>>

ClearCache(p) ==
  /\ run[p].step = "clearing"
  /\ states' = {}
  /\ Put(p, [run[p] EXCEPT !.step = "dropped"])
  /\ UNCHANGED <<files, revisions, catalogue>>

\* Slip: revisions are filed before what they name.
Land_Early(p, d) ==
  /\ run[p].step \in {"writing", "dropped"} /\ d \in run[p].lands
  /\ revisions' = revisions \cup {d}
  /\ Put(p, [run[p] EXCEPT !.lands = @ \ {d}])
  /\ UNCHANGED <<files, catalogue, states>>

\* Last of all the revisions received.
Land(p, d) ==
  /\ run[p].step = "dropped" /\ d \in run[p].lands
  /\ revisions' = revisions \cup {d}
  /\ Put(p, [run[p] EXCEPT !.lands = @ \ {d}])
  /\ UNCHANGED <<files, catalogue, states>>

Complied(p) ==
  /\ run[p].step = "dropped" /\ run[p].lands = {}
  /\ Put(p, [run[p] EXCEPT !.step = "done"])
  /\ UNCHANGED <<files, revisions, catalogue, states>>
-----------------------------------------------------------------------------
Finish(p) ==
  /\ run[p].step \in {"replayed", "shown", "done"}
  /\ Put(p, Idle)
  /\ UNCHANGED <<files, revisions, catalogue, states>>

\* A command stops between two files, by a crash or a refusal of the disk.
Stop(p) ==
  /\ Put(p, Idle)
  /\ UNCHANGED <<files, revisions, catalogue, states>>

\* A sync that copies files and deletes nothing brings in a stand-in, or an
\* original somebody forgot here.
Sync(f) ==
  /\ f \notin files /\ f.doc \in revisions
  /\ files' = files \cup {f}
  /\ UNCHANGED <<revisions, catalogue, states, run>>

Init ==
  /\ files = {Original(1)} /\ revisions = {1}
  /\ catalogue = {} /\ states = {}
  /\ run = [p \in Command |-> Idle]

\* The stores one may receive from are complete ones: each revision they have
\* is answered for, by its original or by one stand-in.
Sources == {S \in SUBSET File : \A f, g \in S : f # g => f.doc # g.doc}

\* What somebody reads before recording d.  A line they cannot read, because
\* it is forgotten, they do not quote: recordings of that are left out.
Behind(d) == 1..d - 1

\* Every step of the commands of these kinds, stopped at these steps.
Acts(kinds, stops) ==
  \/ \E p \in Command :
       \/ "read" \in kinds /\ \E d \in revisions : Behind(d) \subseteq revisions
                               /\ Start(p, [Idle EXCEPT !.kind = "read", !.doc = d])
       \/ "record" \in kinds /\ \E d \in Doc \ revisions : Behind(d) \subseteq revisions
                               /\ Drops[d] \cap Forgotten(files) = {}
                               /\ Start(p, [Idle EXCEPT !.kind = "record", !.doc = d])
       \/ "forget" \in kinds /\ \E i \in UNION {Shows[d] : d \in revisions} :
            Start(p, [Idle EXCEPT !.kind = "forget", !.items = {i}])
       \/ "receive" \in kinds /\ Start(p, [Idle EXCEPT !.kind = "receive"])
       \/ KeepCatalogue(p) \/ Upgrade(p) \/ Replay(p) \/ KeepState(p)
       \/ FileDocument(p) \/ FileRevision(p)
       \/ PlanForget(p)
       \/ run[p].kind = "receive" /\ \E S \in Sources : PlanReceive(p, S, {f.doc : f \in S})
       \/ \E f \in run[p].writes : Write(p, f)
       \/ Comply(p) \/ WalkToDrop(p) \/ DropFromCatalogue(p) \/ ClearCache(p)
       \/ \E f \in run[p].destroys : Destroy(p, f)
       \/ \E d \in run[p].lands : Land(p, d)
       \/ Complied(p) \/ Finish(p)
       \/ run[p].step \in stops /\ Stop(p)
  \/ "sync" \in kinds /\ \E f \in File : Sync(f)

Next == Acts(Kinds, Stops)
Spec == Init /\ [][Next]_vars
-----------------------------------------------------------------------------
\* Files are originals and stand-ins that mark what their document quotes, and
\* a cached text is one that some document states the digest of.
TypeOK ==
  /\ files \subseteq File /\ catalogue \subseteq File
  /\ revisions \subseteq Doc
  /\ states \subseteq {Shows[d] : d \in Doc}
  /\ run \in [Command -> Run]

\* Whatever was stopped where, a revision on the disk has its document or a
\* stand-in for it: contents are filed before the revision that names them,
\* and a stand-in before its original is destroyed.
RevisionsAnswered == \A d \in revisions : Answered(files, d)

\* Decisions 0014 and 0079: a redaction wins over the original, in whatever
\* order and by whatever transport the two arrive.  A command that opened the
\* store when a stand-in marked an item does not show that item.
RedactionsAreRead ==
  \A p \in Command : run[p].step \in {"replayed", "shown"} => run[p].shown \cap run[p].hidden = {}

\* "An item forgotten once is forgotten everywhere it is quoted": after a
\* forget, first or repeated, every document that quotes the items has stand-ins
\* that between them mark each of those quotes.
ForgetReachesEveryQuote ==
  \A p \in Command : At(p, "forget", "done") =>
    \A d \in run[p].targets : Quotes(d) \cap run[p].items \subseteq Marked(files, d)

\* What forgetting is for: the items are not shown again, and every quote of
\* them is found.
ForgettingHolds == RedactionsAreRead /\ ForgetReachesEveryQuote

\* After a forget, first or repeated after any stop, no original that a revision
\* names and that quotes one of the items is left, in a store no sync writes into.
ForgetDestroysOriginals ==
  \A p \in Command : At(p, "forget", "done") =>
    \A d \in revisions : Original(d) \in files => Quotes(d) \cap run[p].items = {}

\* The test forgetting_destroys_every_quote_and_the_history_still_materialises:
\* the text is not recoverable "from anything else the store still holds".
ForgottenTextIsGone ==
  \A p \in Command : At(p, "forget", "done") =>
    \A f \in files : (Quotes(f.doc) \ f.marks) \cap run[p].items = {}
=============================================================================
