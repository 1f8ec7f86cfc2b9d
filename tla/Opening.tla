------------------------------ MODULE Opening ------------------------------
(***************************************************************************)
(* Opening a store (Store::open_with, store/revisions.rs): the directories *)
(* of `revisions/` are walked, every document is taken from one cached     *)
(* file or read, what was learned is written back whole, and then the      *)
(* bookmarks are read.  Meanwhile a recording files a revision and then    *)
(* its bookmark, `arrange` renames, `prune` removes, and a person edits a  *)
(* readable file.  Sizes are all alike, so a modification time is the only *)
(* thing that tells two texts of a path apart; it has the grain of `clock`.*)
(***************************************************************************)
EXTENDS Naturals, Functions

CONSTANTS
    RevisionTexts, \* what a revision file may hold; a digest is the text
    Unparsable,   \* the texts among them that are no revision
    Paths,        \* where revision files may be
    DirOf,        \* the directory of each
    Names,        \* bookmarks
    Readers,      \* commands that open the store
    MaxOpens,     \* opens ever begun: a bound
    MaxActs,      \* what everybody else does: a bound
    MaxClock      \* a bound

VARIABLES
    files,    \* path -> its text and the time it was written
    names,    \* bookmark -> the revision it names
    cache,    \* the cached file: when it was written, and its entries by path
    clock,
    pending,  \* revisions filed whose bookmark has not moved, by bookmark
    opening,  \* each reader's open
    opens, acts,
    unseen    \* paths that hold another text under a time somebody has noted

vars == <<files, names, cache, clock, pending, opening, opens, acts, unseen>>

Nothing == [x \in {} |-> x]
With(g, x, y) == [z \in DOMAIN g \cup {x} |-> IF z = x THEN y ELSE g[z]]
Without(g, x) == Restrict(g, DOMAIN g \ {x})
Dirs == Range(DirOf)
NoCache == [at |-> 0, held |-> Nothing]
Closed == [stage |-> "closed", dirs |-> {}, todo |-> {}, held |-> NoCache,
           taken |-> {}, stamped |-> Nothing, docs |-> Nothing, named |-> Nothing,
           disturbed |-> {}, filed |-> {}]

TextsHere == {files[p].text : p \in DOMAIN files}

-----------------------------------------------------------------------------
Init ==
    /\ files = Nothing
    /\ names = Nothing
    /\ cache = NoCache
    /\ clock = 1
    /\ pending = Nothing
    /\ opening = [r \in Readers |-> Closed]
    /\ opens = 0
    /\ acts = 0
    /\ unseen = {}

\* The header is looked at, and what a store used to cache beside itself is
\* deleted; neither says anything of the revisions.
Open(r) ==
    /\ opening[r].stage \in {"closed", "open", "refused"}
    /\ opens < MaxOpens
    /\ opens' = opens + 1
    /\ opening' = [opening EXCEPT ![r] = [Closed EXCEPT !.stage = "walk", !.dirs = Dirs]]
    /\ UNCHANGED <<files, names, cache, clock, pending, acts, unseen>>

List_Shallow(r) ==
    /\ opening[r].stage = "walk"
    /\ \E d \in opening[r].dirs :
          opening' = [opening EXCEPT ![r].dirs = {},
                                     ![r].todo = @ \cup {p \in DOMAIN files : DirOf[p] = d}]
    /\ UNCHANGED <<files, names, cache, clock, pending, opens, acts, unseen>>

\* `walk`: one directory listed after another.
List(r) ==
    /\ opening[r].stage = "walk"
    /\ \E d \in opening[r].dirs :
          opening' = [opening EXCEPT ![r].dirs = @ \ {d},
                                     ![r].todo = @ \cup {p \in DOMAIN files : DirOf[p] = d}]
    /\ UNCHANGED <<files, names, cache, clock, pending, opens, acts, unseen>>

HeldDocuments_Complete(r) ==
    /\ opening[r].stage = "walk"
    /\ opening[r].dirs = {}
    /\ opening' = [opening EXCEPT ![r].stage = "load", ![r].held = cache,
                      ![r].todo = IF cache = NoCache THEN @ ELSE @ \cap DOMAIN cache.held]
    /\ UNCHANGED <<files, names, cache, clock, pending, opens, acts, unseen>>

HeldDocuments_Union(r) ==
    /\ opening[r].stage = "walk"
    /\ opening[r].dirs = {}
    /\ opening' = [opening EXCEPT ![r].stage = "load", ![r].held = cache,
                      ![r].todo = @ \cup DOMAIN cache.held]
    /\ UNCHANGED <<files, names, cache, clock, pending, opens, acts, unseen>>

HeldDocuments(r) ==
    /\ opening[r].stage = "walk"
    /\ opening[r].dirs = {}
    /\ opening' = [opening EXCEPT ![r].stage = "load", ![r].held = cache]
    /\ UNCHANGED <<files, names, cache, clock, pending, opens, acts, unseen>>

Believed_Running(held, p, at) == p \in DOMAIN held.held /\ held.held[p].at = at

\* The entry for a path, if everything about it still stands.
Believed(held, p, at) ==
    /\ p \in DOMAIN held.held
    /\ held.held[p].at = at
    /\ at < held.at

\* What the directory says of a file, and the cached document where that is
\* what its entry says.
Stamp(r) ==
    LET o == opening[r]
    IN  /\ o.stage = "load"
        /\ \E p \in o.todo \ DOMAIN o.stamped :
              /\ DOMAIN o.stamped \cap o.todo = {}
              /\ IF p \in DOMAIN files /\ Believed(o.held, p, files[p].at)
                   THEN opening' = [opening EXCEPT
                            ![r].todo = @ \ {p},
                            ![r].taken = @ \cup {p},
                            ![r].stamped = With(@, p, files[p].at),
                            ![r].docs = With(@, p, o.held.held[p].text)]
                   ELSE opening' = [opening EXCEPT
                            ![r].stamped = With(@, p, IF p \in DOMAIN files THEN files[p].at ELSE 0)]
    /\ UNCHANGED <<files, names, cache, clock, pending, opens, acts, unseen>>

\* The file itself, where the cache could not say.
ReadFile(r) ==
    LET o == opening[r]
    IN  /\ o.stage = "load"
        /\ \E p \in o.todo \cap DOMAIN o.stamped :
              IF p \in DOMAIN files /\ files[p].text \notin Unparsable
                THEN opening' = [opening EXCEPT ![r].todo = @ \ {p},
                                                ![r].docs = With(@, p, files[p].text)]
                ELSE opening' = [opening EXCEPT ![r].stage = "refused"]
    /\ UNCHANGED <<files, names, cache, clock, pending, opens, acts, unseen>>

Rendered_Unstamped(o) ==
    [at |-> clock,
     held |-> [p \in DOMAIN o.docs |-> [text |-> o.docs[p], at |-> o.stamped[p]]]]

\* Written back whole where this pass and the file disagreed: what was
\* believed unchanged, and what was opened under the stamp taken before.
Rendered(o) ==
    [at |-> clock,
     held |-> [p \in {q \in DOMAIN o.docs : o.stamped[q] > 0} |->
                   [text |-> o.docs[p], at |-> o.stamped[p]]]]

Write(r) ==
    LET o == opening[r]
    IN  /\ o.stage = "load"
        /\ o.todo = {}
        /\ cache' = IF o.taken = DOMAIN o.docs /\ o.taken = DOMAIN o.held.held
                      THEN cache ELSE Rendered(o)
        /\ opening' = [opening EXCEPT ![r].stage = "names"]
    /\ UNCHANGED <<files, names, clock, pending, opens, acts, unseen>>

ReadNames(r) ==
    /\ opening[r].stage = "names"
    /\ opening' = [opening EXCEPT ![r].stage = "open", ![r].named = names,
                                  ![r].held = NoCache]
    /\ UNCHANGED <<files, names, cache, clock, pending, opens, acts, unseen>>

-----------------------------------------------------------------------------
(* Everybody else. *)

Underway == {r \in Readers : opening[r].stage \in {"walk", "load", "names"}}
Disturb(ps, texts) ==
    [r \in Readers |-> IF opening[r].stage = "closed" THEN opening[r]
                       ELSE [opening[r] EXCEPT !.disturbed = @ \cup ps, !.filed = @ \cup texts]]

\* The times opens have noted a path at, and what a text put there under a
\* time does to what a reader may notice.
Noted(p) ==
    {h.held[p].at : h \in {g \in {cache} \cup {opening[r].held : r \in Underway} :
                               p \in DOMAIN g.held /\ g.held[p].at < g.at}}
        \cup {opening[r].stamped[p] : r \in {s \in Underway : p \in DOMAIN opening[s].stamped}}
Unseen(p, at) == IF at \in Noted(p) THEN unseen \cup {p} ELSE unseen \ {p}

\* A recording: the revision, and then the bookmark.
Record ==
    /\ acts < MaxActs
    /\ acts' = acts + 1
    /\ \E b \in Names \ DOMAIN pending, t \in RevisionTexts \ (TextsHere \cup Unparsable),
          p \in Paths \ DOMAIN files :
          /\ files' = With(files, p, [text |-> t, at |-> clock])
          /\ pending' = With(pending, b, t)
          /\ opening' = Disturb({p}, {t})
          /\ unseen' = Unseen(p, clock)
    /\ UNCHANGED <<names, cache, clock, opens>>

MoveTheName ==
    /\ \E b \in DOMAIN pending :
          /\ names' = With(names, b, pending[b])
          /\ pending' = Without(pending, b)
    /\ UNCHANGED <<files, cache, clock, opening, opens, acts, unseen>>

\* The recording stops in between.
StopRecording ==
    /\ \E b \in DOMAIN pending : pending' = Without(pending, b)
    /\ UNCHANGED <<files, names, cache, clock, opening, opens, acts, unseen>>

\* A hand saves another text over a file.
Edit ==
    /\ acts < MaxActs
    /\ acts' = acts + 1
    /\ \E p \in DOMAIN files, t \in RevisionTexts \ TextsHere :
          /\ files' = [files EXCEPT ![p] = [text |-> t, at |-> clock]]
          /\ opening' = Disturb({p}, {t, files[p].text})
          /\ unseen' = Unseen(p, clock)
    /\ UNCHANGED <<names, cache, clock, pending, opens>>

\* `arrange`: the file keeps the time it was written.
Rename ==
    /\ acts < MaxActs
    /\ acts' = acts + 1
    /\ \E p \in DOMAIN files, q \in Paths \ DOMAIN files :
          /\ files' = With(Without(files, p), q, files[p])
          /\ opening' = Disturb({p, q}, {files[p].text})
          /\ unseen' = Unseen(q, files[p].at) \ {p}
    /\ UNCHANGED <<names, cache, clock, pending, opens>>

\* `prune`: a revision no bookmark keeps.
Prune ==
    /\ acts < MaxActs
    /\ acts' = acts + 1
    /\ \E p \in DOMAIN files :
          /\ files[p].text \notin Range(names) \cup Range(pending)
          /\ files' = Without(files, p)
          /\ opening' = Disturb({p}, {files[p].text})
          /\ unseen' = unseen \ {p}
    /\ UNCHANGED <<names, cache, clock, pending, opens>>

Tick ==
    /\ clock < MaxClock
    /\ clock' = clock + 1
    /\ UNCHANGED <<files, names, cache, pending, opening, opens, acts, unseen>>

Next ==
    \/ \E r \in Readers : \/ Open(r) \/ List(r) \/ HeldDocuments(r) \/ Stamp(r)
                          \/ ReadFile(r) \/ Write(r) \/ ReadNames(r)
    \/ Record \/ MoveTheName \/ StopRecording \/ Edit \/ Rename \/ Prune \/ Tick

Spec == Init /\ [][Next]_vars

-----------------------------------------------------------------------------
Opened(r) == opening[r].stage = "open"

\* Entries are of texts that were read, and no later than the cache itself.
TypeOK ==
    /\ DOMAIN files \subseteq Paths
    /\ DOMAIN names \subseteq Names
    /\ \A p \in DOMAIN cache.held : /\ cache.held[p].text \in RevisionTexts \ Unparsable
                                    /\ cache.held[p].at \in 1 .. cache.at
    /\ \A r \in Readers : DOMAIN opening[r].docs \subseteq DOMAIN opening[r].stamped

\* What an open took a file to hold is what it holds, unless somebody touched
\* it meanwhile, or it holds another text under the time some open noted.
StaleOnlyUnderAnOldTime ==
    \A r \in Readers : Opened(r) =>
        \A p \in DOMAIN opening[r].docs :
            \/ p \in opening[r].disturbed \cup unseen
            \/ p \notin DOMAIN files
            \/ files[p].text = opening[r].docs[p]

\* A revision whose file stood still is never missing from the history.
StandingRevisionsAreRead ==
    \A r \in Readers : Opened(r) =>
        \A p \in DOMAIN files : p \notin opening[r].disturbed => p \in DOMAIN opening[r].docs

\* A bookmark an open read names a revision that open holds, unless that
\* revision was filed, edited or moved while it ran, is gone from the store,
\* or is in a file whose old text is still believed.
NamesFindTheirRevisions ==
    \A r \in Readers : Opened(r) =>
        \A b \in DOMAIN opening[r].named :
            \/ opening[r].named[b] \in Range(opening[r].docs)
            \/ opening[r].named[b] \in opening[r].filed
            \/ \A p \in DOMAIN files : files[p].text = opening[r].named[b] => p \in unseen

\* An open is refused over a file that does not parse, or one that left
\* between the walk and the reading, and never over what the cache held.
RefusedForAReason ==
    \A r \in Readers : opening[r].stage = "refused" =>
        \/ opening[r].disturbed # {}
        \/ TextsHere \cap Unparsable # {}

=============================================================================
