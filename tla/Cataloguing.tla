----------------------------- MODULE Cataloguing -----------------------------
(***************************************************************************)
(* Where each file of `operations/` is (store/catalogue.rs), and the       *)
(* commands that ask, file, destroy and rename there (store/mod.rs,        *)
(* store/arrange.rs).  A catalogue says which path holds which digest.  It *)
(* is kept in a cache, taken from there by each command, added to, and     *)
(* written back whole; meanwhile other commands do the same, and a hand or *)
(* a syncer moves the files.  A file is the digest of what it holds.  What *)
(* a redaction does to the text of a file is in module Redaction.          *)
(***************************************************************************)
EXTENDS Naturals, FiniteSets, Functions

CONSTANTS
    Documents,   \* the digests of documents
    Payloads,    \* and of payloads
    Forgets,     \* which digest each forgetting document stands in for
    Top,         \* the name a document is filed under at the top
    Beside,      \* where the stand-in for the payload at a path is looked for
    Arranged,    \* where arranging puts the files revisions name
    Spots,       \* where else a hand or a syncer puts things, by digest
    Scenes,      \* the sets of digests a behaviour may be about
    Commands,    \* processes
    MaxRuns,     \* commands ever started: a bound
    MaxActs      \* what others do to the directory: a bound

VARIABLES
    files,       \* what each path under operations/ holds
    cache,       \* the cached catalogue: where each digest is
    cmd,         \* the commands, as they stand
    runs, acts,
    scene,       \* the digests this behaviour is about
    strayed      \* whether a file left where the cached catalogue may name it

vars == <<files, cache, cmd, runs, acts, scene, strayed>>

Nothing == [x \in {} |-> x]
Ids == Documents \cup Payloads
Here == Range(files)
Idle == [does |-> "nothing", id |-> "none", stage |-> "idle", at |-> Nothing,
         walked |-> FALSE, moves |-> {}, said |-> "nothing",
         looks |-> {},     \* the paths a search has listed and not read yet
         seen |-> {},      \* what it has read since
         astray |-> FALSE, \* whether what it took of the catalogue had strayed
         moved |-> {}]     \* what others moved since it began

\* The directory with a file at a path, and with nothing there.
Placed(p, id) == [q \in DOMAIN files \cup {p} |-> IF q = p THEN id ELSE files[q]]
Without(p) == Restrict(files, DOMAIN files \ {p})
Renamed(from, to) ==
    [q \in (DOMAIN files \ {from}) \cup {to} |-> IF q = to THEN files[from] ELSE files[q]]

First_Anywhere(paths) == CHOOSE p \in DOMAIN files : TRUE

\* The first name in the walk's order a digest sits at.
First(paths) == CHOOSE p \in paths : TRUE

\* What a pass takes each path to hold: what the held catalogue says of that
\* path, and what a read of the file says where it says nothing.
Believed(p) ==
    LET saying == {id \in DOMAIN cache : cache[id] = p}
    IN  IF saying # {} THEN CHOOSE id \in saying : TRUE ELSE files[p]

Pass ==
    LET holding == [p \in DOMAIN files |-> Believed(p)]
    IN  [id \in Range(holding) |-> First({p \in DOMAIN files : holding[p] = id})]

\* The pass writes what it learned where it and the held catalogue differ.
Accounted == {p \in DOMAIN files : \E id \in DOMAIN cache : cache[id] = p}
Differs ==
    LET named == Range(cache)
    IN  Accounted # named \/ Cardinality(Accounted) # Cardinality(DOMAIN Pass)

\* The documents under a digest's name at the top that a catalogue taken from
\* the cache does not place there.
Unplaced(at) ==
    {id \in Documents : /\ Top[id] \in DOMAIN files
                        /\ ~(id \in DOMAIN at /\ at[id] = Top[id])}
WithTheTop_Not(at) == at

WithTheTop(at) ==
    LET read == {files[Top[id]] : id \in Unplaced(at)}
    IN  [id \in read \cup DOMAIN at |->
            IF id \in read
              THEN First({p \in Range(Top) : p \in DOMAIN files /\ files[p] = id})
              ELSE at[id]]

Found_Unhashed(at, id) == id \in DOMAIN at

Found(at, id) == id \in DOMAIN at /\ at[id] \in DOMAIN files /\ files[at[id]] = id

\* The documents this command's catalogue says stand in for a digest.  Each is
\* read, wherever it has gone.
Standing(c, id) ==
    {s \in DOMAIN cmd[c].at \cap DOMAIN Forgets : Forgets[s] = id} \cap Here

ForgottenBeside_Not(c, id, p) == Standing(c, id) # {}

ForgottenBeside(c, id, p) ==
    \/ Standing(c, id) # {}
    \/ /\ p \in DOMAIN Beside
       /\ Beside[p] \in DOMAIN files
       /\ files[Beside[p]] \in DOMAIN Forgets
       /\ Forgets[files[Beside[p]]] = id

-----------------------------------------------------------------------------
Init ==
    /\ files = Nothing
    /\ cache = Nothing
    /\ cmd = [c \in Commands |-> Idle]
    /\ runs = 0
    /\ acts = 0
    /\ scene \in Scenes
    /\ strayed = FALSE

\* A file comes to a path, or leaves one: noted against every command under
\* way, for the properties.
Disturbed(ids, but) ==
    [c \in Commands |-> IF c = but \/ cmd[c].stage = "idle" THEN cmd[c]
                        ELSE [cmd[c] EXCEPT !.moved = @ \cup ids]]

Start(c) ==
    /\ runs < MaxRuns
    /\ cmd[c].stage \in {"idle", "done"}
    /\ \E does \in {"read", "file"}, id \in scene :
          /\ id \in DOMAIN Forgets => does = "file"
          /\ cmd' = [cmd EXCEPT ![c] = [Idle EXCEPT !.does = does, !.id = id, !.stage = "take"]]
    /\ runs' = runs + 1
    /\ UNCHANGED <<files, cache, acts, scene, strayed>>

\* A question asked of the walked catalogue, and the two commands that change
\* what is there: each begins with a pass of its own.
StartWalking(c) ==
    /\ runs < MaxRuns
    /\ cmd[c].stage \in {"idle", "done"}
    /\ \/ \E id \in Payloads \cap scene :
             cmd' = [cmd EXCEPT ![c] = [Idle EXCEPT !.does = "holds", !.id = id, !.stage = "walk"]]
       \/ \E id \in scene :
             cmd' = [cmd EXCEPT ![c] = [Idle EXCEPT !.does = "drop", !.id = id, !.stage = "walk"]]
       \/ cmd' = [cmd EXCEPT ![c] = [Idle EXCEPT !.does = "arrange", !.stage = "plan"]]
    /\ runs' = runs + 1
    /\ UNCHANGED <<files, cache, acts, scene, strayed>>

\* `catalogue`: the cached one and the top of the directory, or a pass.
Take(c) ==
    /\ cmd[c].stage = "take"
    /\ LET at == IF cache = Nothing THEN Pass ELSE WithTheTop(cache)
           news == IF cache = Nothing THEN Differs ELSE Unplaced(cache) # {}
       IN  cmd' = [cmd EXCEPT ![c].at = at, ![c].astray = strayed,
                              ![c].stage = IF news THEN "note" ELSE "look"]
    /\ UNCHANGED <<files, cache, runs, acts, scene, strayed>>

\* `upgrade`: the pass, which reads only what the held catalogue cannot place.  It
\* is one step: what it says is a hint, hashed before it is believed, and what
\* others move while it lists and reads is as wrong in it as what they move after.
Upgrade(c) ==
    /\ cmd[c].stage = "walk"
    /\ cmd' = [cmd EXCEPT ![c].at = Pass, ![c].walked = TRUE, ![c].astray = strayed,
                          ![c].stage = IF Differs THEN "note" ELSE "look"]
    /\ UNCHANGED <<files, cache, runs, acts, scene, strayed>>

\* What a pass or a look at the top learned, written whole: right again, or as
\* wrong as what others did since it was learned makes it.
Wrong(c) == cmd[c].astray \/ cmd[c].moved # {}

Note(c) ==
    /\ cmd[c].stage = "note"
    /\ cache' = cmd[c].at
    /\ cmd' = [cmd EXCEPT ![c].stage = "look"]
    /\ strayed' = (strayed \/ Wrong(c))
    /\ UNCHANGED <<files, runs, acts, scene>>

\* A document or a payload, read where the catalogue places it; else, for a
\* document, a pass and another look; else every file is read.
Answer(c, said) == [cmd EXCEPT ![c].stage = "done", ![c].said = said, ![c].at = Nothing,
                              ![c].moves = {}, ![c].looks = {}, ![c].seen = {}]

Read_Trusting(c) ==
    LET id == cmd[c].id
        at == cmd[c].at
    IN  /\ cmd[c].stage = "look"
        /\ cmd[c].does = "read"
        /\ cmd' = Answer(c, IF ~Found(at, id) THEN "absent"
                            ELSE IF id \in Payloads /\ ForgottenBeside(c, id, at[id]) THEN "refused"
                            ELSE IF Standing(c, id) # {} THEN "redacted" ELSE "whole")
        /\ UNCHANGED <<files, cache, runs, acts, scene, strayed>>

Read(c) ==
    LET id == cmd[c].id
        at == cmd[c].at
    IN  /\ cmd[c].stage = "look"
        /\ cmd[c].does = "read"
        /\ \/ /\ Found(at, id)
              /\ cmd' = Answer(c, IF id \in Payloads
                                    THEN IF ForgottenBeside(c, id, at[id]) THEN "refused" ELSE "whole"
                                    ELSE IF Standing(c, id) # {} THEN "redacted" ELSE "whole")
           \/ /\ ~Found(at, id)
              /\ cmd' = [cmd EXCEPT ![c].stage =
                            IF cmd[c].walked \/ id \in Payloads THEN "scan" ELSE "walk"]
    /\ UNCHANGED <<files, cache, runs, acts, scene, strayed>>

\* `scan` and `scan_for_payload`: the documents, or the payloads, are listed, and
\* then read one after the other.  What has gone from its path by then is not read.
Listed(id) == {p \in DOMAIN files : p \in DOMAIN Beside <=> id \in Payloads}

Scan(c) ==
    /\ cmd[c].stage = "scan"
    /\ cmd' = [cmd EXCEPT ![c].stage = "sift", ![c].looks = Listed(cmd[c].id), ![c].seen = {}]
    /\ UNCHANGED <<files, cache, runs, acts, scene, strayed>>

\* A payload that is found ends its search.
Sift(c) ==
    LET id == cmd[c].id
        held(p) == IF p \in DOMAIN files THEN {files[p]} ELSE {}
    IN  /\ cmd[c].stage = "sift"
        /\ \E p \in cmd[c].looks :
              cmd' = IF id \in Payloads /\ id \in held(p)
                       THEN [cmd EXCEPT ![c].stage = "found", ![c].looks = {p}, ![c].seen = {}]
                       ELSE [cmd EXCEPT ![c].looks = @ \ {p}, ![c].seen = @ \cup held(p)]
        /\ UNCHANGED <<files, cache, runs, acts, scene, strayed>>

\* A search of the documents says what forgets what from then on, and where it did
\* not find the one asked for the catalogue is asked where that is once more.  (A
\* document that a pass happened to read is found too, which is left out.)
EndScan(c) ==
    LET id == cmd[c].id
        standing == {s \in DOMAIN Forgets \cap cmd[c].seen : Forgets[s] = id}
        found == id \in cmd[c].seen \/ (id \in Documents /\ Found(cmd[c].at, id))
    IN  /\ cmd[c].stage = "sift"
        /\ cmd[c].looks = {}
        /\ cmd' = Answer(c, IF id \in Documents /\ standing # {} THEN "redacted"
                            ELSE IF found THEN "whole" ELSE "absent")
        /\ UNCHANGED <<files, cache, runs, acts, scene, strayed>>

\* The payload is read where the search found it, which only measured it.
HandOver(c) ==
    LET id == cmd[c].id
    IN  /\ cmd[c].stage = "found"
        /\ \E p \in cmd[c].looks :
              cmd' = Answer(c, IF ForgottenBeside(c, id, p) THEN "refused"
                               ELSE IF p \notin DOMAIN files THEN "failed"
                               ELSE IF files[p] = id THEN "whole" ELSE "absent")
        /\ UNCHANGED <<files, cache, runs, acts, scene, strayed>>

\* `holds_payload`: the walked catalogue's word, hashed, and no search.
Holds(c) ==
    LET id == cmd[c].id
        at == cmd[c].at
    IN  /\ cmd[c].stage = "look"
        /\ cmd[c].does = "holds"
        /\ cmd' = Answer(c, IF Found(at, id) /\ ~ForgottenBeside(c, id, at[id])
                              THEN "held" ELSE "elsewhere")
        /\ UNCHANGED <<files, cache, runs, acts, scene, strayed>>

\* A writer files what it is not told is here, says so to the catalogue it
\* has, and keeps that once the revision has landed.
Home(id) == IF id \in Documents THEN Top[id] ELSE Arranged[id]

File(c) ==
    LET id == cmd[c].id
    IN  /\ cmd[c].stage = "look"
        /\ cmd[c].does = "file"
        /\ \/ /\ Found(cmd[c].at, id)
              /\ cmd' = Answer(c, "held")
              /\ UNCHANGED files
           \/ /\ ~Found(cmd[c].at, id)
              /\ Home(id) \in DOMAIN files => files[Home(id)] = id
              /\ files' = Placed(Home(id), id)
              /\ cmd' = [Disturbed({id}, c) EXCEPT
                            ![c].at = [x \in DOMAIN @ \cup {id} |->
                                          IF x = id THEN Home(id) ELSE @[x]],
                            ![c].stage = "keep"]
        /\ UNCHANGED <<cache, runs, acts, scene, strayed>>

\* The name is another file's: filing is refused.
FileRefused(c) ==
    /\ cmd[c].stage = "look"
    /\ cmd[c].does = "file"
    /\ ~Found(cmd[c].at, cmd[c].id)
    /\ Home(cmd[c].id) \in DOMAIN files
    /\ files[Home(cmd[c].id)] # cmd[c].id
    /\ cmd' = Answer(c, "refused")
    /\ UNCHANGED <<files, cache, runs, acts, scene, strayed>>

Keep(c) ==
    /\ cmd[c].stage = "keep"
    /\ cache' = cmd[c].at
    /\ cmd' = Answer(c, "filed")
    /\ strayed' = (strayed \/ Wrong(c))
    /\ UNCHANGED <<files, runs, acts, scene>>

\* `forget`, `prune` and a receive that complies: the file goes, and the
\* walked catalogue without it is written back.
Drop(c) ==
    LET id == cmd[c].id
        at == cmd[c].at
    IN  /\ cmd[c].stage = "look"
        /\ cmd[c].does = "drop"
        /\ IF Found(at, id)
             THEN /\ files' = Without(at[id])
                  /\ cmd' = [Disturbed({id}, c) EXCEPT
                                ![c].at = Restrict(at, DOMAIN at \ {id}),
                                ![c].stage = "let go"]
                  /\ strayed' = TRUE
             ELSE /\ cmd' = Answer(c, "absent")
                  /\ UNCHANGED <<files, strayed>>
        /\ UNCHANGED <<cache, runs, acts, scene>>

LetGo_Unwritten(c) ==
    /\ cmd[c].stage = "let go"
    /\ cmd' = Answer(c, "dropped")
    /\ strayed' = Wrong(c)
    /\ UNCHANGED <<files, cache, runs, acts, scene>>

LetGo(c) ==
    /\ cmd[c].stage = "let go"
    /\ cache' = cmd[c].at
    /\ cmd' = Answer(c, "dropped")
    /\ strayed' = Wrong(c)
    /\ UNCHANGED <<files, runs, acts, scene>>

-----------------------------------------------------------------------------
(* `arrange`: plan every rename, then make each one that still can be. *)

\* Where a file goes: where the revision naming it says, or, for one no
\* revision names, its own digest where it is under another's.
Goes(p) ==
    LET id == files[p]
    IN  IF id \in DOMAIN Arranged THEN Arranged[id]
        ELSE IF p \in Range(Top) /\ p # Top[id] THEN Top[id] ELSE p

Arrangement == {p \in DOMAIN files : Goes(p) # p /\ Goes(p) \notin DOMAIN files}

PlanMoves(c) ==
    /\ cmd[c].stage = "plan"
    /\ cmd' = [cmd EXCEPT ![c].moves = {<<p, Goes(p)>> : p \in Arrangement},
                          ![c].stage = "walk"]
    /\ UNCHANGED <<files, cache, runs, acts, scene, strayed>>

Move_Over(c) ==
    /\ cmd[c].stage = "look"
    /\ cmd[c].does = "arrange"
    /\ \E m \in cmd[c].moves :
          /\ m[1] \in DOMAIN files
          /\ files' = Renamed(m[1], m[2])
          /\ cmd' = [Disturbed({files[m[1]]}, c) EXCEPT ![c].moves = @ \ {m}]
    /\ UNCHANGED <<cache, runs, acts, scene, strayed>>

\* The next name of the plan looked at, and the file renamed to it.
Told(at, from, to) == [id \in DOMAIN at |-> IF at[id] = from THEN to ELSE at[id]]

MoveOne(c, m) ==
    LET from == m[1]
        to   == m[2]
    IN  \/ /\ to \in DOMAIN files
           /\ cmd' = [cmd EXCEPT ![c].moves = @ \ {m}]
           /\ UNCHANGED <<files, strayed>>
        \/ /\ to \notin DOMAIN files
           /\ from \notin DOMAIN files
           /\ cmd' = Answer(c, "failed")
           /\ UNCHANGED <<files, strayed>>
        \/ /\ to \notin DOMAIN files
           /\ from \in DOMAIN files
           /\ files' = Renamed(from, to)
           /\ cmd' = [Disturbed({files[from]}, c) EXCEPT
                         ![c].at = Told(cmd[c].at, from, to), ![c].moves = @ \ {m}]
           /\ strayed' = TRUE

Move(c) ==
    /\ cmd[c].stage = "look"
    /\ cmd[c].does = "arrange"
    /\ \E m \in cmd[c].moves : MoveOne(c, m)
    /\ UNCHANGED <<cache, runs, acts, scene>>

EndArrange(c) ==
    /\ cmd[c].stage = "look"
    /\ cmd[c].does = "arrange"
    /\ cmd[c].moves = {}
    /\ cmd' = [cmd EXCEPT ![c].stage = "let go"]
    /\ UNCHANGED <<files, cache, runs, acts, scene, strayed>>

\* A command stopped where it stands.
Stop(c) ==
    /\ acts < MaxActs
    /\ cmd[c].stage \notin {"idle", "done"}
    /\ cmd' = [cmd EXCEPT ![c] = Idle]
    /\ acts' = acts + 1
    /\ UNCHANGED <<files, cache, runs, scene, strayed>>

-----------------------------------------------------------------------------
(* A hand, a syncer, and a cache somebody cleared. *)

Put(id, after) ==
    /\ acts < MaxActs
    /\ files' = after
    /\ cmd' = Disturbed({id}, "nobody")
    /\ acts' = acts + 1
    /\ strayed' = (strayed \/ ~(DOMAIN files \subseteq DOMAIN after))
    /\ UNCHANGED <<cache, runs, scene>>

\* A syncer brings a file to where another device has it.
Deliver ==
    \E id \in scene : \E p \in Spots[id] \ DOMAIN files : Put(id, Placed(p, id))

\* A hand files it elsewhere, or takes it away.
Refile ==
    \E p \in DOMAIN files : \E q \in Spots[files[p]] \ DOMAIN files :
        Put(files[p], Renamed(p, q))

TakeAway ==
    \E p \in DOMAIN files : Put(files[p], Without(p))

Clear ==
    /\ acts < MaxActs
    /\ cache # Nothing
    /\ cache' = Nothing
    /\ acts' = acts + 1
    /\ strayed' = FALSE
    /\ UNCHANGED <<files, cmd, runs, scene>>

Next ==
    \/ \E c \in Commands :
          \/ Start(c) \/ StartWalking(c) \/ Take(c) \/ Upgrade(c) \/ Note(c)
          \/ Read(c) \/ Scan(c) \/ Sift(c) \/ EndScan(c) \/ HandOver(c) \/ Holds(c)
          \/ File(c) \/ FileRefused(c) \/ Keep(c) \/ Drop(c) \/ LetGo(c)
          \/ PlanMoves(c) \/ Move(c) \/ EndArrange(c) \/ Stop(c)
    \/ Deliver \/ Refile \/ TakeAway \/ Clear

Spec == Init /\ [][Next]_vars

-----------------------------------------------------------------------------
Done(c, does) == cmd[c].stage = "done" /\ cmd[c].does = does
Undisturbed(c, id) == id \notin cmd[c].moved

\* Catalogues name paths, and nothing is under way without a catalogue.
TypeOK ==
    /\ Here \subseteq Ids
    /\ DOMAIN cache \subseteq Ids
    /\ \A c \in Commands :
          /\ DOMAIN cmd[c].at \subseteq Ids
          /\ \A id \in DOMAIN cmd[c].at : id \in Payloads <=> cmd[c].at[id] \in DOMAIN Beside

\* A catalogue that is missing, stale or wrong costs time, never an answer:
\* a file that stood still for the whole of a command is read by it.
NothingHereIsMissed ==
    \A c \in Commands : Done(c, "read") /\ cmd[c].said = "absent" /\ Undisturbed(c, cmd[c].id)
        => cmd[c].id \notin Here

\* What a command filed, or was told it need not, is there.
FiledIsHere ==
    \A c \in Commands :
        Done(c, "file") /\ cmd[c].said \in {"filed", "held"} /\ Undisturbed(c, cmd[c].id)
            => cmd[c].id \in Here

\* Lines a document at the top forgets are not read whole, whoever brought
\* the document and whatever the cache says.
LinesStayForgotten ==
    \A c \in Commands : Done(c, "read") /\ cmd[c].said = "whole" =>
        \A s \in DOMAIN Forgets :
            Forgets[s] = cmd[c].id /\ s \in Documents /\ Undisturbed(c, s)
                => Top[s] \notin DOMAIN files \/ files[Top[s]] # s

\* Bytes are handed over, and called held, only where nothing beside them
\* forgets them.
BytesStayForgotten ==
    \A c \in Commands :
        (cmd[c].stage = "done" /\ cmd[c].id \in Payloads /\ cmd[c].said \in {"whole", "held"}
            /\ cmd[c].does # "file") =>
            \/ ~Undisturbed(c, cmd[c].id)
            \/ \E p \in DOMAIN files : /\ files[p] = cmd[c].id
                  /\ \A s \in DOMAIN Forgets :
                        Forgets[s] = cmd[c].id /\ Undisturbed(c, s)
                            => Beside[p] \notin DOMAIN files \/ files[Beside[p]] # s

\* Bytes that are here are called elsewhere only by a command that took a cached
\* catalogue from under which a file was moved, by a hand, by a command that
\* stopped before it said so, or while the catalogue was being written.
CalledElsewhere(c) ==
    /\ Done(c, "holds")
    /\ cmd[c].said = "elsewhere"
    /\ cmd[c].moved = {}
    /\ cmd[c].id \in Here
    /\ \A s \in DOMAIN Forgets : Forgets[s] = cmd[c].id => s \notin Here
OnlyReuseHidesBytes ==
    \A c \in Commands : CalledElsewhere(c) => cmd[c].astray

\* Bytes held elsewhere are bytes this store does not hold.
\* (`Store::held_elsewhere`)
ElsewhereIsNotHere == \A c \in Commands : ~CalledElsewhere(c)

\* Arranging twice moves nothing the second time.  (`Arrangement::is_empty`)
ArrangingTwiceMovesNothing ==
    \A c \in Commands :
        Done(c, "arrange") /\ cmd[c].said = "dropped" /\ cmd[c].moved = {} => Arrangement = {}

=============================================================================
