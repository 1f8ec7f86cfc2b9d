------------------------------ MODULE Landing ------------------------------
(***************************************************************************)
(* What a capture owes the drive (store/mod.rs, fs.rs, store/prune.rs):    *)
(* recorders file content and then the revision naming it, beside each     *)
(* other and beside a prune, and may be stopped or lose power.             *)
(*                                                                         *)
(* A file is read as a process sees it.  The drive has what was handed     *)
(* over to it, in sets that barriers part: after a cut it has whole sets   *)
(* and any part of the next, each file of that with all of its bytes or    *)
(* not.  What was written and not yet handed over it may have or not have. *)
(***************************************************************************)
EXTENDS Naturals, Sequences

CONSTANTS
  Recorders,   \* who records; each files one revision
  Documents,   \* content filed under its final name and then filled
  Payloads,    \* content staged beside its name and renamed over it
  None,        \* no file
  Jobs,        \* the content each recorder may be asked to name
  Faults       \* how many stops, power cuts and prunes a run may have

VARIABLES
  needs,       \* the content each recorder's revision names
  file,        \* what a process reads under each name
  loose,       \* files that changed and were not handed over since, in which set's time
  drive,       \* what the drive surely has, and what it has with each further set
  recorder,    \* where each recorder is, what it has left and is writing
  prune,       \* what a prune is about to remove
  raced,       \* content believed while loose, filed again, or removed from under a recorder
  faults
vars == <<needs, file, loose, drive, recorder, prune, raced, faults>>

Contents == Documents \cup Payloads
Names == Contents \cup Recorders      \* a recorder stands for its revision
Start(r) == [step |-> "content", left |-> needs[r], at |-> None]
State == {None, "part", "whole"}
Filed(r) == file[r] = "whole"

-----------------------------------------------------------------------------
(* The drive.                                                              *)
Loosened_Not(n) == loose
Loosened(n) == [m \in DOMAIN loose \cup {n} |-> IF m = n THEN Len(drive) ELSE loose[m]]
Without(n) == [m \in DOMAIN loose \ {n} |-> loose[m]]

\* A set: what the drive has once it landed, and the files handed over in it.
Set(has, new) == [has |-> has, new |-> new]
Last == drive[Len(drive)]
HandOver(n, state) ==
  drive' = [drive EXCEPT ![Len(drive)] = Set([Last.has EXCEPT ![n] = state], Last.new \cup {n})]
\* All of it has landed, and nothing was handed over since.
Landed(has) == <<Set(has, {}), Set(has, {})>>

\* What a file can be once power is back: as it was, as it became, or torn.
Survives(before, after) == {before, after} \cup (IF after = "whole" THEN {"part"} ELSE {})

-----------------------------------------------------------------------------
(* A recorder.                                                             *)
At(r, step) == recorder[r].step = step
Go(r, step, left, at) == recorder' = [recorder EXCEPT ![r] = [step |-> step, left |-> left, at |-> at]]

Believed(n) == IF n \in DOMAIN loose THEN raced \cup {n} ELSE raced

\* already_holds: what the catalogue finds, hashed.
Hold(r) ==
  /\ At(r, "content")
  /\ \E c \in recorder[r].left :
       /\ file[c] = "whole"
       /\ Go(r, "content", recorder[r].left \ {c}, None)
       /\ raced' = Believed(c)
  /\ UNCHANGED <<needs, file, loose, drive, prune, faults>>

\* What to write next: the content in any order, then the revision.
Next_(r) == CASE At(r, "content") -> recorder[r].left
              [] At(r, "revision") -> {r}
              [] OTHER -> {}

\* write_once: an exclusive create, and a name that is taken is to hold the same.
Create(r) ==
  /\ \E n \in Next_(r) \ Payloads :
       \/ /\ file[n] = None
          /\ file' = [file EXCEPT ![n] = "part"]
          /\ loose' = Loosened(n)
          /\ Go(r, "fill", recorder[r].left, n)
          /\ UNCHANGED raced
       \/ /\ file[n] = "part"
          /\ Go(r, "refused", recorder[r].left, n)
          /\ UNCHANGED <<file, loose, raced>>
       \/ /\ file[n] = "whole" /\ n = r
          /\ Go(r, "filed", {}, None)
          /\ raced' = Believed(n)
          /\ UNCHANGED <<file, loose>>
  /\ UNCHANGED <<needs, drive, prune, faults>>

\* A file taken away meanwhile is filled where nothing finds it.
Fill(r) ==
  LET n == recorder[r].at IN
  /\ At(r, "fill")
  /\ file' = [file EXCEPT ![n] = IF @ = "part" THEN "whole" ELSE @]
  /\ loose' = Loosened(n)
  /\ Go(r, "push", recorder[r].left, n)
  /\ UNCHANGED <<needs, drive, prune, raced, faults>>

\* write_once_from_pieces: a look, then a staged file that nobody meets.
Stage(r) ==
  /\ \E n \in Next_(r) \cap Payloads :
       \/ file[n] = None /\ Go(r, "staged", recorder[r].left, n)
       \/ file[n] = "part" /\ Go(r, "refused", recorder[r].left, n)
  /\ UNCHANGED <<needs, file, loose, drive, prune, raced, faults>>

\* The rename shows the whole file, or nothing of it.
Shown_InPlace(r) == [file EXCEPT ![recorder[r].at] = "part"]
Shown(r) == [file EXCEPT ![recorder[r].at] = "whole"]
Rename(r) ==
  /\ At(r, "staged")
  /\ file' = Shown(r)
  /\ loose' = Loosened(recorder[r].at)
  /\ Go(r, IF file'[recorder[r].at] = "whole" THEN "push" ELSE "fill", recorder[r].left, recorder[r].at)
  /\ raced' = IF file[recorder[r].at] = "whole" THEN raced \cup {recorder[r].at} ELSE raced
  /\ UNCHANGED <<needs, drive, prune, faults>>

Push(r) ==
  LET n == recorder[r].at IN
  /\ At(r, "push")
  /\ loose' = Without(n)
  /\ HandOver(n, file[n])
  /\ IF n = r THEN Go(r, "filed", {}, None) ELSE Go(r, "content", recorder[r].left \ {n}, None)
  /\ UNCHANGED <<needs, file, prune, raced, faults>>

\* Store::insert_at: everything handed over so far lands before the revision.
Parted_Never == drive
Parted == Append(drive, Set(Last.has, {}))
Barrier(r) ==
  /\ At(r, "content") /\ recorder[r].left = {}
  /\ drive' = Parted
  /\ Go(r, "revision", {}, None)
  /\ UNCHANGED <<needs, file, loose, prune, raced, faults>>

\* The bookmark's write drains the drive of all that was handed over.
Drained_OfTheBookmark == drive[1].has
Drained == Last.has
Bookmark(r) ==
  /\ At(r, "filed")
  /\ drive' = Landed(Drained) /\ loose' = [n \in DOMAIN loose |-> 2]
  /\ Go(r, "named", {}, None)
  /\ UNCHANGED <<needs, file, prune, raced, faults>>

-----------------------------------------------------------------------------
(* A prune: what it opens and reads, and then one file after another.      *)
Plan ==
  /\ faults.prunes > 0 /\ prune = {}
  /\ \A r \in Recorders : file[r] # "part"
  /\ prune' = {c \in Contents : file[c] # None /\ \A r \in Recorders : Filed(r) => c \notin needs[r]}
  /\ faults' = [faults EXCEPT !.prunes = @ - 1]
  /\ UNCHANGED <<needs, file, loose, drive, recorder, raced>>

Remove ==
  /\ \E c \in prune :
       /\ file' = [file EXCEPT ![c] = None]
       /\ HandOver(c, None)
       /\ loose' = Without(c)
       /\ prune' = prune \ {c}
       /\ raced' = IF \E r \in Recorders : c \in needs[r] THEN raced \cup {c} ELSE raced
  /\ UNCHANGED <<needs, recorder, faults>>

-----------------------------------------------------------------------------
(* What can befall them.                                                   *)
Stop(r) ==
  /\ faults.stops > 0 /\ ~At(r, "named")
  /\ recorder' = [recorder EXCEPT ![r] = Start(r)]
  /\ faults' = [faults EXCEPT !.stops = @ - 1]
  /\ UNCHANGED <<needs, file, loose, drive, prune, raced>>

Cut ==
  /\ faults.cuts > 0
  /\ \E k \in 2 .. Len(drive) :
       LET before == drive[k - 1].has
           after  == drive[k].has
           Reached(n) == n \in DOMAIN loose /\ loose[n] <= k
           Left(n) == Survives(before[n], after[n]) \cup (IF Reached(n) THEN Survives(before[n], file[n]) ELSE {})
       IN \E kept \in [Names -> State] :
            /\ \A n \in Names : kept[n] \in (IF Reached(n) \/ n \in drive[k].new THEN Left(n) ELSE {before[n]})
            /\ file' = kept /\ drive' = Landed(kept)
  /\ loose' = <<>> /\ prune' = {}
  /\ recorder' = [r \in Recorders |-> IF At(r, "named") THEN recorder[r] ELSE Start(r)]
  /\ faults' = [faults EXCEPT !.cuts = @ - 1]
  /\ UNCHANGED <<needs, raced>>

\* The remedy check gives for a file whose bytes are not its digest's.
Delete ==
  /\ \E n \in Names :
       /\ file[n] = "part"
       /\ \A r \in Recorders : ~(recorder[r].at = n /\ ~At(r, "refused"))
       /\ file' = [file EXCEPT ![n] = None]
       /\ loose' = Without(n)
       /\ HandOver(n, None)
       /\ recorder' = [r \in Recorders |-> IF At(r, "refused") /\ recorder[r].at = n THEN Start(r) ELSE recorder[r]]
  /\ UNCHANGED <<needs, prune, raced, faults>>

-----------------------------------------------------------------------------
Init ==
  /\ needs \in Jobs
  /\ file = [n \in Names |-> None] /\ drive = Landed(file) /\ loose = <<>>
  /\ recorder = [r \in Recorders |-> [step |-> "content", left |-> needs[r], at |-> None]]
  /\ prune = {} /\ raced = {} /\ faults \in Faults

Record(r) == Hold(r) \/ Create(r) \/ Fill(r) \/ Stage(r) \/ Rename(r) \/ Push(r) \/ Barrier(r) \/ Bookmark(r)
Next == (\E r \in Recorders : Record(r) \/ Stop(r)) \/ Plan \/ Remove \/ Cut \/ Delete
Spec == Init /\ [][Next]_vars
-----------------------------------------------------------------------------
Steps == {"content", "fill", "staged", "push", "refused", "revision", "filed", "named"}
TypeOK ==
  /\ needs \in [Recorders -> SUBSET Contents]
  /\ file \in [Names -> State]
  /\ DOMAIN loose \subseteq Names /\ \A n \in DOMAIN loose : loose[n] \in 2 .. Len(drive)
  /\ drive \in Seq([has : [Names -> State], new : SUBSET Names]) /\ Len(drive) >= 2
  /\ recorder \in [Recorders -> [step : Steps, left : SUBSET Contents, at : Names \cup {None}]]
  /\ \A n \in Names \ DOMAIN loose : file[n] = Last.has[n]
  /\ prune \subseteq Contents /\ raced \subseteq Names
  /\ faults \in [stops : Nat, cuts : Nat, prunes : Nat]

(* A revision that can be read finds all it names, whatever was stopped,   *)
(* refused or cut off: except what a recorder believed held before it was  *)
(* handed over, a payload one renamed over what another had filed, and     *)
(* what a prune took from under one.                                       *)
OnlyRacesLoseContent ==
  \A r \in Recorders : Filed(r) => \A c \in needs[r] \ raced : file[c] = "whole"

(* Once its bookmark is written a capture outlives a cut, unless it is one *)
(* that found its own revision as a stopped command had left it.           *)
NamedIsDurable ==
  \A r \in Recorders \ raced : At(r, "named") => Filed(r)

(* Two that file one payload never refuse one another: only a cut leaves a *)
(* payload's name without its bytes.                                       *)
PayloadsDoNotMeet ==
  \A r \in Recorders : At(r, "refused") /\ recorder[r].at \in Payloads => \E f \in Faults : f.cuts > faults.cuts

(* What decision 0075 asks of a capture: a revision does not survive a cut *)
(* that the content it names did not.                                      *)
ContentLandsFirst ==
  [][Cut => \A r \in Recorders : file'[r] = "whole" => \A c \in needs[r] : file'[c] = "whole" \/ file[c] # "whole"]_vars

(* Two that file one document file one: neither is refused for the other.  *)
NeitherHasToWin ==
  \A r \in Recorders : At(r, "refused") =>
    ~\E q \in Recorders \ {r} : recorder[q].at = recorder[r].at /\ recorder[q].step = "fill"
=============================================================================
