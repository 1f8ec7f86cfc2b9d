------------------------------ MODULE Working ------------------------------
(***************************************************************************)
(* What the folder is believed to hold (working/catalogue.rs) and what is  *)
(* done on that belief (working/mod.rs, revert.rs).                        *)
(*                                                                         *)
(* One tracked file of lines.  A command walks the folder, which stamps    *)
(* the file; a later digest of it is the catalogue's where size and time   *)
(* still agree and the time is older than the catalogue's own, and is read *)
(* from the file otherwise.  Surveying writes the catalogue back.  Undoing *)
(* an edit asks whether the folder holds what the head records, by that    *)
(* digest, and then writes over it, guarded by the bytes it reads.         *)
(* The person writes the file at any moment; the clock moves at any moment.*)
(***************************************************************************)
EXTENDS Integers

CONSTANTS
  Versions,    \* what the file may hold
  Recorded,    \* the versions some revision records
  Short,       \* the versions of the lesser of two sizes
  AtHead,      \* what the head records
  Undone,      \* what undoing the head's edit leaves
  MaxTick,     \* ticks of the filesystem's clock
  MaxWrites,   \* how often the person writes the file
  MaxCommands  \* how many commands are run

VARIABLES
  clock,
  file,       \* [holds, time]: what stands there, and when it was written
  again,      \* the file was rewritten within the tick it is stamped with
  catalogue,  \* [digest, size, time, at], or none
  command,    \* "none", "survey" or "undo"
  step,       \* what the command does next
  stamp,      \* what its walk was told of the file
  known,      \* the digest it knows, or "none"
  learned,    \* it knows something the catalogue did not say
  guard,      \* the bytes it will write over
  fresh,      \* the person wrote since the command walked, or hashed the file
  amid,       \* the catalogue was written by a survey the file was written during
  lost,       \* unrecorded versions a command wrote over: was it there before the
              \* command, and was the catalogue written amid a write
  writes, commands

vars == <<clock, file, again, catalogue, command, step, stamp, known, learned, guard,
          fresh, amid, lost, writes, commands>>

Size(c) == IF c \in Short THEN 1 ELSE 2
StampOf(f) == [size |-> Size(f.holds), time |-> f.time]
NoCatalogue == [digest |-> "none", size |-> 0, time |-> 0, at |-> 0]
-----------------------------------------------------------------------------
\* catalogue::believed.  The slip believes an entry of the catalogue's own tick.
Believed_InTheTick(s) ==
  IF catalogue # NoCatalogue /\ catalogue.size = s.size /\ catalogue.time = s.time
     /\ catalogue.time <= catalogue.at
  THEN catalogue.digest ELSE "none"

Believed(s) ==
  IF catalogue # NoCatalogue /\ catalogue.size = s.size /\ catalogue.time = s.time
     /\ catalogue.time < catalogue.at
  THEN catalogue.digest ELSE "none"

Walk(what) ==
  /\ command = "none" /\ commands < MaxCommands
  /\ command' = what /\ step' = "digest"
  /\ stamp' = StampOf(file) /\ known' = Believed(StampOf(file))
  /\ learned' = FALSE /\ commands' = commands + 1
  /\ fresh' = FALSE
  /\ UNCHANGED <<clock, file, again, catalogue, guard, amid, lost, writes>>

\* Working::digest reads the file only where nothing is believed of it.
Digest ==
  /\ step = "digest"
  /\ known' = IF known = "none" THEN file.holds ELSE known
  /\ learned' = (known = "none")
  /\ step' = IF command = "survey" THEN "remember" ELSE "holds"
  /\ fresh' = (fresh /\ known # "none")
  /\ UNCHANGED <<clock, file, again, catalogue, command, stamp, guard, amid, lost, writes, commands>>

Done == command' = "none" /\ step' = "none"

\* Working::remember, with the stamp of the walk and the time it is written.
\* The slip stamps the file as it writes the catalogue.
Entry_Restamped == [digest |-> known, size |-> Size(file.holds), time |-> file.time, at |-> clock]
Entry == [digest |-> known, size |-> stamp.size, time |-> stamp.time, at |-> clock]

Remember ==
  /\ step = "remember"
  /\ catalogue' = IF learned THEN Entry ELSE catalogue
  /\ amid' = IF learned THEN fresh ELSE amid
  /\ Done
  /\ UNCHANGED <<clock, file, again, stamp, known, learned, guard, fresh, lost, writes, commands>>

\* Sides::folder_holds, and the bytes the guard is made of are read.  The slip
\* makes the guard without asking.
Holds_Whatever ==
  /\ step = "holds" /\ step' = "write" /\ guard' = file.holds
  /\ UNCHANGED <<clock, file, again, catalogue, command, stamp, known, learned, fresh, amid,
                 lost, writes, commands>>

Holds ==
  /\ step = "holds"
  /\ IF known = AtHead
     THEN /\ step' = "write" /\ guard' = file.holds /\ UNCHANGED command
     ELSE Done /\ UNCHANGED guard
  /\ UNCHANGED <<clock, file, again, catalogue, stamp, known, learned, fresh, amid, lost, writes, commands>>

\* write_if: compared and written.  What it writes over was read for the guard.
Write ==
  /\ step = "write"
  /\ IF file.holds = guard
     THEN /\ file' = [holds |-> Undone, time |-> clock]
          /\ again' = (file.time = clock)
          /\ lost' = IF file.holds \in Recorded THEN lost
                     ELSE lost \cup {[holds |-> file.holds, before |-> ~fresh, amid |-> amid]}
     ELSE UNCHANGED <<file, again, lost>>
  /\ Done
  /\ UNCHANGED <<clock, catalogue, stamp, known, learned, guard, fresh, amid, writes, commands>>

\* The person.
PersonWrites(c) ==
  /\ writes < MaxWrites /\ c # file.holds
  /\ file' = [holds |-> c, time |-> clock] /\ again' = (file.time = clock)
  /\ fresh' = TRUE /\ writes' = writes + 1
  /\ UNCHANGED <<clock, catalogue, command, step, stamp, known, learned, guard, amid, lost, commands>>

Tick ==
  /\ clock < MaxTick /\ clock' = clock + 1
  /\ UNCHANGED <<file, again, catalogue, command, step, stamp, known, learned, guard, fresh,
                 amid, lost, writes, commands>>
-----------------------------------------------------------------------------
Init ==
  /\ clock = 1 /\ again = FALSE
  /\ file \in [holds : {AtHead, Undone}, time : {0}]
  /\ catalogue = NoCatalogue
  /\ command = "none" /\ step = "none" /\ stamp = StampOf(file)
  /\ known = "none" /\ learned = FALSE /\ guard = AtHead
  /\ fresh = FALSE /\ amid = FALSE /\ lost = {} /\ writes = 0 /\ commands = 0

Next ==
  \/ \E what \in {"survey", "undo"} : Walk(what)
  \/ Digest \/ Remember \/ Holds \/ Write
  \/ \E c \in Versions : PersonWrites(c)
  \/ Tick

Spec == Init /\ [][Next]_vars
-----------------------------------------------------------------------------
\* The state is what its comments say, and no stamp is later than the clock.
Stamps  == [size : {1, 2}, time : 0 .. MaxTick]
Entries == [digest : Versions \cup {"none"}, size : 0 .. 2, time : 0 .. MaxTick, at : 0 .. MaxTick]
TypeOK ==
  /\ clock \in 1 .. MaxTick
  /\ file \in [holds : Versions, time : 0 .. MaxTick] /\ file.time <= clock
  /\ catalogue \in Entries /\ catalogue.at <= clock
  /\ command \in {"none", "survey", "undo"} /\ known \in Versions \cup {"none"}
  /\ step \in {"none", "digest", "remember", "holds", "write"}
  /\ stamp \in Stamps /\ stamp.time <= clock /\ guard \in Versions
  /\ again \in BOOLEAN /\ learned \in BOOLEAN /\ fresh \in BOOLEAN /\ amid \in BOOLEAN
  /\ lost \subseteq [holds : Versions \ Recorded, before : BOOLEAN, amid : BOOLEAN]
  /\ writes \in 0 .. MaxWrites /\ commands \in 0 .. MaxCommands

(* The catalogue is wrong of a file it still matches only where the file   *)
(* was rewritten to the same length within the tick it is stamped with,    *)
(* and while the survey that wrote the catalogue was running: never once   *)
(* the catalogue is written, and never in a tick of its own.               *)
WrongOnlyAmidASurvey ==
  LET digest == Believed(StampOf(file))
  IN digest # "none" /\ digest # file.holds => again /\ amid

(* An undo writes over unrecorded bytes that stood there before it began   *)
(* only where such an entry was believed.                                  *)
LostOnlyAmidASurvey == \A l \in lost : l.before => l.amid

(* catalogue.rs: the worst a wrong entry can do is make one command call a *)
(* file unchanged, and the file itself is untouched.                       *)
UntouchedByABelief == \A l \in lost : ~l.before

(* A survey is wrong about a file, and a command loses what a person wrote *)
(* before it, only where the person wrote while a survey was between       *)
(* looking and acting (working/mod.rs, working/catalogue.rs).              *)
SurveysAreBelievedRightly == TypeOK /\ WrongOnlyAmidASurvey /\ LostOnlyAmidASurvey
=============================================================================
