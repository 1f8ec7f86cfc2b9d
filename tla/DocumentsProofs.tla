-------------------------- MODULE DocumentsProofs --------------------------
(***************************************************************************)
(* Theorems about the documents of a store: how they are forgotten         *)
(* (Redaction) and how they land on the drive (Landing).                   *)
(*                                                                         *)
(* Forgetting, with any number of commands at once: a file goes only where *)
(* a stand-in for it is on the disk already, and nothing ever takes a      *)
(* stand-in away, so what is answered for stays answered (SoundKept).      *)
(* What a command plans to destroy or to land is answered by the disk      *)
(* together with what it has yet to write, and it destroys and lands only  *)
(* when nothing is left to write.  So too a forget marks every quote.      *)
(*                                                                         *)
(* With one command at a time: that a forget destroys every original with  *)
(* a quote, and that no redacted text is shown again.  For the latter the  *)
(* texts kept on the disk have to agree with the catalogue at every step   *)
(* but one, and a text replayed from a kept one is clean because an item   *)
(* it shows stood in every revision since the one that added it.           *)
(*                                                                         *)
(* Landing: whatever the drive may have of a revision, it has the content  *)
(* the revision names in an earlier set, so no cut can keep the one and    *)
(* lose the other (Before); and content that somebody counts on, nobody    *)
(* touches but one who is counted as racing for it.                        *)
(***************************************************************************)
EXTENDS MCDocuments, WellFoundedInduction, SequenceTheorems, TLAPS

\* The disk answers for what f stands for, and holds f if it is a stand-in.
Held(F, f) == Answered(F, f.doc) /\ (f.marks # {} => f \in F)

\* What a command knows is true enough, and what it has planned is covered.
Sound(F, r) ==
  /\ \A f \in r.known : Held(F, f)
  /\ r.writes # {} => r.step = "writing"
  /\ r.destroys # {} => r.step \in {"writing", "complying"}
  /\ \A f \in r.destroys : f.marks = {} /\ f.doc \in r.targets
  /\ \A d \in r.targets : StandIns(F \cup r.writes, d) # {}
  /\ \A d \in r.lands : Answered(F \cup r.writes, d)
  /\ r.kind = "record" /\ r.step = "filed" => Answered(F, r.doc)
  /\ r.after # "filed"

\* The inductive invariant.
IInv ==
  /\ TypeOK
  /\ \A f \in catalogue : Held(files, f)
  /\ \A p \in Command : Sound(files, run[p])
  /\ RevisionsAnswered

\* G holds every stand-in of F, and answers for every document F does.
Keeps(F, G) == \A f \in F : Held(G, f)

-----------------------------------------------------------------------------
(* What the operators return. *)

\* What the constants give a file: its document and what it may quote.
LEMMA FileType ==
  /\ \A f \in File : f.doc \in Doc /\ f.marks \in SUBSET Quotes(f.doc)
  /\ \A d \in Doc : Adds[d] \in SUBSET Item /\ Quotes(d) \in SUBSET Item
  /\ \A d \in Doc : \A m \in SUBSET Quotes(d) : [doc |-> d, marks |-> m] \in File
  /\ \A d \in Doc : Original(d) \in File
<1>1. \A d \in Doc : Adds[d] \in SUBSET Item /\ Drops[d] \in SUBSET Item
  BY HistoryAssumption DEF Doc
<1>. QED
  BY <1>1 DEF File, Quotes, Original

\* Only what a document quotes is ever marked in it.
LEMMA MarkedType ==
  ASSUME NEW F \in SUBSET File, NEW d \in Doc
  PROVE  Marked(F, d) \in SUBSET Quotes(d)
BY FileType DEF Marked, StandIns

\* What is forgotten are items of the file.
LEMMA ForgottenType ==
  ASSUME NEW F \in SUBSET File
  PROVE  Forgotten(F) \in SUBSET Item
BY FileType DEF Forgotten

\* A revision shows items of the file.
LEMMA ShowsType == \A d \in Doc : Shows[d] \in SUBSET Item
BY HistoryAssumption DEF Shows, Doc

\* Whatever is planned to be written is a file.
LEMMA StandInsForType ==
  ASSUME NEW K \in SUBSET File, NEW items, NEW R \in SUBSET Doc
  PROVE  StandInsFor(K, items, R) \in SUBSET File
BY FileType, MarkedType DEF StandInsFor

\* A command that does nothing is a command.
LEMMA IdleType == Idle \in Run
BY DEF Idle, Run, Kind, Step

-----------------------------------------------------------------------------
(* Type correctness. *)

\* A field may be set to anything of its type.
LEMMA RunType ==
  ASSUME NEW r \in Run
  PROVE  /\ \A s \in Step : [r EXCEPT !.step = s] \in Run
         /\ \A s \in Step : [r EXCEPT !.after = s] \in Run
         /\ \A K \in SUBSET File : [r EXCEPT !.known = K] \in Run
         /\ \A b \in BOOLEAN : [r EXCEPT !.walked = b] \in Run
         /\ \A W \in SUBSET File : [r EXCEPT !.writes = W] \in Run
         /\ \A T \in SUBSET Doc : [r EXCEPT !.targets = T] \in Run
         /\ \A F \in SUBSET File : [r EXCEPT !.destroys = F] \in Run
         /\ \A L \in SUBSET Doc : [r EXCEPT !.lands = L] \in Run
         /\ \A b \in BOOLEAN : [r EXCEPT !.clears = b] \in Run
         /\ \A I \in SUBSET Item : [r EXCEPT !.shown = I] \in Run
         /\ \A I \in SUBSET Item : [r EXCEPT !.hidden = I] \in Run
         /\ r.step \in Step /\ r.after \in Step /\ r.known \in SUBSET File
         /\ r.items \in SUBSET Item /\ r.writes \in SUBSET File
         /\ r.targets \in SUBSET Doc /\ r.destroys \in SUBSET File
         /\ r.lands \in SUBSET Doc /\ r.shown \in SUBSET Item
         /\ r.kind \in {"read", "record"} => r.doc \in Doc
BY DEF Run

\* A command that becomes another leaves the commands typed.
LEMMA PutType ==
  ASSUME TypeOK, NEW p \in Command, NEW r \in Run, Put(p, r)
  PROVE  run' \in [Command -> Run]
BY DEF TypeOK, Put

\* Learning changes how far the command is and lets texts go, no more.
LEMMA LearnType ==
  ASSUME TypeOK, NEW p \in Command, NEW r \in Run, NEW next \in Step, Learn(p, r, next)
  PROVE  run' \in [Command -> Run] /\ states' \subseteq states
<1>1. [r EXCEPT !.step = next] \in Run
  BY DEF Run
<1>2. [r EXCEPT !.step = "learned", !.after = next] \in Run
  BY DEF Run, Step
<1>. QED
  BY <1>1, <1>2, PutType DEF Learn, TypeOK

\* The pass over the directory keeps the types.
LEMMA WalkType ==
  ASSUME TypeOK, NEW p \in Command, NEW next \in Step, Walk(p, next)
  PROVE  TypeOK'
<1>1. [run[p] EXCEPT !.known = files, !.walked = TRUE] \in Run
  BY RunType DEF TypeOK
<1>. QED
  BY <1>1, LearnType DEF TypeOK, Walk

\* The four commands people run.
Commands ==
  {[Idle EXCEPT !.kind = "read", !.doc = d] : d \in Doc}
    \cup {[Idle EXCEPT !.kind = "record", !.doc = d] : d \in Doc}
    \cup {[Idle EXCEPT !.kind = "forget", !.items = I] : I \in SUBSET Item}
    \cup {[Idle EXCEPT !.kind = "receive"]}

\* Whatever people run is a command.
LEMMA CommandsType == Commands \subseteq Run
<1>1. ASSUME NEW d \in Doc
      PROVE  /\ [Idle EXCEPT !.kind = "read", !.doc = d] \in Run
             /\ [Idle EXCEPT !.kind = "record", !.doc = d] \in Run
  BY DEF Idle, Run, Kind, Step
<1>2. ASSUME NEW I \in SUBSET Item
      PROVE  [Idle EXCEPT !.kind = "forget", !.items = I] \in Run
  BY DEF Idle, Run, Kind, Step
<1>3. [Idle EXCEPT !.kind = "receive"] \in Run
  BY DEF Idle, Run, Kind, Step
<1>. QED
  BY <1>1, <1>2, <1>3 DEF Commands

\* Starting a command keeps the types.
LEMMA StartType ==
  ASSUME TypeOK, NEW p \in Command, NEW c \in Commands, Start(p, c)
  PROVE  TypeOK'
<1>1. [c EXCEPT !.known = catalogue \cup files, !.hidden = Forgotten(files)] \in Run
  BY CommandsType, ForgottenType, RunType DEF TypeOK
<1>2. "opened" \in Step
  BY DEF Step
<1>. QED
  BY <1>1, <1>2, LearnType DEF TypeOK, Start

\* Every step keeps the types.
THEOREM TypeInvariance ==
  ASSUME NEW kinds, NEW stops
  PROVE  TypeOK /\ [Acts(kinds, stops)]_vars => TypeOK'
<1>. SUFFICES ASSUME TypeOK, [Acts(kinds, stops)]_vars PROVE TypeOK'
  OBVIOUS
<1>. USE DEF TypeOK
<1>a. \A p \in Command : run[p] \in Run
  OBVIOUS
<1>0. \A d \in revisions : d \in Doc
  OBVIOUS
<1>1. ASSUME NEW p \in Command, NEW d \in Doc,
             \/ Start(p, [Idle EXCEPT !.kind = "read", !.doc = d])
             \/ Start(p, [Idle EXCEPT !.kind = "record", !.doc = d])
      PROVE  TypeOK'
  BY <1>1, StartType DEF Commands
<1>2. ASSUME NEW p \in Command, NEW i \in UNION {Shows[d] : d \in revisions},
             Start(p, [Idle EXCEPT !.kind = "forget", !.items = {i}])
      PROVE  TypeOK'
  <2>1. {i} \in SUBSET Item
    BY <1>0, ShowsType
  <2>2. [Idle EXCEPT !.kind = "forget", !.items = {i}] \in Commands
    BY <2>1 DEF Commands
  <2>. QED
    BY <1>2, <2>2, StartType
<1>3. ASSUME NEW p \in Command, Start(p, [Idle EXCEPT !.kind = "receive"])
      PROVE  TypeOK'
  BY <1>3, StartType DEF Commands
<1>4. ASSUME NEW p \in Command, KeepCatalogue(p)
      PROVE  TypeOK'
  BY <1>4, <1>a, RunType, PutType DEF KeepCatalogue
<1>5. ASSUME NEW p \in Command, Upgrade(p)
      PROVE  TypeOK'
  BY <1>5, WalkType DEF Upgrade, Step
<1>6. ASSUME NEW p \in Command, Replay(p)
      PROVE  TypeOK'
  <2>1. Shows[run[p].doc] \in SUBSET Item
    BY <1>6, <1>a, RunType, ShowsType DEF Replay, At
  <2>2. \A H : Shows[run[p].doc] \ H \in SUBSET Item
    BY <2>1
  <2>3. "shown" \in Step /\ "replayed" \in Step
    BY DEF Step
  <2>. DEFINE kept == Kept(run[p].doc)
              base == IF kept = {} THEN 0 ELSE CHOOSE e \in kept : \A f \in kept : f <= e
              said == UNION {Adds[e] \cap Marked(run[p].known, e) : e \in base + 1..run[p].doc}
              next == IF base = run[p].doc THEN "shown" ELSE "replayed"
  <2>4. /\ UNCHANGED <<files, revisions, catalogue, states>>
        /\ Put(p, [run[p] EXCEPT !.shown = Shows[run[p].doc] \ said, !.step = next])
    BY <1>6 DEF Replay
  <2>5. [run[p] EXCEPT !.shown = Shows[run[p].doc] \ said, !.step = next] \in Run
    <3>. HIDE DEF said, base
    <3>. QED
      BY <1>a, <2>2, <2>3, RunType
  <2>. QED
    BY <2>4, <2>5, PutType
<1>7. ASSUME NEW p \in Command, KeepState(p)
      PROVE  TypeOK'
  <2>1. run[p].doc \in Doc /\ [run[p] EXCEPT !.step = "shown"] \in Run
    BY <1>7, <1>a, RunType DEF KeepState, At, Step
  <2>2. run' \in [Command -> Run]
    BY <1>7, <2>1, PutType DEF KeepState
  <2>3. states' \subseteq {Shows[d] : d \in Doc}
    BY <1>7, <2>1 DEF KeepState
  <2>. QED
    BY <1>7, <2>2, <2>3 DEF KeepState
<1>8. ASSUME NEW p \in Command, FileDocument(p)
      PROVE  TypeOK'
  <2>1. run[p].doc \in Doc
    BY <1>8, <1>a, RunType DEF FileDocument, At
  <2>2. Original(run[p].doc) \in File
    BY <2>1, FileType
  <2>3. [run[p] EXCEPT !.known = @ \cup {Original(run[p].doc)}, !.step = "filed"] \in Run
    <3>1. run[p].known \cup {Original(run[p].doc)} \in SUBSET File /\ "filed" \in Step
      BY <1>a, <2>2, RunType DEF Step
    <3>. QED
      BY <1>a, <3>1, RunType
  <2>. QED
    BY <1>8, <2>2, <2>3, PutType DEF FileDocument
<1>9. ASSUME NEW p \in Command, FileRevision(p)
      PROVE  TypeOK'
  BY <1>9, <1>a, RunType, PutType DEF FileRevision, At, Step
<1>10. ASSUME NEW p \in Command, PlanForget(p)
       PROVE  TypeOK'
  <2>1. StandInsFor(run[p].known, run[p].items, revisions) \in SUBSET File
    BY StandInsForType DEF Run
  <2>2. {Original(d) : d \in {e \in revisions : Quotes(e) \cap run[p].items # {}}} \cap files
          \in SUBSET File
    OBVIOUS
  <2>. QED
    BY <1>10, <1>a, RunType, PutType, <2>1, <2>2 DEF PlanForget, At, Step
<1>11. ASSUME NEW p \in Command, NEW S \in Sources, PlanReceive(p, S, {f.doc : f \in S})
       PROVE  TypeOK'
  <2>. DEFINE known == run[p].known
              forgotten == {f.doc : f \in {g \in known \cup S : g.marks # {}}}
              writes == (S \ known) \ {Original(d) : d \in forgotten}
              targets == {d \in forgotten : Original(d) \in known}
              lands == {f.doc : f \in S} \ revisions
  <2>1. S \in SUBSET File
    BY DEF Sources
  <2>2. forgotten \in SUBSET Doc /\ writes \in SUBSET File /\ lands \in SUBSET Doc
    BY <1>a, <2>1, FileType, RunType
  <2>3. [run[p] EXCEPT !.step = "writing", !.writes = writes,
                       !.targets = targets, !.lands = lands] \in Run
    <3>1. targets \in SUBSET Doc
      BY <2>2
    <3>. HIDE DEF known, forgotten, writes, targets, lands
    <3>. QED
      BY <1>a, <2>2, <3>1, RunType DEF Step
  <2>. QED
    BY <1>11, <2>3, PutType DEF PlanReceive
<1>12. ASSUME NEW p \in Command, NEW f \in run[p].writes, Write(p, f)
       PROVE  TypeOK'
  BY <1>12, <1>a, RunType, PutType DEF Write
<1>13. ASSUME NEW p \in Command, Comply(p)
       PROVE  TypeOK'
  BY <1>13, <1>a, RunType, PutType DEF Comply, Step
<1>14. ASSUME NEW p \in Command, WalkToDrop(p)
       PROVE  TypeOK'
  BY <1>14, WalkType DEF WalkToDrop, Step
<1>15. ASSUME NEW p \in Command, DropFromCatalogue(p)
       PROVE  TypeOK'
  BY <1>15, <1>a, RunType, PutType DEF DropFromCatalogue, Step
<1>16. ASSUME NEW p \in Command, ClearCache(p)
       PROVE  TypeOK'
  BY <1>16, <1>a, RunType, PutType DEF ClearCache, Step
<1>17. ASSUME NEW p \in Command, NEW f \in run[p].destroys, Destroy(p, f)
       PROVE  TypeOK'
  BY <1>17, <1>a, RunType, PutType, IdleType DEF Destroy
<1>18. ASSUME NEW p \in Command, NEW d \in run[p].lands, Land(p, d)
       PROVE  TypeOK'
  BY <1>18, <1>a, RunType, PutType DEF Land
<1>19. ASSUME NEW p \in Command, Complied(p)
       PROVE  TypeOK'
  BY <1>19, <1>a, RunType, PutType DEF Complied, Step
<1>20. ASSUME NEW p \in Command, Finish(p) \/ Stop(p)
       PROVE  TypeOK'
  BY <1>20, <1>a, RunType, PutType, IdleType DEF Finish, Stop
<1>21. ASSUME NEW f \in File, Sync(f)
       PROVE  TypeOK'
  BY <1>21 DEF Sync
<1>22. CASE UNCHANGED vars
  BY <1>22 DEF vars
<1>. QED
  BY <1>0, <1>1, <1>2, <1>3, <1>4, <1>5, <1>6, <1>7, <1>8, <1>9, <1>10, <1>11, <1>12,
     <1>13, <1>14, <1>15, <1>16, <1>17, <1>18, <1>19, <1>20, <1>21, <1>22 DEF Acts

-----------------------------------------------------------------------------
(* What is answered for stays answered. *)

\* A disk with more files answers for all it did.
LEMMA MoreKeeps ==
  ASSUME NEW F \in SUBSET File, NEW G \in SUBSET File
  PROVE  Keeps(F, F \cup G)
BY DEF Keeps, Held, Answered

\* An original may go where a stand-in for it stays.
LEMMA DestroyKeeps ==
  ASSUME NEW F \in SUBSET File, NEW f \in F, f.marks = {}, StandIns(F, f.doc) # {}
  PROVE  Keeps(F, F \ {f})
<1>1. PICK g \in F : g.doc = f.doc /\ g.marks # {}
  BY DEF StandIns
<1>2. g \in F \ {f}
  BY <1>1
<1>3. ASSUME NEW h \in F
      PROVE  Held(F \ {f}, h)
  <2>1. CASE h = f
    BY <1>1, <1>2, <2>1 DEF Held, Answered
  <2>2. CASE h # f
    BY <2>2 DEF Held, Answered
  <2>. QED
    BY <2>1, <2>2
<1>. QED
  BY <1>3 DEF Keeps

\* What was held stays held where the disk keeps its answers.
LEMMA HeldKept ==
  ASSUME NEW F, NEW G, Keeps(F, G), NEW f, Held(F, f)
  PROVE  Held(G, f)
BY DEF Keeps, Held, Answered

\* And a sound command stays sound.
LEMMA SoundKept ==
  ASSUME NEW F, NEW G, Keeps(F, G), NEW r, Sound(F, r)
  PROVE  Sound(G, r)
<1>1. \A d : Answered(F, d) => Answered(G, d)
  BY DEF Keeps, Held, Answered
<1>2. \A d : Answered(F \cup r.writes, d) => Answered(G \cup r.writes, d)
  BY DEF Keeps, Held, Answered
<1>3. \A d : StandIns(F \cup r.writes, d) # {} => StandIns(G \cup r.writes, d) # {}
  BY DEF Keeps, Held, StandIns
<1>4. \A f \in r.known : Held(G, f)
  BY HeldKept DEF Sound
<1>. QED
  BY <1>1, <1>2, <1>3, <1>4 DEF Sound

\* A step of one command keeps the invariant if the disk keeps its answers and
\* the command itself comes out sound.
LEMMA OneCommandSteps ==
  ASSUME IInv, TypeOK', NEW p \in Command, NEW r, Put(p, r),
         Keeps(files, files'), Sound(files', r),
         \A f \in catalogue' \ catalogue : Held(files', f),
         \A d \in revisions' \ revisions : Answered(files', d)
  PROVE  IInv'
<1>1. \A q \in Command : Sound(files', run'[q])
  <2>. TAKE q \in Command
  <2>1. CASE q = p
    BY <2>1 DEF Put, IInv, TypeOK
  <2>2. CASE q # p
    <3>1. run'[q] = run[q]
      BY <2>2 DEF Put, IInv, TypeOK
    <3>. QED
      BY <3>1, SoundKept DEF IInv
  <2>. QED
    BY <2>1, <2>2
<1>2. \A f \in catalogue' : Held(files', f)
  BY HeldKept DEF IInv
<1>3. \A d : Answered(files, d) => Answered(files', d)
  BY DEF Keeps, Held, Answered
<1>4. RevisionsAnswered'
  BY <1>3 DEF IInv, RevisionsAnswered
<1>. QED
  BY <1>1, <1>2, <1>4 DEF IInv

\* A command that does nothing is sound on any disk.
LEMMA IdleSound == \A F : Sound(F, Idle)
BY DEF Sound, Idle

\* A disk answers for what it holds.
LEMMA SameKeeps == \A F : Keeps(F, F)
BY DEF Keeps, Held, Answered

\* A command with nothing left to write or to destroy may go to any step but
\* "filed".
LEMMA StepSound ==
  ASSUME NEW F, NEW r \in Run, Sound(F, r), r.writes = {}, r.destroys = {},
         NEW s, s # "filed"
  PROVE  /\ Sound(F, [r EXCEPT !.step = s])
         /\ \A t : t # "filed" => Sound(F, [r EXCEPT !.step = s, !.after = t])
BY DEF Sound, Run

\* A command that has learned something knows what the disk holds.
LEMMA LearnSound ==
  ASSUME IInv, TypeOK', NEW p \in Command, NEW r \in Run, NEW next,
         Learn(p, r, next), UNCHANGED <<files, revisions, catalogue>>,
         Sound(files, r), r.writes = {}, r.destroys = {}, next # "filed"
  PROVE  IInv'
<1>. DEFINE n == IF r.known = catalogue THEN [r EXCEPT !.step = next]
                 ELSE [r EXCEPT !.step = "learned", !.after = next]
<1>1. Sound(files', n)
  BY StepSound
<1>2. Put(p, n) /\ Keeps(files, files')
  BY SameKeeps DEF Learn
<1>. QED
  BY <1>1, <1>2, OneCommandSteps

\* A command that starts knows what the catalogue names and the disk holds.
LEMMA StartSound ==
  ASSUME IInv, TypeOK', NEW p \in Command, NEW c \in Commands, Start(p, c)
  PROVE  IInv'
<1>. DEFINE r == [c EXCEPT !.known = catalogue \cup files, !.hidden = Forgotten(files)]
<1>1. r \in Run
  BY CommandsType, ForgottenType, RunType DEF IInv, TypeOK
<1>2. /\ c.writes = {} /\ c.destroys = {} /\ c.targets = {} /\ c.lands = {}
      /\ c.step = "none" /\ c.after = "none"
  BY DEF Commands, Idle
<1>3. Sound(files, r) /\ r.writes = {} /\ r.destroys = {}
  <2>1. /\ r.writes = {} /\ r.destroys = {} /\ r.targets = {} /\ r.lands = {}
        /\ r.step = "none" /\ r.after = "none" /\ r.known = catalogue \cup files
    BY <1>2, CommandsType DEF Run
  <2>2. \A f \in r.known : Held(files, f)
    BY <2>1, SameKeeps DEF IInv, Keeps
  <2>. HIDE DEF r
  <2>. QED
    BY <2>1, <2>2 DEF Sound
<1>4. Learn(p, r, "opened") /\ UNCHANGED <<files, revisions, catalogue>>
  BY DEF Start
<1>. HIDE DEF r
<1>. QED
  BY <1>1, <1>3, <1>4, LearnSound

\* So does one that has walked the directory.
LEMMA WalkSound ==
  ASSUME IInv, TypeOK', NEW p \in Command, NEW next, Walk(p, next),
         run[p].step # "writing", run[p].step # "filed", next # "filed",
         run[p].destroys = {}
  PROVE  IInv'
<1>. DEFINE r == [run[p] EXCEPT !.known = files, !.walked = TRUE]
<1>1. run[p] \in Run /\ r \in Run
  BY RunType DEF IInv, TypeOK
<1>2. Sound(files, run[p]) /\ run[p].writes = {}
  BY DEF IInv, Sound
<1>3. \A f \in files : Held(files, f)
  BY SameKeeps DEF Keeps
<1>4. Sound(files, r) /\ r.writes = {} /\ r.destroys = {}
  BY <1>1, <1>2, <1>3 DEF Sound, Run
<1>5. Learn(p, r, next) /\ UNCHANGED <<files, revisions, catalogue>>
  BY DEF Walk
<1>. HIDE DEF r
<1>. QED
  BY <1>1, <1>4, <1>5, LearnSound

-----------------------------------------------------------------------------
(* The steps of forgetting and receiving. *)

\* Every document with a quote of the items is covered by the stand-in about
\* to be written, or by one that marks all of those quotes already.
LEMMA PlanForgetSound ==
  ASSUME IInv, TypeOK', NEW p \in Command, PlanForget(p)
  PROVE  IInv'
<1>. DEFINE targets == {d \in revisions : Quotes(d) \cap run[p].items # {}}
            writes == StandInsFor(run[p].known, run[p].items, revisions)
            destroys == {Original(d) : d \in targets} \cap files
            r == [run[p] EXCEPT !.step = "writing", !.clears = TRUE, !.targets = targets,
                                !.writes = writes, !.destroys = destroys]
<1>1. run[p] \in Run /\ Sound(files, run[p]) /\ run[p].writes = {} /\ run[p].kind = "forget"
  BY DEF IInv, TypeOK, Sound, PlanForget, At
<1>2. ASSUME NEW d \in targets
      PROVE  StandIns(files \cup writes, d) # {}
  <2>. DEFINE marks == Quotes(d) \cap run[p].items
  <2>1. marks # {} /\ d \in revisions
    OBVIOUS
  <2>2. CASE marks \subseteq Marked(run[p].known, d)
    <3>1. PICK f \in run[p].known : f.doc = d /\ f.marks # {}
      BY <2>1, <2>2 DEF Marked, StandIns
    <3>2. f \in files
      BY <1>1, <3>1 DEF Sound, Held
    <3>. QED
      BY <3>1, <3>2 DEF StandIns
  <2>3. CASE ~(marks \subseteq Marked(run[p].known, d))
    <3>. DEFINE f == [doc |-> d, marks |-> Marked(run[p].known, d) \cup marks]
    <3>1. f \in writes
      BY <2>1, <2>3 DEF StandInsFor
    <3>2. f.doc = d /\ f.marks # {}
      BY <2>1
    <3>. QED
      BY <3>1, <3>2 DEF StandIns
  <2>. QED
    BY <2>2, <2>3
<1>3. \A f \in destroys : f.marks = {} /\ f.doc \in targets
  BY DEF Original
<1>4. \A d \in run[p].lands : Answered(files \cup writes, d)
  BY <1>1 DEF Sound, Answered
<1>5. Put(p, r) /\ UNCHANGED <<files, revisions, catalogue>>
  BY DEF PlanForget
<1>6. Sound(files, r)
  <2>. HIDE DEF targets, writes, destroys
  <2>1. /\ r.known = run[p].known /\ r.step = "writing" /\ r.targets = targets
        /\ r.writes = writes /\ r.destroys = destroys /\ r.lands = run[p].lands
        /\ r.kind = "forget" /\ r.after = run[p].after
    BY <1>1 DEF Run
  <2>. HIDE DEF r
  <2>. QED
    BY <1>1, <1>2, <1>3, <1>4, <2>1 DEF Sound
<1>. HIDE DEF r
<1>. QED
  BY <1>5, <1>6, SameKeeps, OneCommandSteps

\* All that another store answers with arrives, but for originals of which one
\* side or the other has a stand-in.
LEMMA PlanReceiveSound ==
  ASSUME IInv, TypeOK', NEW p \in Command, NEW S \in Sources,
         PlanReceive(p, S, {f.doc : f \in S})
  PROVE  IInv'
<1>. DEFINE known == run[p].known
            forgotten == {f.doc : f \in {g \in known \cup S : g.marks # {}}}
            writes == (S \ known) \ {Original(d) : d \in forgotten}
            targets == {d \in forgotten : Original(d) \in known}
            lands == {f.doc : f \in S} \ revisions
            r == [run[p] EXCEPT !.step = "writing", !.writes = writes,
                                !.targets = targets, !.lands = lands]
<1>1. /\ run[p] \in Run /\ Sound(files, run[p]) /\ run[p].writes = {}
      /\ run[p].kind = "receive" /\ S \in SUBSET File
  BY DEF IInv, TypeOK, Sound, PlanReceive, At, Sources
<1>2. ASSUME NEW d \in forgotten
      PROVE  StandIns(files \cup writes, d) # {}
  <2>1. PICK f \in known \cup S : f.doc = d /\ f.marks # {}
    OBVIOUS
  <2>2. f \in files \cup writes
    BY <1>1, <2>1 DEF Sound, Held, Original
  <2>. QED
    BY <2>1, <2>2 DEF StandIns
<1>3. ASSUME NEW d \in lands
      PROVE  Answered(files \cup writes, d)
  <2>1. PICK f \in S : f.doc = d
    OBVIOUS
  <2>2. CASE d \in forgotten
    BY <1>2, <2>2 DEF StandIns, Answered
  <2>3. CASE d \notin forgotten /\ f \in known
    BY <1>1, <2>1, <2>3 DEF Sound, Held, Answered
  <2>4. CASE d \notin forgotten /\ f \notin known
    <3>1. f \in writes
      BY <2>1, <2>4 DEF Original
    <3>. QED
      BY <2>1, <3>1 DEF Answered
  <2>. QED
    BY <2>2, <2>3, <2>4
<1>4. run[p].destroys = {}
  BY <1>1 DEF Sound, PlanReceive, At
<1>5. Put(p, r) /\ UNCHANGED <<files, revisions, catalogue>>
  BY DEF PlanReceive
<1>6. Sound(files, r)
  <2>1. \A d \in targets : StandIns(files \cup writes, d) # {}
    BY <1>2
  <2>. HIDE DEF forgotten, targets, writes, lands
  <2>2. /\ r.known = run[p].known /\ r.step = "writing" /\ r.targets = targets
        /\ r.writes = writes /\ r.destroys = run[p].destroys /\ r.lands = lands
        /\ r.kind = "receive" /\ r.after = run[p].after
    BY <1>1 DEF Run
  <2>. HIDE DEF r
  <2>. QED
    BY <1>1, <1>3, <1>4, <2>1, <2>2 DEF Sound
<1>. HIDE DEF r
<1>. QED
  BY <1>5, <1>6, SameKeeps, OneCommandSteps

\* What is written was planned, and from then on the disk has it.
LEMMA WriteSound ==
  ASSUME IInv, TypeOK', NEW p \in Command, NEW f \in run[p].writes, Write(p, f)
  PROVE  IInv'
<1>. DEFINE r == [run[p] EXCEPT !.writes = @ \ {f}, !.known = @ \cup {f}]
<1>1. run[p] \in Run /\ Sound(files, run[p]) /\ run[p].step = "writing" /\ f \in File
  BY RunType DEF IInv, TypeOK, Write
<1>2. files \in SUBSET File
  BY DEF IInv, TypeOK
<1>3. Keeps(files, files') /\ Sound(files', run[p]) /\ f \in files'
  BY <1>1, <1>2, MoreKeeps, SoundKept DEF Write
<1>4. Put(p, r) /\ files' = files \cup {f} /\ UNCHANGED <<revisions, catalogue>>
  BY DEF Write
<1>5. files' \cup (run[p].writes \ {f}) = files' \cup run[p].writes
  BY <1>4
<1>6. /\ r.known = run[p].known \cup {f} /\ r.writes = run[p].writes \ {f}
      /\ r.step = "writing" /\ r.targets = run[p].targets /\ r.kind = run[p].kind
      /\ r.destroys = run[p].destroys /\ r.lands = run[p].lands /\ r.doc = run[p].doc
      /\ r.after = run[p].after
  BY <1>1 DEF Run
<1>7. \A g \in r.known : Held(files', g)
  BY <1>3, <1>6 DEF Sound, Held, Answered
<1>8. Sound(files', r)
  <2>. HIDE DEF r
  <2>. QED
    BY <1>3, <1>5, <1>6, <1>7 DEF Sound
<1>. HIDE DEF r
<1>. QED
  BY <1>3, <1>4, <1>8, OneCommandSteps

\* What a receive finds to destroy, its stand-ins are on the disk.
LEMMA ComplySound ==
  ASSUME IInv, TypeOK', NEW p \in Command, Comply(p)
  PROVE  IInv'
<1>. DEFINE found == {Original(d) : d \in run[p].targets} \cap files
            n == IF run[p].kind = "forget" THEN [run[p] EXCEPT !.step = "complying"]
                 ELSE [run[p] EXCEPT !.step = "complying", !.destroys = found,
                                     !.clears = (found # {})]
<1>1. run[p] \in Run /\ Sound(files, run[p]) /\ run[p].writes = {}
  BY DEF IInv, TypeOK, Comply
<1>2. Put(p, n) /\ UNCHANGED <<files, revisions, catalogue>>
  BY DEF Comply
<1>3. \A f \in found : f.marks = {} /\ f.doc \in run[p].targets
  BY DEF Original
<1>4. Sound(files, n)
  <2>. HIDE DEF found
  <2>1. /\ n.known = run[p].known /\ n.writes = {} /\ n.step = "complying"
        /\ n.targets = run[p].targets /\ n.lands = run[p].lands
        /\ n.destroys = run[p].destroys \/ n.destroys = found
        /\ n.after = run[p].after
    BY <1>1 DEF Run
  <2>. HIDE DEF n
  <2>. QED
    BY <1>1, <1>3, <2>1 DEF Sound
<1>. HIDE DEF n
<1>. QED
  BY <1>2, <1>4, SameKeeps, OneCommandSteps

\* What a command destroys is an original, and by then a stand-in is on the disk.
LEMMA DestroySound ==
  ASSUME IInv, TypeOK', NEW p \in Command, NEW f \in run[p].destroys, Destroy(p, f)
  PROVE  IInv'
<1>. DEFINE n == IF f \in files THEN [run[p] EXCEPT !.destroys = @ \ {f}] ELSE Idle
<1>1. run[p] \in Run /\ Sound(files, run[p]) /\ run[p].step = "complying"
  BY DEF IInv, TypeOK, Destroy
<1>2. f.marks = {} /\ StandIns(files, f.doc) # {}
  BY <1>1 DEF Sound
<1>3. Keeps(files, files')
  <2>1. CASE f \in files
    BY <1>2, <2>1, DestroyKeeps DEF IInv, TypeOK, Destroy
  <2>2. CASE f \notin files
    BY <2>2, SameKeeps DEF Destroy
  <2>. QED
    BY <2>1, <2>2
<1>4. Sound(files', [run[p] EXCEPT !.destroys = @ \ {f}])
  <2>1. Sound(files', run[p])
    BY <1>1, <1>3, SoundKept
  <2>. QED
    BY <1>1, <2>1 DEF Sound, Run
<1>5. Put(p, n) /\ UNCHANGED <<revisions, catalogue>>
  BY DEF Destroy
<1>6. Sound(files', n)
  BY <1>4, IdleSound
<1>. HIDE DEF n
<1>. QED
  BY <1>3, <1>5, <1>6, OneCommandSteps

\* What is left in the catalogue was known.
LEMMA DropSound ==
  ASSUME IInv, TypeOK', NEW p \in Command, DropFromCatalogue(p)
  PROVE  IInv'
<1>. DEFINE left == run[p].known \ {Original(d) : d \in run[p].targets}
            n == [run[p] EXCEPT !.known = left,
                                !.step = IF run[p].clears THEN "clearing" ELSE "dropped"]
<1>1. /\ run[p] \in Run /\ Sound(files, run[p])
      /\ run[p].writes = {} /\ run[p].destroys = {}
  BY DEF IInv, TypeOK, Sound, DropFromCatalogue
<1>2. Put(p, n) /\ catalogue' = left /\ UNCHANGED <<files, revisions>>
  BY DEF DropFromCatalogue
<1>3. Sound(files, n)
  <2>1. /\ n.known = left /\ n.writes = {} /\ n.step \in {"clearing", "dropped"}
        /\ n.targets = run[p].targets /\ n.lands = run[p].lands /\ n.destroys = {}
        /\ n.after = run[p].after
    BY <1>1 DEF Run
  <2>2. left \subseteq run[p].known
    OBVIOUS
  <2>. HIDE DEF n, left
  <2>. QED
    BY <1>1, <2>1, <2>2 DEF Sound
<1>4. \A f \in catalogue' : Held(files', f)
  BY <1>1, <1>2 DEF Sound
<1>. HIDE DEF n, left
<1>. QED
  BY <1>2, <1>3, <1>4, SameKeeps, OneCommandSteps

\* What a command lands was covered by what it has written by now.
LEMMA LandSound ==
  ASSUME IInv, TypeOK', NEW p \in Command, NEW d \in run[p].lands, Land(p, d)
  PROVE  IInv'
<1>. DEFINE n == [run[p] EXCEPT !.lands = @ \ {d}]
<1>1. run[p] \in Run /\ Sound(files, run[p]) /\ run[p].writes = {}
  BY DEF IInv, TypeOK, Sound, Land
<1>2. Answered(files, d)
  BY <1>1 DEF Sound
<1>3. Sound(files, n)
  BY <1>1 DEF Sound, Run
<1>4. Put(p, n) /\ revisions' = revisions \cup {d} /\ UNCHANGED <<files, catalogue>>
  BY DEF Land
<1>. HIDE DEF n
<1>. QED
  BY <1>2, <1>3, <1>4, SameKeeps, OneCommandSteps

-----------------------------------------------------------------------------
(* The other steps. *)

\* A document filed is one more file.
LEMMA FileDocumentSound ==
  ASSUME IInv, TypeOK', NEW p \in Command, FileDocument(p)
  PROVE  IInv'
<1>. DEFINE o == Original(run[p].doc)
            n == [run[p] EXCEPT !.known = @ \cup {o}, !.step = "filed"]
<1>1. /\ run[p] \in Run /\ Sound(files, run[p]) /\ run[p].writes = {}
      /\ run[p].destroys = {} /\ run[p].doc \in Doc
  BY RunType DEF IInv, TypeOK, Sound, FileDocument, At
<1>2. files \in SUBSET File /\ {o} \in SUBSET File
  BY <1>1, FileType DEF IInv, TypeOK
<1>3. Put(p, n) /\ files' = files \cup {o} /\ UNCHANGED <<revisions, catalogue>>
  BY DEF FileDocument
<1>4. Keeps(files, files') /\ Sound(files', run[p])
  BY <1>1, <1>2, <1>3, MoreKeeps, SoundKept
<1>5. Held(files', o) /\ Answered(files', run[p].doc)
  <2>1. o.doc = run[p].doc /\ o.marks = {}
    BY DEF Original
  <2>. HIDE DEF o
  <2>. QED
    BY <1>3, <2>1 DEF Held, Answered
<1>6. Sound(files', n)
  <2>. HIDE DEF o
  <2>1. /\ n.known = run[p].known \cup {o} /\ n.writes = {} /\ n.destroys = {}
        /\ n.targets = run[p].targets /\ n.lands = run[p].lands /\ n.doc = run[p].doc
        /\ n.after = run[p].after
    BY <1>1 DEF Run
  <2>. HIDE DEF n
  <2>. QED
    BY <1>1, <1>4, <1>5, <2>1 DEF Sound
<1>. HIDE DEF n
<1>. QED
  BY <1>3, <1>4, <1>6, OneCommandSteps

\* A revision is filed where its document was filed before.
LEMMA FileRevisionSound ==
  ASSUME IInv, TypeOK', NEW p \in Command, FileRevision(p)
  PROVE  IInv'
<1>. DEFINE n == [run[p] EXCEPT !.step = "learned", !.after = "done"]
<1>1. /\ run[p] \in Run /\ Sound(files, run[p]) /\ run[p].writes = {}
      /\ run[p].destroys = {} /\ Answered(files, run[p].doc)
  BY DEF IInv, TypeOK, Sound, FileRevision, At
<1>2. Put(p, n) /\ revisions' = revisions \cup {run[p].doc} /\ UNCHANGED <<files, catalogue>>
  BY DEF FileRevision
<1>3. Sound(files, n)
  BY <1>1, StepSound
<1>. HIDE DEF n
<1>. QED
  BY <1>1, <1>2, <1>3, SameKeeps, OneCommandSteps

\* A file copied in is one more file.
LEMMA SyncSound ==
  ASSUME IInv, TypeOK', NEW f \in File, Sync(f)
  PROVE  IInv'
<1>1. Keeps(files, files')
  BY MoreKeeps DEF Sync, IInv, TypeOK
<1>2. \A p \in Command : Sound(files', run'[p])
  BY <1>1, SoundKept DEF IInv, Sync
<1>3. \A g \in catalogue' : Held(files', g)
  BY <1>1, HeldKept DEF IInv, Sync
<1>4. RevisionsAnswered'
  BY DEF IInv, RevisionsAnswered, Sync, Answered
<1>. QED
  BY <1>2, <1>3, <1>4 DEF IInv

\* Every step keeps the inductive invariant.
THEOREM Invariance ==
  ASSUME NEW kinds, NEW stops
  PROVE  IInv /\ [Acts(kinds, stops)]_vars => IInv'
<1>. SUFFICES ASSUME IInv, [Acts(kinds, stops)]_vars PROVE IInv'
  OBVIOUS
<1>a. TypeOK'
  BY TypeInvariance DEF IInv
<1>b. \A p \in Command : run[p] \in Run /\ Sound(files, run[p])
  BY DEF IInv, TypeOK
<1>1. ASSUME NEW p \in Command, NEW d \in Doc,
             \/ Start(p, [Idle EXCEPT !.kind = "read", !.doc = d])
             \/ Start(p, [Idle EXCEPT !.kind = "record", !.doc = d])
      PROVE  IInv'
  BY <1>1, <1>a, StartSound DEF Commands
<1>2. ASSUME NEW p \in Command, NEW i \in UNION {Shows[d] : d \in revisions},
             Start(p, [Idle EXCEPT !.kind = "forget", !.items = {i}])
      PROVE  IInv'
  <2>1. {i} \in SUBSET Item
    BY ShowsType DEF IInv, TypeOK
  <2>2. [Idle EXCEPT !.kind = "forget", !.items = {i}] \in Commands
    BY <2>1 DEF Commands
  <2>. QED
    BY <1>2, <1>a, <2>2, StartSound
<1>3. ASSUME NEW p \in Command, Start(p, [Idle EXCEPT !.kind = "receive"])
      PROVE  IInv'
  BY <1>3, <1>a, StartSound DEF Commands
<1>4. ASSUME NEW p \in Command, KeepCatalogue(p)
      PROVE  IInv'
  <2>. DEFINE n == [run[p] EXCEPT !.step = run[p].after]
  <2>1. run[p].writes = {} /\ run[p].destroys = {} /\ run[p].after # "filed"
    BY <1>4, <1>b DEF KeepCatalogue, Sound
  <2>2. Put(p, n) /\ catalogue' = run[p].known /\ UNCHANGED <<files, revisions>>
    BY <1>4 DEF KeepCatalogue
  <2>3. Sound(files, n)
    BY <1>b, <2>1, StepSound
  <2>4. \A f \in catalogue' : Held(files', f)
    BY <1>b, <2>2 DEF Sound
  <2>. HIDE DEF n
  <2>. QED
    BY <1>a, <2>2, <2>3, <2>4, SameKeeps, OneCommandSteps
<1>5. ASSUME NEW p \in Command, Upgrade(p) \/ WalkToDrop(p)
      PROVE  IInv'
  <2>1. run[p].destroys = {}
    BY <1>5, <1>b DEF Upgrade, WalkToDrop, Sound
  <2>. QED
    BY <1>5, <1>a, <2>1, WalkSound DEF Upgrade, WalkToDrop
<1>6. ASSUME NEW p \in Command, Replay(p)
      PROVE  IInv'
  <2>1. run[p].writes = {} /\ run[p].destroys = {}
    BY <1>6, <1>b DEF Replay, At, Sound
  <2>. DEFINE kept == Kept(run[p].doc)
              base == IF kept = {} THEN 0 ELSE CHOOSE e \in kept : \A f \in kept : f <= e
              said == UNION {Adds[e] \cap Marked(run[p].known, e) : e \in base + 1..run[p].doc}
              next == IF base = run[p].doc THEN "shown" ELSE "replayed"
              n == [run[p] EXCEPT !.shown = Shows[run[p].doc] \ said, !.step = next]
  <2>2. Put(p, n)
    BY <1>6 DEF Replay
  <2>3. Sound(files, n)
    <3>1. next # "filed" /\ next # "learned"
      OBVIOUS
    <3>. HIDE DEF said, next
    <3>. QED
      BY <1>b, <2>1, <3>1 DEF Sound, Run
  <2>4. UNCHANGED <<files, revisions, catalogue>>
    BY <1>6 DEF Replay
  <2>. HIDE DEF n
  <2>. QED
    BY <1>a, <2>2, <2>3, <2>4, SameKeeps, OneCommandSteps
<1>7. ASSUME NEW p \in Command, KeepState(p) \/ ClearCache(p) \/ Complied(p)
      PROVE  IInv'
  <2>1. run[p].writes = {} /\ run[p].destroys = {}
    BY <1>7, <1>b DEF KeepState, ClearCache, Complied, At, Sound
  <2>2. PICK s \in {"shown", "dropped", "done"} : Put(p, [run[p] EXCEPT !.step = s])
    BY <1>7 DEF KeepState, ClearCache, Complied
  <2>3. Sound(files, [run[p] EXCEPT !.step = s])
    BY <1>b, <2>1, <2>2, StepSound
  <2>4. UNCHANGED <<files, revisions, catalogue>>
    BY <1>7 DEF KeepState, ClearCache, Complied
  <2>. QED
    BY <1>a, <2>2, <2>3, <2>4, SameKeeps, OneCommandSteps
<1>8. ASSUME NEW p \in Command, FileDocument(p) \/ FileRevision(p)
      PROVE  IInv'
  BY <1>8, <1>a, FileDocumentSound, FileRevisionSound
<1>9. ASSUME NEW p \in Command, PlanForget(p) \/ Comply(p) \/ DropFromCatalogue(p)
      PROVE  IInv'
  BY <1>9, <1>a, PlanForgetSound, ComplySound, DropSound
<1>10. ASSUME NEW p \in Command, NEW S \in Sources, PlanReceive(p, S, {f.doc : f \in S})
       PROVE  IInv'
  BY <1>10, <1>a, PlanReceiveSound
<1>11. ASSUME NEW p \in Command, NEW f \in run[p].writes, Write(p, f)
       PROVE  IInv'
  BY <1>11, <1>a, WriteSound
<1>12. ASSUME NEW p \in Command, NEW f \in run[p].destroys, Destroy(p, f)
       PROVE  IInv'
  BY <1>12, <1>a, DestroySound
<1>13. ASSUME NEW p \in Command, NEW d \in run[p].lands, Land(p, d)
       PROVE  IInv'
  BY <1>13, <1>a, LandSound
<1>14. ASSUME NEW p \in Command, Finish(p) \/ Stop(p)
       PROVE  IInv'
  <2>1. Put(p, Idle) /\ UNCHANGED <<files, revisions, catalogue>>
    BY <1>14 DEF Finish, Stop
  <2>. QED
    BY <1>a, <2>1, IdleSound, SameKeeps, OneCommandSteps
<1>15. ASSUME NEW f \in File, Sync(f)
       PROVE  IInv'
  BY <1>15, <1>a, SyncSound
<1>16. CASE UNCHANGED vars
  BY <1>16 DEF vars, IInv, TypeOK, RevisionsAnswered
<1>17. \A d \in revisions : d \in Doc
  BY DEF IInv, TypeOK
<1>. QED
  BY <1>1, <1>2, <1>3, <1>4, <1>5, <1>6, <1>7, <1>8, <1>9, <1>10, <1>11, <1>12,
     <1>13, <1>14, <1>15, <1>16, <1>17 DEF Acts

\* It holds of the store every behaviour starts with.
LEMMA Initially == Init => IInv
<1>. SUFFICES ASSUME Init PROVE IInv
  OBVIOUS
<1>1. 1 \in Doc
  BY HistoryAssumption DEF Doc
<1>2. TypeOK
  BY <1>1, FileType, IdleType DEF Init, TypeOK
<1>3. \A p \in Command : Sound(files, run[p])
  BY IdleSound DEF Init
<1>4. RevisionsAnswered
  BY DEF Init, RevisionsAnswered, Answered, Original
<1>. QED
  BY <1>2, <1>3, <1>4 DEF Init, IInv

-----------------------------------------------------------------------------
(* Types, and that every revision is answered for. *)

\* Files, catalogue, kept texts and commands stay what they are, whoever runs
\* what at once and stops where.
THEOREM TypeCorrect == Spec => []TypeOK
<1>1. Init => TypeOK
  BY Initially DEF IInv
<1>2. TypeOK /\ [Next]_vars => TypeOK'
  BY TypeInvariance DEF Next
<1>. QED
  BY <1>1, <1>2, PTL DEF Spec

\* However many commands forget, record, receive and sync at once, and wherever
\* any of them is stopped, each revision on the disk has its document or a
\* stand-in for it.
THEOREM AlwaysAnswered == Spec => []RevisionsAnswered
<1>1. IInv => RevisionsAnswered
  BY DEF IInv
<1>2. IInv /\ [Next]_vars => IInv'
  BY Invariance DEF Next
<1>. QED
  BY <1>1, <1>2, Initially, PTL DEF Spec
-----------------------------------------------------------------------------
(* A forget reaches every quote. *)

\* What a forget has written and has yet to write marks every quote of its
\* items in the documents it is to forget them in.
Covered(F, r) ==
  r.kind = "forget" =>
    \A d \in r.targets : Quotes(d) \cap r.items \subseteq Marked(F \cup r.writes, d)

CoverInv == IInv /\ \A p \in Command : Covered(files, run[p])

\* s forgets what r does, in the same documents, and has as much to write.
SameWork(r, s) ==
  s.kind = r.kind /\ s.items = r.items /\ s.targets = r.targets /\ s.writes = r.writes

\* The disk keeps its answers through every step of every command.
LEMMA StepsKeep ==
  ASSUME NEW kinds, NEW stops
  PROVE  IInv /\ [Acts(kinds, stops)]_vars => Keeps(files, files')
<1>. SUFFICES ASSUME IInv, [Acts(kinds, stops)]_vars PROVE Keeps(files, files')
  OBVIOUS
<1>1. CASE UNCHANGED files
  BY <1>1, SameKeeps
<1>2. ASSUME NEW f \in File, files' = files \cup {f}
      PROVE  Keeps(files, files')
  BY <1>2, MoreKeeps DEF IInv, TypeOK
<1>3. ASSUME NEW p \in Command, NEW f \in run[p].destroys, Destroy(p, f)
      PROVE  Keeps(files, files')
  <2>1. f.marks = {} /\ StandIns(files, f.doc) # {}
    <3>1. Sound(files, run[p]) /\ run[p].step = "complying"
      BY <1>3 DEF IInv, Destroy
    <3>. QED
      BY <3>1 DEF Sound
  <2>2. CASE f \in files
    BY <1>3, <2>1, <2>2, DestroyKeeps DEF IInv, TypeOK, Destroy
  <2>3. CASE f \notin files
    BY <1>3, <2>3, SameKeeps DEF Destroy
  <2>. QED
    BY <2>2, <2>3
<1>4. ASSUME NEW p \in Command, NEW f \in run[p].writes, Write(p, f)
      PROVE  Keeps(files, files')
  <2>1. f \in File
    BY RunType DEF IInv, TypeOK
  <2>. QED
    BY <1>2, <1>4, <2>1 DEF Write
<1>5. ASSUME NEW p \in Command, FileDocument(p)
      PROVE  Keeps(files, files')
  <2>1. Original(run[p].doc) \in File
    BY <1>5, FileType, RunType DEF IInv, TypeOK, FileDocument, At
  <2>. QED
    BY <1>2, <1>5, <2>1 DEF FileDocument
<1>6. ASSUME NEW f \in File, Sync(f)
      PROVE  Keeps(files, files')
  BY <1>2, <1>6 DEF Sync
<1>7. CASE UNCHANGED vars
  BY <1>1, <1>7 DEF vars
<1>8. ASSUME NEW p \in Command,
             \/ \E c : Start(p, c)
             \/ KeepCatalogue(p) \/ Upgrade(p) \/ Replay(p) \/ KeepState(p)
             \/ FileRevision(p) \/ PlanForget(p)
             \/ \E S \in Sources : PlanReceive(p, S, {f.doc : f \in S})
             \/ Comply(p) \/ WalkToDrop(p) \/ DropFromCatalogue(p) \/ ClearCache(p)
             \/ \E d \in run[p].lands : Land(p, d)
             \/ Complied(p) \/ Finish(p) \/ Stop(p)
      PROVE  UNCHANGED files
  BY <1>8 DEF Start, KeepCatalogue, Upgrade, Walk, Replay, KeepState, FileRevision, PlanForget,
              PlanReceive, Comply, WalkToDrop, DropFromCatalogue, ClearCache, Land, Complied,
              Finish, Stop
<1>. QED
  BY <1>1, <1>3, <1>4, <1>5, <1>6, <1>7, <1>8 DEF Acts

\* Marks stay where the disk keeps its answers.
LEMMA CoveredKept ==
  ASSUME NEW F, NEW G, Keeps(F, G), NEW r, NEW s, Covered(F, r), SameWork(r, s)
  PROVE  Covered(G, s)
<1>. SUFFICES ASSUME s.kind = "forget", NEW d \in s.targets, NEW i \in Quotes(d) \cap s.items
              PROVE  i \in Marked(G \cup s.writes, d)
  BY DEF Covered
<1>1. i \in Marked(F \cup r.writes, d)
  BY DEF Covered, SameWork
<1>2. PICK f \in F \cup r.writes : f.doc = d /\ f.marks # {} /\ i \in f.marks
  BY <1>1 DEF Marked, StandIns
<1>3. f \in G \cup s.writes
  BY <1>2 DEF Keeps, Held, SameWork
<1>. QED
  BY <1>2, <1>3 DEF Marked, StandIns

\* The commands but the one that steps are what they were.
LEMMA OthersStay ==
  ASSUME TypeOK, NEW p \in Command, NEW r, Put(p, r)
  PROVE  run'[p] = r /\ \A q \in Command : q # p => run'[q] = run[q]
BY DEF TypeOK, Put

\* How far a command is, what it knows, destroys, lands and shows are beside that.
LEMMA AsideStays ==
  ASSUME NEW r \in Run
  PROVE  /\ \A s : SameWork(r, [r EXCEPT !.step = s])
         /\ \A s, a : SameWork(r, [r EXCEPT !.step = s, !.after = a])
         /\ \A K, w : SameWork(r, [r EXCEPT !.known = K, !.walked = w])
         /\ \A K, s : SameWork(r, [r EXCEPT !.known = K, !.step = s])
         /\ \A I, s : SameWork(r, [r EXCEPT !.shown = I, !.step = s])
         /\ \A s, D, c : SameWork(r, [r EXCEPT !.step = s, !.destroys = D, !.clears = c])
         /\ \A D : SameWork(r, [r EXCEPT !.destroys = D])
         /\ \A L : SameWork(r, [r EXCEPT !.lands = L])
BY DEF SameWork, Run

\* Only to start, to plan, to write and to end change what a command has to do.
LEMMA WorkStays ==
  ASSUME TypeOK, NEW p \in Command,
         \/ KeepCatalogue(p) \/ Upgrade(p) \/ Replay(p) \/ KeepState(p)
         \/ FileDocument(p) \/ FileRevision(p) \/ Comply(p) \/ WalkToDrop(p)
         \/ DropFromCatalogue(p) \/ ClearCache(p)
         \/ \E d \in run[p].lands : Land(p, d)
         \/ Complied(p)
  PROVE  \A q \in Command : SameWork(run[q], run'[q])
<1>1. run[p] \in Run
  BY DEF TypeOK
<1>2. ASSUME NEW r, Put(p, r), SameWork(run[p], r)
      PROVE  \A q \in Command : SameWork(run[q], run'[q])
  BY <1>2, OthersStay DEF SameWork
<1>3. CASE KeepCatalogue(p)
  <2>. DEFINE n == [run[p] EXCEPT !.step = run[p].after]
  <2>1. Put(p, n) /\ SameWork(run[p], n)
    BY <1>1, <1>3, AsideStays DEF KeepCatalogue
  <2>. HIDE DEF n
  <2>. QED
    BY <1>2, <2>1
<1>4. CASE Upgrade(p) \/ WalkToDrop(p)
  <2>. DEFINE r == [run[p] EXCEPT !.known = files, !.walked = TRUE]
  <2>1. r \in Run /\ SameWork(run[p], r)
    BY <1>1, AsideStays, RunType DEF TypeOK
  <2>2. PICK next : Learn(p, r, next)
    BY <1>4 DEF Upgrade, WalkToDrop, Walk
  <2>. DEFINE n == IF r.known = catalogue THEN [r EXCEPT !.step = next]
                   ELSE [r EXCEPT !.step = "learned", !.after = next]
  <2>3. Put(p, n)
    BY <2>2 DEF Learn
  <2>. HIDE DEF r
  <2>4. SameWork(r, n)
    BY <2>1, AsideStays
  <2>. HIDE DEF n
  <2>. QED
    BY <1>2, <2>1, <2>3, <2>4 DEF SameWork
<1>5. CASE Replay(p)
  <2>1. PICK shown, next : Put(p, [run[p] EXCEPT !.shown = shown, !.step = next])
    BY <1>5 DEF Replay
  <2>. DEFINE n == [run[p] EXCEPT !.shown = shown, !.step = next]
  <2>2. SameWork(run[p], n)
    BY <1>1, AsideStays
  <2>. HIDE DEF n
  <2>. QED
    BY <1>2, <2>1, <2>2 DEF n
<1>6. CASE KeepState(p) \/ ClearCache(p) \/ Complied(p)
  <2>1. PICK next \in {"shown", "dropped", "done"} : Put(p, [run[p] EXCEPT !.step = next])
    BY <1>6 DEF KeepState, ClearCache, Complied
  <2>. DEFINE n == [run[p] EXCEPT !.step = next]
  <2>2. Put(p, n) /\ SameWork(run[p], n)
    BY <1>1, <2>1, AsideStays
  <2>. HIDE DEF n
  <2>. QED
    BY <1>2, <2>2
<1>7. CASE FileDocument(p)
  <2>. DEFINE n == [run[p] EXCEPT !.known = @ \cup {Original(run[p].doc)}, !.step = "filed"]
  <2>1. Put(p, n) /\ SameWork(run[p], n)
    BY <1>1, <1>7, AsideStays DEF FileDocument
  <2>. HIDE DEF n
  <2>. QED
    BY <1>2, <2>1
<1>8. CASE FileRevision(p)
  <2>. DEFINE n == [run[p] EXCEPT !.step = "learned", !.after = "done"]
  <2>1. Put(p, n) /\ SameWork(run[p], n)
    BY <1>1, <1>8, AsideStays DEF FileRevision
  <2>. HIDE DEF n
  <2>. QED
    BY <1>2, <2>1
<1>9. CASE Comply(p)
  <2>. DEFINE found == {Original(d) : d \in run[p].targets} \cap files
              n == IF run[p].kind = "forget" THEN [run[p] EXCEPT !.step = "complying"]
                   ELSE [run[p] EXCEPT !.step = "complying", !.destroys = found,
                                       !.clears = (found # {})]
  <2>1. Put(p, n)
    BY <1>9 DEF Comply
  <2>. HIDE DEF found
  <2>2. SameWork(run[p], n)
    BY <1>1, AsideStays
  <2>. HIDE DEF n
  <2>. QED
    BY <1>2, <2>1, <2>2
<1>10. CASE DropFromCatalogue(p)
  <2>. DEFINE left == run[p].known \ {Original(d) : d \in run[p].targets}
              n == [run[p] EXCEPT !.known = left,
                                  !.step = IF run[p].clears THEN "clearing" ELSE "dropped"]
  <2>1. Put(p, n)
    BY <1>10 DEF DropFromCatalogue
  <2>. HIDE DEF left
  <2>2. SameWork(run[p], n)
    BY <1>1, AsideStays
  <2>. HIDE DEF n
  <2>. QED
    BY <1>2, <2>1, <2>2
<1>11. ASSUME NEW d \in run[p].lands, Land(p, d)
       PROVE  \A q \in Command : SameWork(run[q], run'[q])
  <2>. DEFINE n == [run[p] EXCEPT !.lands = @ \ {d}]
  <2>1. Put(p, n) /\ SameWork(run[p], n)
    BY <1>1, <1>11, AsideStays DEF Land
  <2>. HIDE DEF n
  <2>. QED
    BY <1>2, <2>1
<1>. QED
  BY <1>3, <1>4, <1>5, <1>6, <1>7, <1>8, <1>9, <1>10, <1>11

\* One command comes out covered, and the others were.
LEMMA OneCommandCovers ==
  ASSUME CoverInv, Keeps(files, files'), NEW p \in Command, NEW r, Put(p, r), Covered(files', r)
  PROVE  \A q \in Command : Covered(files', run'[q])
<1>. TAKE q \in Command
<1>1. CASE q = p
  BY <1>1, OthersStay DEF CoverInv, IInv
<1>2. CASE q # p
  BY <1>2, OthersStay, CoveredKept DEF CoverInv, IInv, SameWork
<1>. QED
  BY <1>1, <1>2

\* A plan to forget covers all that it finds: by a stand-in to be written, or
\* by the ones the command knows of, which are on the disk.
LEMMA PlanCovers ==
  ASSUME CoverInv, NEW p \in Command, PlanForget(p)
  PROVE  \A q \in Command : Covered(files', run'[q])
<1>. DEFINE targets == {d \in revisions : Quotes(d) \cap run[p].items # {}}
            writes == StandInsFor(run[p].known, run[p].items, revisions)
            destroys == {Original(d) : d \in targets} \cap files
            r == [run[p] EXCEPT !.step = "writing", !.clears = TRUE, !.targets = targets,
                                !.writes = writes, !.destroys = destroys]
<1>1. run[p] \in Run /\ Sound(files, run[p])
  BY DEF CoverInv, IInv, TypeOK
<1>2. ASSUME NEW d \in targets, NEW i \in Quotes(d) \cap run[p].items
      PROVE  i \in Marked(files \cup writes, d)
  <2>1. CASE Quotes(d) \cap run[p].items \subseteq Marked(run[p].known, d)
    <3>1. PICK f \in run[p].known : f.doc = d /\ f.marks # {} /\ i \in f.marks
      BY <2>1 DEF Marked, StandIns
    <3>2. f \in files
      BY <1>1, <3>1 DEF Sound, Held
    <3>. QED
      BY <3>1, <3>2 DEF Marked, StandIns
  <2>2. CASE ~(Quotes(d) \cap run[p].items \subseteq Marked(run[p].known, d))
    <3>. DEFINE f == [doc |-> d, marks |-> Marked(run[p].known, d) \cup (Quotes(d) \cap run[p].items)]
    <3>1. f \in writes
      BY <2>2 DEF StandInsFor
    <3>2. f.doc = d /\ i \in f.marks /\ f.marks # {}
      OBVIOUS
    <3>. HIDE DEF f, writes
    <3>. QED
      BY <3>1, <3>2 DEF Marked, StandIns
  <2>. QED
    BY <2>1, <2>2
<1>3. Put(p, r) /\ UNCHANGED files
  BY DEF PlanForget
<1>4. Covered(files', r)
  <2>. HIDE DEF writes, targets, destroys
  <2>1. r.items = run[p].items /\ r.targets = targets /\ r.writes = writes
    BY <1>1 DEF Run
  <2>. HIDE DEF r
  <2>. QED
    BY <1>2, <1>3, <2>1 DEF Covered
<1>. HIDE DEF r
<1>. QED
  BY <1>3, <1>4, SameKeeps, OneCommandCovers

\* What is written leaves what has yet to be written, and is on the disk.
LEMMA WriteCovers ==
  ASSUME CoverInv, NEW p \in Command, NEW f \in run[p].writes, Write(p, f), Keeps(files, files')
  PROVE  \A q \in Command : Covered(files', run'[q])
<1>. DEFINE r == [run[p] EXCEPT !.writes = @ \ {f}, !.known = @ \cup {f}]
<1>1. run[p] \in Run /\ Covered(files', run[p])
  BY CoveredKept DEF CoverInv, IInv, TypeOK, SameWork
<1>2. Put(p, r) /\ files' = files \cup {f}
  BY DEF Write
<1>3. r.kind = run[p].kind /\ r.items = run[p].items /\ r.targets = run[p].targets
      /\ r.writes = run[p].writes \ {f}
  BY <1>1 DEF Run
<1>. HIDE DEF r
<1>4. files' \cup r.writes = files' \cup run[p].writes
  BY <1>2, <1>3
<1>5. Covered(files', r)
  BY <1>1, <1>3, <1>4 DEF Covered
<1>. QED
  BY <1>2, <1>5, OneCommandCovers

\* Every step of every command keeps every forget covered.
THEOREM Coverage ==
  ASSUME NEW kinds, NEW stops
  PROVE  CoverInv /\ [Acts(kinds, stops)]_vars => CoverInv'
<1>. SUFFICES ASSUME CoverInv, [Acts(kinds, stops)]_vars PROVE \A q \in Command : Covered(files', run'[q])
  BY Invariance DEF CoverInv
<1>a. Keeps(files, files') /\ TypeOK
  BY StepsKeep DEF CoverInv, IInv
<1>b. ASSUME \A q \in Command : SameWork(run[q], run'[q])
      PROVE  \A q \in Command : Covered(files', run'[q])
  BY <1>a, <1>b, CoveredKept DEF CoverInv
<1>c. ASSUME NEW p \in Command, NEW r, Put(p, r), r.kind # "forget" \/ r.targets = {}
      PROVE  \A q \in Command : Covered(files', run'[q])
  BY <1>a, <1>c, OneCommandCovers DEF Covered
<1>1. ASSUME NEW p \in Command, NEW c \in Commands, Start(p, c)
      PROVE  \A q \in Command : Covered(files', run'[q])
  <2>1. c \in Run /\ c.targets = {}
    BY CommandsType DEF Commands, Idle
  <2>. DEFINE r == [c EXCEPT !.known = catalogue \cup files, !.hidden = Forgotten(files)]
              n == IF r.known = catalogue THEN [r EXCEPT !.step = "opened"]
                   ELSE [r EXCEPT !.step = "learned", !.after = "opened"]
  <2>2. r \in Run /\ r.targets = {}
    <3>1. r.targets = {}
      BY <2>1 DEF Run
    <3>2. r \in Run
      BY <1>a, <2>1, ForgottenType, RunType DEF TypeOK
    <3>. QED
      BY <3>1, <3>2
  <2>3. Put(p, n)
    BY <1>1 DEF Start, Learn
  <2>. HIDE DEF r
  <2>4. n.targets = {}
    BY <2>2 DEF Run
  <2>. HIDE DEF n
  <2>. QED
    BY <1>c, <2>3, <2>4
<1>2. ASSUME NEW p \in Command, PlanForget(p)
      PROVE  \A q \in Command : Covered(files', run'[q])
  BY <1>2, PlanCovers
<1>3. ASSUME NEW p \in Command, NEW S \in Sources, PlanReceive(p, S, {f.doc : f \in S})
      PROVE  \A q \in Command : Covered(files', run'[q])
  <2>1. run[p] \in Run /\ run[p].kind = "receive"
    BY <1>3, <1>a DEF PlanReceive, At, TypeOK
  <2>. DEFINE forgotten == {f.doc : f \in {g \in run[p].known \cup S : g.marks # {}}}
              writes == (S \ run[p].known) \ {Original(d) : d \in forgotten}
              targets == {d \in forgotten : Original(d) \in run[p].known}
              lands == {f.doc : f \in S} \ revisions
              n == [run[p] EXCEPT !.step = "writing", !.writes = writes,
                                  !.targets = targets, !.lands = lands]
  <2>2. Put(p, n)
    BY <1>3 DEF PlanReceive
  <2>. HIDE DEF writes, targets, lands
  <2>3. n.kind # "forget"
    BY <2>1 DEF Run
  <2>. HIDE DEF n
  <2>. QED
    BY <1>c, <2>2, <2>3
<1>4. ASSUME NEW p \in Command, NEW f \in run[p].writes, Write(p, f)
      PROVE  \A q \in Command : Covered(files', run'[q])
  BY <1>4, <1>a, WriteCovers
<1>5. ASSUME NEW p \in Command, NEW f \in run[p].destroys, Destroy(p, f)
      PROVE  \A q \in Command : Covered(files', run'[q])
  <2>1. CASE f \in files
    <3>1. run[p] \in Run /\ Put(p, [run[p] EXCEPT !.destroys = @ \ {f}])
      BY <1>5, <1>a, <2>1 DEF Destroy, TypeOK
    <3>2. SameWork(run[p], [run[p] EXCEPT !.destroys = @ \ {f}])
      BY <3>1 DEF SameWork, Run
    <3>. QED
      BY <1>a, <1>b, <3>1, <3>2, OthersStay DEF SameWork
  <2>2. CASE f \notin files
    BY <1>5, <1>c, <2>2 DEF Destroy, Idle
  <2>. QED
    BY <2>1, <2>2
<1>6. ASSUME NEW p \in Command, Finish(p) \/ Stop(p)
      PROVE  \A q \in Command : Covered(files', run'[q])
  BY <1>6, <1>c DEF Finish, Stop, Idle
<1>7. ASSUME NEW f \in File, Sync(f)
      PROVE  \A q \in Command : Covered(files', run'[q])
  BY <1>7, <1>b DEF Sync, SameWork
<1>8. CASE UNCHANGED vars
  BY <1>8, <1>b DEF vars, SameWork
<1>9. ASSUME NEW p \in Command, NEW d \in Doc,
             \/ Start(p, [Idle EXCEPT !.kind = "read", !.doc = d])
             \/ Start(p, [Idle EXCEPT !.kind = "record", !.doc = d])
      PROVE  \A q \in Command : Covered(files', run'[q])
  BY <1>9, <1>1 DEF Commands
<1>10. ASSUME NEW p \in Command, NEW i \in UNION {Shows[d] : d \in revisions},
              Start(p, [Idle EXCEPT !.kind = "forget", !.items = {i}])
       PROVE  \A q \in Command : Covered(files', run'[q])
  <2>1. {i} \in SUBSET Item
    BY <1>a, ShowsType DEF TypeOK
  <2>2. [Idle EXCEPT !.kind = "forget", !.items = {i}] \in Commands
    BY <2>1 DEF Commands
  <2>. QED
    BY <1>10, <1>1, <2>2
<1>11. ASSUME NEW p \in Command, Start(p, [Idle EXCEPT !.kind = "receive"])
       PROVE  \A q \in Command : Covered(files', run'[q])
  BY <1>11, <1>1 DEF Commands
<1>12. \A d \in revisions : d \in Doc
  BY <1>a DEF TypeOK
<1>13. ASSUME NEW p \in Command,
         \/ KeepCatalogue(p) \/ Upgrade(p) \/ Replay(p) \/ KeepState(p)
         \/ FileDocument(p) \/ FileRevision(p) \/ Comply(p) \/ WalkToDrop(p)
         \/ DropFromCatalogue(p) \/ ClearCache(p)
         \/ \E d \in run[p].lands : Land(p, d)
         \/ Complied(p)
       PROVE  \A q \in Command : Covered(files', run'[q])
  BY <1>13, <1>a, <1>b, WorkStays
<1>. QED
  BY <1>2, <1>3, <1>4, <1>5, <1>6, <1>7, <1>8, <1>9, <1>10, <1>11, <1>12, <1>13 DEF Acts

\* A forget that is done has nothing left to write, so the disk covers it.
LEMMA CoveredIsReached == CoverInv => ForgetReachesEveryQuote
<1>. SUFFICES ASSUME CoverInv, NEW p \in Command, At(p, "forget", "done"), NEW d \in run[p].targets
              PROVE  Quotes(d) \cap run[p].items \subseteq Marked(files, d)
  BY DEF ForgetReachesEveryQuote
<1>1. run[p].writes = {} /\ Covered(files, run[p]) /\ run[p].kind = "forget"
  BY DEF CoverInv, IInv, Sound, At
<1>2. files \cup run[p].writes = files
  BY <1>1
<1>. QED
  BY <1>1, <1>2 DEF Covered

\* A store opens with no command at work.
LEMMA CoveredAtFirst == Init => CoverInv
BY Initially DEF Init, CoverInv, Covered, Idle

\* Whoever else forgets, records, receives and syncs meanwhile, and whatever was
\* forgotten before, a forget that is done leaves every document that it found
\* to quote the items with stand-ins that between them mark every quote.
THEOREM EveryQuoteIsReached == Spec => []ForgetReachesEveryQuote
<1>1. CoverInv /\ [Next]_vars => CoverInv'
  BY Coverage DEF Next
<1>. QED
  BY <1>1, CoveredAtFirst, CoveredIsReached, PTL DEF Spec
-----------------------------------------------------------------------------
(* A forget that is done has destroyed every original with a quote, where   *)
(* one command runs at a time and no sync brings originals back.            *)

\* One command at most runs at a time.
Alone == \A p, q \in Command : p = q

\* The command has looked for what it is to destroy.
Planned(r) ==
  \/ r.step \in {"writing", "complying", "clearing", "dropped", "done"}
  \/ r.step = "learned" /\ r.after = "complying"

\* A forget lands nothing, writes stand-ins, and once it has planned it targets
\* every document held that quotes its items, and is to destroy each original
\* of those that is still there.
Thorough(F, R, r) ==
  r.kind = "forget" =>
    /\ r.lands = {} /\ \A f \in r.writes : f.marks # {}
    /\ r.step = "learned" => r.after \in {"opened", "complying"}
    /\ Planned(r) =>
         /\ \A d \in R : Quotes(d) \cap r.items # {} => d \in r.targets
         /\ \A d \in r.targets : Original(d) \in F => Original(d) \in r.destroys

ThoroughInv == IInv /\ \A p \in Command : Thorough(files, revisions, run[p])

\* What the one command becomes is thorough, and so all are.
LEMMA AloneIsThorough ==
  ASSUME Alone, TypeOK, NEW p \in Command, NEW r, Put(p, r), Thorough(files', revisions', r)
  PROVE  \A q \in Command : Thorough(files', revisions', run'[q])
BY OthersStay DEF Alone

\* A command that goes a step on with the plan it has is as thorough as before.
LEMMA PlanStays ==
  ASSUME NEW F, NEW R, NEW r, NEW s, Thorough(F, R, r), SameWork(r, s),
         s.lands = r.lands, s.destroys = r.destroys, Planned(s) => Planned(r),
         s.step = "learned" => s.after \in {"opened", "complying"}
  PROVE  Thorough(F, R, s)
BY DEF Thorough, SameWork

\* Neither does how far a command is change what it lands and destroys.
LEMMA PlanAside ==
  ASSUME NEW r \in Run
  PROVE  /\ \A s : /\ [r EXCEPT !.step = s].lands = r.lands
                   /\ [r EXCEPT !.step = s].destroys = r.destroys
                   /\ [r EXCEPT !.step = s].step = s
         /\ \A s, a : /\ [r EXCEPT !.step = s, !.after = a].lands = r.lands
                      /\ [r EXCEPT !.step = s, !.after = a].destroys = r.destroys
                      /\ [r EXCEPT !.step = s, !.after = a].step = s
                      /\ [r EXCEPT !.step = s, !.after = a].after = a
         /\ \A K, w : /\ [r EXCEPT !.known = K, !.walked = w].lands = r.lands
                      /\ [r EXCEPT !.known = K, !.walked = w].destroys = r.destroys
         /\ \A K, s : /\ [r EXCEPT !.known = K, !.step = s].lands = r.lands
                      /\ [r EXCEPT !.known = K, !.step = s].destroys = r.destroys
                      /\ [r EXCEPT !.known = K, !.step = s].step = s
BY DEF Run

\* A command that starts or looks again is not thorough about anything else.
LEMMA LearnIsThorough ==
  ASSUME Alone, TypeOK, NEW p \in Command, NEW r \in Run, NEW next \in {"opened", "complying"},
         Learn(p, r, next), UNCHANGED <<files, revisions>>,
         r.kind = "forget" => /\ r.lands = {} /\ \A f \in r.writes : f.marks # {}
                              /\ next = "complying" => Planned(r) /\ Thorough(files, revisions, r)
  PROVE  \A q \in Command : Thorough(files', revisions', run'[q])
<1>. DEFINE n == IF r.known = catalogue THEN [r EXCEPT !.step = next]
                 ELSE [r EXCEPT !.step = "learned", !.after = next]
<1>1. Put(p, n)
  BY DEF Learn
<1>2. SameWork(r, n) /\ n.lands = r.lands /\ n.destroys = r.destroys
  <2>1. CASE r.known = catalogue
    BY <2>1, AsideStays, PlanAside
  <2>2. CASE r.known # catalogue
    BY <2>2 DEF SameWork, Run
  <2>. QED
    BY <2>1, <2>2
<1>3. n.step = next \/ (n.step = "learned" /\ n.after = next)
  BY PlanAside
<1>. HIDE DEF n
<1>4. Thorough(files, revisions, n)
  <2>1. CASE next = "opened"
    BY <1>2, <1>3, <2>1 DEF Thorough, SameWork, Planned
  <2>2. CASE next = "complying"
    BY <1>2, <1>3, <2>2 DEF Thorough, SameWork, Planned
  <2>. QED
    BY <2>1, <2>2
<1>. QED
  BY <1>1, <1>4, AloneIsThorough

\* A plan to forget is thorough.
LEMMA PlanIsThorough ==
  ASSUME Alone, ThoroughInv, NEW p \in Command, PlanForget(p)
  PROVE  \A q \in Command : Thorough(files', revisions', run'[q])
<1>. DEFINE targets == {d \in revisions : Quotes(d) \cap run[p].items # {}}
            writes == StandInsFor(run[p].known, run[p].items, revisions)
            destroys == {Original(d) : d \in targets} \cap files
            r == [run[p] EXCEPT !.step = "writing", !.clears = TRUE, !.targets = targets,
                                !.writes = writes, !.destroys = destroys]
<1>1. run[p] \in Run /\ run[p].kind = "forget" /\ run[p].lands = {} /\ TypeOK
  BY DEF ThoroughInv, IInv, TypeOK, PlanForget, At, Thorough
<1>2. \A f \in writes : f.marks # {}
  BY DEF StandInsFor
<1>3. /\ \A d \in revisions : Quotes(d) \cap run[p].items # {} => d \in targets
      /\ \A d \in targets : Original(d) \in files => Original(d) \in destroys
  OBVIOUS
<1>4. Put(p, r) /\ UNCHANGED <<files, revisions>>
  BY DEF PlanForget
<1>. HIDE DEF targets, writes, destroys
<1>5. /\ r.lands = {} /\ r.writes = writes /\ r.targets = targets /\ r.destroys = destroys
      /\ r.items = run[p].items /\ r.step = "writing"
  BY <1>1 DEF Run
<1>. HIDE DEF r
<1>6. Thorough(files', revisions', r)
  BY <1>2, <1>3, <1>4, <1>5 DEF Thorough
<1>. QED
  BY <1>1, <1>4, <1>6, AloneIsThorough

\* What a forget writes is no original, so it leaves nothing more to destroy.
LEMMA WriteIsThorough ==
  ASSUME Alone, ThoroughInv, NEW p \in Command, NEW f \in run[p].writes, Write(p, f)
  PROVE  \A q \in Command : Thorough(files', revisions', run'[q])
<1>. DEFINE r == [run[p] EXCEPT !.writes = @ \ {f}, !.known = @ \cup {f}]
<1>1. run[p] \in Run /\ Thorough(files, revisions, run[p]) /\ TypeOK /\ run[p].step = "writing"
  BY DEF ThoroughInv, IInv, TypeOK, Write
<1>2. Put(p, r) /\ files' = files \cup {f} /\ revisions' = revisions
  BY DEF Write
<1>3. /\ r.kind = run[p].kind /\ r.items = run[p].items /\ r.targets = run[p].targets
      /\ r.writes = run[p].writes \ {f} /\ r.lands = run[p].lands
      /\ r.destroys = run[p].destroys /\ r.step = "writing"
  BY <1>1 DEF Run
<1>. HIDE DEF r
<1>4. Thorough(files', revisions', r)
  <2>. SUFFICES ASSUME r.kind = "forget" PROVE Thorough(files', revisions', r)
    BY DEF Thorough
  <2>1. \A d : Original(d) \in files' => Original(d) \in files
    BY <1>1, <1>2, <1>3 DEF Thorough, Original
  <2>. QED
    BY <1>1, <1>2, <1>3, <2>1 DEF Thorough, Planned
<1>. QED
  BY <1>1, <1>2, <1>4, AloneIsThorough

\* What is destroyed is gone from the disk and from what there is to destroy.
LEMMA DestroyIsThorough ==
  ASSUME Alone, ThoroughInv, NEW p \in Command, NEW f \in run[p].destroys, Destroy(p, f)
  PROVE  \A q \in Command : Thorough(files', revisions', run'[q])
<1>1. run[p] \in Run /\ Thorough(files, revisions, run[p]) /\ TypeOK /\ run[p].step = "complying"
  BY DEF ThoroughInv, IInv, TypeOK, Destroy
<1>2. CASE f \in files
  <2>. DEFINE r == [run[p] EXCEPT !.destroys = @ \ {f}]
  <2>1. Put(p, r) /\ files' = files \ {f} /\ revisions' = revisions
    BY <1>2 DEF Destroy
  <2>2. /\ r.kind = run[p].kind /\ r.items = run[p].items /\ r.targets = run[p].targets
        /\ r.writes = run[p].writes /\ r.lands = run[p].lands
        /\ r.destroys = run[p].destroys \ {f} /\ r.step = "complying"
    BY <1>1 DEF Run
  <2>. HIDE DEF r
  <2>3. Thorough(files', revisions', r)
    BY <1>1, <2>1, <2>2 DEF Thorough, Planned
  <2>. QED
    BY <1>1, <2>1, <2>3, AloneIsThorough
<1>3. CASE f \notin files
  <2>1. Put(p, Idle)
    BY <1>3 DEF Destroy
  <2>2. Thorough(files', revisions', Idle)
    BY DEF Thorough, Idle
  <2>. QED
    BY <1>1, <2>1, <2>2, AloneIsThorough
<1>. QED
  BY <1>2, <1>3

\* The steps that leave a plan as it is.
LEMMA StepIsThorough ==
  ASSUME Alone, ThoroughInv, NEW p \in Command,
         \/ KeepCatalogue(p) \/ Comply(p) \/ DropFromCatalogue(p) \/ ClearCache(p) \/ Complied(p)
  PROVE  \A q \in Command : Thorough(files', revisions', run'[q])
<1>1. run[p] \in Run /\ Thorough(files, revisions, run[p]) /\ TypeOK
  BY DEF ThoroughInv, IInv, TypeOK
<1>2. UNCHANGED <<files, revisions>>
  BY DEF KeepCatalogue, Comply, DropFromCatalogue, ClearCache, Complied
<1>3. ASSUME NEW n, Put(p, n), run[p].kind # "forget"
      PROVE  \A q \in Command : Thorough(files', revisions', run'[q])
  <2>1. n.kind # "forget"
    BY <1>1, <1>3, WorkStays, OthersStay DEF SameWork
  <2>2. Thorough(files', revisions', n)
    BY <2>1 DEF Thorough
  <2>. QED
    BY <1>1, <1>3, <2>2, AloneIsThorough
<1>4. ASSUME run[p].kind = "forget", NEW n, Put(p, n), n.lands = run[p].lands,
             n.destroys = run[p].destroys, n.step # "learned", Planned(n) => Planned(run[p])
      PROVE  \A q \in Command : Thorough(files', revisions', run'[q])
  <2>1. SameWork(run[p], n)
    BY <1>1, <1>4, WorkStays, OthersStay
  <2>2. Thorough(files', revisions', n)
    BY <1>1, <1>2, <1>4, <2>1, PlanStays
  <2>. QED
    BY <1>1, <1>4, <2>2, AloneIsThorough
<1>5. CASE run[p].kind # "forget"
  <2>1. PICK n : Put(p, n)
    BY DEF KeepCatalogue, Comply, DropFromCatalogue, ClearCache, Complied
  <2>. QED
    BY <1>3, <1>5, <2>1
<1>6. CASE run[p].kind = "forget" /\ KeepCatalogue(p)
  <2>. DEFINE n == [run[p] EXCEPT !.step = run[p].after]
  <2>1. run[p].step = "learned" /\ run[p].after \in {"opened", "complying"} /\ Put(p, n)
    BY <1>1, <1>6 DEF KeepCatalogue, Thorough
  <2>2. n.lands = run[p].lands /\ n.destroys = run[p].destroys /\ n.step = run[p].after
    BY <1>1, PlanAside
  <2>. HIDE DEF n
  <2>3. n.step # "learned" /\ (Planned(n) => Planned(run[p]))
    BY <2>1, <2>2 DEF Planned
  <2>. QED
    BY <1>4, <1>6, <2>1, <2>2, <2>3
<1>7. CASE run[p].kind = "forget" /\ Comply(p)
  <2>. DEFINE n == [run[p] EXCEPT !.step = "complying"]
  <2>1. run[p].step = "writing" /\ Put(p, n)
    BY <1>7 DEF Comply
  <2>2. n.lands = run[p].lands /\ n.destroys = run[p].destroys /\ n.step = "complying"
    BY <1>1, PlanAside
  <2>. HIDE DEF n
  <2>. QED
    BY <1>4, <1>7, <2>1, <2>2 DEF Planned
<1>8. CASE run[p].kind = "forget" /\ DropFromCatalogue(p)
  <2>. DEFINE left == run[p].known \ {Original(d) : d \in run[p].targets}
              next == IF run[p].clears THEN "clearing" ELSE "dropped"
              n == [run[p] EXCEPT !.known = left, !.step = next]
  <2>1. run[p].step = "complying" /\ Put(p, n) /\ next \in {"clearing", "dropped"}
    BY <1>8 DEF DropFromCatalogue
  <2>. HIDE DEF left, next
  <2>2. n.lands = run[p].lands /\ n.destroys = run[p].destroys /\ n.step = next
    BY <1>1, PlanAside
  <2>. HIDE DEF n
  <2>. QED
    BY <1>4, <1>8, <2>1, <2>2 DEF Planned
<1>9. CASE run[p].kind = "forget" /\ (ClearCache(p) \/ Complied(p))
  <2>1. PICK s \in {"dropped", "done"} : Put(p, [run[p] EXCEPT !.step = s])
    BY <1>9 DEF ClearCache, Complied
  <2>. DEFINE n == [run[p] EXCEPT !.step = s]
  <2>2. Planned(run[p])
    BY <1>9 DEF ClearCache, Complied, Planned
  <2>3. n.lands = run[p].lands /\ n.destroys = run[p].destroys /\ n.step = s /\ Put(p, n)
    BY <1>1, <2>1, PlanAside
  <2>. HIDE DEF n
  <2>. QED
    BY <1>4, <1>9, <2>2, <2>3
<1>. QED
  BY <1>5, <1>6, <1>7, <1>8, <1>9

\* Where no sync writes into the store, every step keeps a lone forget thorough.
THEOREM Thoroughness ==
  ASSUME Alone, NEW kinds, NEW stops, "sync" \notin kinds
  PROVE  ThoroughInv /\ [Acts(kinds, stops)]_vars => ThoroughInv'
<1>. SUFFICES ASSUME ThoroughInv, [Acts(kinds, stops)]_vars
              PROVE  \A q \in Command : Thorough(files', revisions', run'[q])
  BY Invariance DEF ThoroughInv
<1>a. TypeOK /\ \A p \in Command : run[p] \in Run /\ Thorough(files, revisions, run[p])
  BY DEF ThoroughInv, IInv, TypeOK
<1>b. ASSUME NEW p \in Command, NEW r, Put(p, r), r.kind # "forget"
      PROVE  \A q \in Command : Thorough(files', revisions', run'[q])
  <2>1. Thorough(files', revisions', r)
    BY <1>b DEF Thorough
  <2>. QED
    BY <1>a, <1>b, <2>1, AloneIsThorough
<1>1. ASSUME NEW p \in Command, NEW c \in Commands, Start(p, c)
      PROVE  \A q \in Command : Thorough(files', revisions', run'[q])
  <2>. DEFINE r == [c EXCEPT !.known = catalogue \cup files, !.hidden = Forgotten(files)]
  <2>1. c \in Run /\ c.lands = {} /\ c.writes = {}
    BY CommandsType DEF Commands, Idle
  <2>2. r \in Run
    BY <1>a, <2>1, ForgottenType, RunType DEF TypeOK
  <2>3. r.lands = {} /\ r.writes = {}
    BY <2>1 DEF Run
  <2>4. Learn(p, r, "opened") /\ UNCHANGED <<files, revisions>>
    BY <1>1 DEF Start
  <2>. HIDE DEF r
  <2>. QED
    BY <1>a, <2>2, <2>3, <2>4, LearnIsThorough
<1>2. ASSUME NEW p \in Command, Upgrade(p) \/ WalkToDrop(p)
      PROVE  \A q \in Command : Thorough(files', revisions', run'[q])
  <2>. DEFINE r == [run[p] EXCEPT !.known = files, !.walked = TRUE]
  <2>1. r \in Run /\ SameWork(run[p], r)
    BY <1>a, AsideStays, RunType DEF TypeOK
  <2>2. r.lands = run[p].lands /\ r.destroys = run[p].destroys /\ r.step = run[p].step
        /\ r.after = run[p].after
    BY <1>a DEF Run
  <2>3. PICK next \in {"opened", "complying"} :
          Learn(p, r, next) /\ (next = "complying" => run[p].step = "complying")
    BY <1>2 DEF Upgrade, WalkToDrop, Walk
  <2>4. UNCHANGED <<files, revisions>>
    BY <1>2 DEF Upgrade, WalkToDrop, Walk
  <2>. HIDE DEF r
  <2>5. next = "complying" => Planned(r)
    BY <2>2, <2>3 DEF Planned
  <2>6. Thorough(files, revisions, r)
    BY <1>a, <2>1, <2>2 DEF Thorough, SameWork, Planned
  <2>7. r.kind = "forget" => r.lands = {} /\ \A f \in r.writes : f.marks # {}
    BY <2>6 DEF Thorough
  <2>. QED
    BY <1>a, <2>1, <2>3, <2>4, <2>5, <2>6, <2>7, LearnIsThorough
<1>3. ASSUME NEW p \in Command, Replay(p) \/ KeepState(p) \/ FileDocument(p) \/ FileRevision(p)
      PROVE  \A q \in Command : Thorough(files', revisions', run'[q])
  <2>1. run'[p].kind = run[p].kind /\ run[p].kind # "forget"
    BY <1>3, <1>a, WorkStays DEF SameWork, Replay, KeepState, FileDocument, FileRevision, At
  <2>. QED
    BY <2>1 DEF Alone, Thorough
<1>4. ASSUME NEW p \in Command, PlanForget(p)
      PROVE  \A q \in Command : Thorough(files', revisions', run'[q])
  BY <1>4, PlanIsThorough
<1>5. ASSUME NEW p \in Command, NEW S \in Sources, PlanReceive(p, S, {f.doc : f \in S})
      PROVE  \A q \in Command : Thorough(files', revisions', run'[q])
  <2>. DEFINE forgotten == {f.doc : f \in {g \in run[p].known \cup S : g.marks # {}}}
              writes == (S \ run[p].known) \ {Original(d) : d \in forgotten}
              targets == {d \in forgotten : Original(d) \in run[p].known}
              lands == {f.doc : f \in S} \ revisions
              n == [run[p] EXCEPT !.step = "writing", !.writes = writes,
                                  !.targets = targets, !.lands = lands]
  <2>1. Put(p, n) /\ run[p].kind = "receive"
    BY <1>5 DEF PlanReceive, At
  <2>. HIDE DEF writes, targets, lands
  <2>2. n.kind # "forget"
    BY <1>a, <2>1 DEF Run
  <2>. HIDE DEF n
  <2>. QED
    BY <1>b, <2>1, <2>2
<1>6. ASSUME NEW p \in Command, NEW f \in run[p].writes, Write(p, f)
      PROVE  \A q \in Command : Thorough(files', revisions', run'[q])
  BY <1>6, WriteIsThorough
<1>7. ASSUME NEW p \in Command, NEW f \in run[p].destroys, Destroy(p, f)
      PROVE  \A q \in Command : Thorough(files', revisions', run'[q])
  BY <1>7, DestroyIsThorough
<1>8. ASSUME NEW p \in Command,
             \/ KeepCatalogue(p) \/ Comply(p) \/ DropFromCatalogue(p) \/ ClearCache(p)
             \/ Complied(p)
      PROVE  \A q \in Command : Thorough(files', revisions', run'[q])
  BY <1>8, StepIsThorough
<1>9. ASSUME NEW p \in Command, NEW d \in run[p].lands, Land(p, d)
      PROVE  \A q \in Command : Thorough(files', revisions', run'[q])
  <2>1. run'[p].kind = run[p].kind /\ run[p].kind # "forget"
    BY <1>9, <1>a, WorkStays DEF SameWork, Thorough
  <2>. QED
    BY <2>1 DEF Alone, Thorough
<1>10. ASSUME NEW p \in Command, Finish(p) \/ Stop(p)
       PROVE  \A q \in Command : Thorough(files', revisions', run'[q])
  BY <1>10, <1>b DEF Finish, Stop, Idle
<1>11. CASE UNCHANGED vars
  BY <1>11, <1>a DEF vars
<1>12. ASSUME NEW p \in Command, NEW d \in Doc,
              \/ Start(p, [Idle EXCEPT !.kind = "read", !.doc = d])
              \/ Start(p, [Idle EXCEPT !.kind = "record", !.doc = d])
       PROVE  \A q \in Command : Thorough(files', revisions', run'[q])
  BY <1>12, <1>1 DEF Commands
<1>13. ASSUME NEW p \in Command, NEW i \in UNION {Shows[d] : d \in revisions},
              Start(p, [Idle EXCEPT !.kind = "forget", !.items = {i}])
       PROVE  \A q \in Command : Thorough(files', revisions', run'[q])
  <2>1. {i} \in SUBSET Item
    BY <1>a, ShowsType DEF TypeOK
  <2>2. [Idle EXCEPT !.kind = "forget", !.items = {i}] \in Commands
    BY <2>1 DEF Commands
  <2>. QED
    BY <1>13, <1>1, <2>2
<1>14. ASSUME NEW p \in Command, Start(p, [Idle EXCEPT !.kind = "receive"])
       PROVE  \A q \in Command : Thorough(files', revisions', run'[q])
  BY <1>14, <1>1 DEF Commands
<1>15. \A d \in revisions : d \in Doc
  BY <1>a DEF TypeOK
<1>. QED
  BY <1>2, <1>3, <1>4, <1>5, <1>6, <1>7, <1>8, <1>9, <1>10, <1>11, <1>12, <1>13, <1>14,
     <1>15 DEF Acts

\* A forget that is done has nothing left to destroy.
LEMMA ThoroughIsGone == ThoroughInv => ForgetDestroysOriginals
<1>. SUFFICES ASSUME ThoroughInv, NEW p \in Command, At(p, "forget", "done"),
                     NEW d \in revisions, Original(d) \in files,
                     Quotes(d) \cap run[p].items # {}
              PROVE  FALSE
  BY DEF ForgetDestroysOriginals
<1>1. Original(d) \in run[p].destroys
  BY DEF ThoroughInv, Thorough, Planned, At
<1>2. Sound(files, run[p])
  BY DEF ThoroughInv, IInv
<1>. QED
  BY <1>1, <1>2 DEF Sound, At

\* A store opens with nothing planned.
LEMMA ThoroughAtFirst == Init => ThoroughInv
BY Initially DEF Init, ThoroughInv, Thorough, Idle

\* Where one command runs at a time and no sync copies files in, whatever was
\* stopped before: a forget that is done has left no original that a revision
\* names and that quotes one of the items.
THEOREM OriginalsAreDestroyed ==
  ASSUME Alone, "sync" \notin Kinds
  PROVE  Spec => []ForgetDestroysOriginals
<1>1. ThoroughInv /\ [Next]_vars => ThoroughInv'
  BY Thoroughness DEF Next
<1>. QED
  BY <1>1, ThoroughAtFirst, ThoroughIsGone, PTL DEF Spec
-----------------------------------------------------------------------------
(* A redacted text is not shown again, where one command runs at a time and *)
(* none stops between writing the catalogue and clearing the kept texts.    *)

\* None of the texts shows what F forgets.
Clean(T, F) == \A t \in T : t \cap Forgotten(F) = {}

\* The command is past the point from which it is bound to clear the texts.
Complying(r) ==
  \/ r.step \in {"writing", "complying"}
  \/ r.step = "learned" /\ r.after = "complying"

\* Only between writing the catalogue and clearing the texts is there a kept text
\* that shows what the catalogue C forgets.  A command that has learned of its
\* files has seen to the texts for those as well, has read no less than C says,
\* and a reader shows nothing that it knows to be forgotten.
Reads(F, C, T, r) ==
  /\ r.kind # "receive"
  /\ Complying(r) => r.kind = "forget" /\ r.clears
  /\ r.step = "learned" => r.after \in {"opened", "complying", "done"}
  /\ r.step # "clearing" => Clean(T, C)
  /\ r.step \in {"learned", "opened", "replayed", "filed"} =>
       Clean(T, r.known) /\ Forgotten(C) \subseteq Forgotten(r.known)
  /\ r.kind = "read" => r.hidden \subseteq Forgotten(r.known) /\ r.hidden \subseteq Forgotten(F)
  /\ r.step \in {"replayed", "shown"} => r.kind = "read" /\ r.shown \cap Forgotten(r.known) = {}

ReadInv == IInv /\ \A p \in Command : Reads(files, catalogue, states, run[p])

\* More stand-ins forget more.
LEMMA ForgottenGrows ==
  ASSUME NEW F, NEW G, \A f \in F : f.marks # {} => f \in G
  PROVE  Forgotten(F) \subseteq Forgotten(G)
BY DEF Forgotten, Marked, StandIns

\* A set of revisions that is not empty has a newest member.
LEMMA Newest ==
  ASSUME NEW n \in Nat, NEW S \in SUBSET (1..n), S # {}
  PROVE  \E m \in S : \A s \in S : s <= m
<1>. DEFINE U == {n - s : s \in S}
            R == OpToRel(<, Nat)
<1>1. \A s \in S : s \in Nat /\ n - s \in Nat
  OBVIOUS
<1>2. U \subseteq Nat /\ U # {}
  BY <1>1
<1>3. \E u \in U : \A v \in U : ~(<<v, u>> \in R)
  <2>. HIDE DEF U, R
  <2>1. IsWellFoundedOn(R, Nat)
    BY NatLessThanWellFounded DEF R
  <2>. QED
    BY <1>2, <2>1, WFMin
<1>4. PICK u \in U : \A v \in U : ~(v < u)
  BY <1>2, <1>3 DEF OpToRel
<1>5. PICK m \in S : u = n - m
  OBVIOUS
<1>6. \A s \in S : s <= m
  <2>. SUFFICES ASSUME NEW s \in S PROVE s <= m
    OBVIOUS
  <2>1. ~(n - s < n - m)
    BY <1>4, <1>5
  <2>. QED
    BY <1>1, <2>1
<1>. QED
  BY <1>6

\* An item that revision d shows stood in every revision since the one that
\* added it.
LEMMA ShownSince ==
  ASSUME NEW d \in Doc, NEW e \in 1..d, NEW b \in e..d, NEW i \in Adds[e], i \in Shows[d]
  PROVE  i \in Shows[b]
<1>1. Len(Adds) \in Nat /\ d \in 1..Len(Adds) /\ d \in 0..Len(Adds) /\ b \in 0..Len(Adds)
  BY HistoryAssumption DEF Doc
<1>2. PICK a \in 1..d : i \in Adds[a] /\ \A f \in a + 1..d : i \notin Drops[f]
  BY <1>1 DEF Shows
<1>3. a = e
  BY <1>1, <1>2, HistoryAssumption DEF Doc
<1>4. i \in Item
  BY <1>1, ShowsType
<1>5. e \in 1..b /\ \A f \in e + 1..b : i \notin Drops[f]
  BY <1>1, <1>2, <1>3
<1>. QED
  BY <1>1, <1>4, <1>5 DEF Shows

\* What is replayed from a clean text shows nothing known to be forgotten.
LEMMA ReplayHides ==
  ASSUME NEW d \in Doc, NEW K, NEW b \in 0..d, NEW i \in Shows[d],
         i \in Forgotten(K), b # 0 => i \notin Shows[b]
  PROVE  i \in UNION {Adds[e] \cap Marked(K, e) : e \in b + 1..d}
<1>1. Len(Adds) \in Nat /\ d \in 1..Len(Adds) /\ d \in 0..Len(Adds)
  BY HistoryAssumption DEF Doc
<1>2. PICK e \in Doc : i \in Adds[e] /\ i \in Marked(K, e)
  BY DEF Forgotten
<1>3. PICK a \in 1..d : i \in Adds[a]
  BY <1>1 DEF Shows
<1>4. e = a
  BY <1>1, <1>2, <1>3, HistoryAssumption DEF Doc
<1>5. ~(e <= b)
  <2>. SUFFICES ASSUME e <= b PROVE FALSE
    OBVIOUS
  <2>1. e \in 1..d /\ b \in e..d /\ b # 0
    BY <1>1, <1>3, <1>4
  <2>. QED
    BY <1>2, <2>1, ShownSince
<1>6. e \in b + 1..d
  BY <1>1, <1>3, <1>4, <1>5
<1>. QED
  BY <1>2, <1>6

\* What the one command becomes reads rightly, and so all do.
LEMMA AloneReads ==
  ASSUME Alone, TypeOK, NEW p \in Command, NEW r, Put(p, r),
         Reads(files', catalogue', states', r)
  PROVE  \A q \in Command : Reads(files', catalogue', states', run'[q])
BY OthersStay DEF Alone

\* Learning of files sees to the texts kept from before them.
LEMMA LearnReads ==
  ASSUME Alone, TypeOK, NEW p \in Command, NEW r \in Run, NEW next \in {"opened", "complying"},
         Learn(p, r, next), UNCHANGED <<files, catalogue>>,
         Clean(states, catalogue), \A f \in catalogue : f.marks # {} => f \in r.known,
         r.kind # "receive", next = "complying" => r.kind = "forget" /\ r.clears,
         r.kind = "read" => /\ r.hidden \subseteq Forgotten(r.known)
                            /\ r.hidden \subseteq Forgotten(files)
  PROVE  \A q \in Command : Reads(files', catalogue', states', run'[q])
<1>. DEFINE n == IF r.known = catalogue THEN [r EXCEPT !.step = next]
                 ELSE [r EXCEPT !.step = "learned", !.after = next]
<1>1. Put(p, n) /\ states' = IF \E f \in r.known \ catalogue : f.marks # {} THEN {} ELSE states
  BY DEF Learn
<1>2. Forgotten(catalogue) \subseteq Forgotten(r.known)
  BY ForgottenGrows
<1>3. Clean(states', r.known) /\ Clean(states', catalogue)
  <2>1. CASE \E f \in r.known \ catalogue : f.marks # {}
    BY <1>1, <2>1 DEF Clean
  <2>2. CASE \A f \in r.known \ catalogue : f.marks = {}
    <3>1. Forgotten(r.known) \subseteq Forgotten(catalogue)
      BY <2>2, ForgottenGrows
    <3>. QED
      BY <1>1, <2>2, <3>1 DEF Clean
  <2>. QED
    BY <2>1, <2>2
<1>4. /\ n.kind = r.kind /\ n.known = r.known /\ n.hidden = r.hidden /\ n.clears = r.clears
      /\ \/ n.step = next
         \/ n.step = "learned" /\ n.after = next
  <2>1. CASE r.known = catalogue
    BY <2>1 DEF Run
  <2>2. CASE r.known # catalogue
    BY <2>2 DEF Run
  <2>. QED
    BY <2>1, <2>2
<1>. HIDE DEF n
<1>5. Reads(files', catalogue', states', n)
  BY <1>2, <1>3, <1>4 DEF Reads, Complying
<1>. QED
  BY <1>1, <1>5, AloneReads

\* A command starts by learning of what the catalogue does not name.
LEMMA StartReads ==
  ASSUME Alone, ReadInv, NEW p \in Command, NEW c \in Commands, c.kind # "receive", Start(p, c)
  PROVE  \A q \in Command : Reads(files', catalogue', states', run'[q])
<1>. DEFINE r == [c EXCEPT !.known = catalogue \cup files, !.hidden = Forgotten(files)]
<1>1. TypeOK /\ Reads(files, catalogue, states, run[p]) /\ run[p] = Idle /\ c \in Run
  BY CommandsType DEF ReadInv, IInv, Start
<1>2. r \in Run
  BY <1>1, ForgottenType, RunType DEF TypeOK
<1>3. r.known = catalogue \cup files /\ r.hidden = Forgotten(files) /\ r.kind = c.kind
  BY <1>1 DEF Run
<1>4. Learn(p, r, "opened") /\ UNCHANGED <<files, catalogue>>
  BY DEF Start
<1>. HIDE DEF r
<1>5. Clean(states, catalogue)
  BY <1>1 DEF Reads, Idle
<1>6. r.hidden \subseteq Forgotten(r.known)
  BY <1>3, ForgottenGrows
<1>. QED
  BY <1>1, <1>2, <1>3, <1>4, <1>5, <1>6, LearnReads

\* A walk finds every stand-in the catalogue names.
LEMMA WalkReads ==
  ASSUME Alone, ReadInv, NEW p \in Command, Upgrade(p) \/ WalkToDrop(p)
  PROVE  \A q \in Command : Reads(files', catalogue', states', run'[q])
<1>. DEFINE r == [run[p] EXCEPT !.known = files, !.walked = TRUE]
<1>1. TypeOK /\ Reads(files, catalogue, states, run[p]) /\ run[p] \in Run
  BY DEF ReadInv, IInv, TypeOK
<1>2. r \in Run
  BY <1>1, RunType DEF TypeOK
<1>3. /\ r.known = files /\ r.hidden = run[p].hidden /\ r.kind = run[p].kind
      /\ r.clears = run[p].clears
  BY <1>1 DEF Run
<1>4. PICK next \in {"opened", "complying"} :
        Learn(p, r, next) /\ run[p].step = next /\ UNCHANGED <<files, catalogue>>
  BY DEF Upgrade, WalkToDrop, Walk
<1>5. \A f \in catalogue : f.marks # {} => f \in files
  BY DEF ReadInv, IInv, Held
<1>. HIDE DEF r
<1>6. Clean(states, catalogue) /\ (next = "complying" => r.kind = "forget" /\ r.clears)
  BY <1>1, <1>3, <1>4 DEF Reads, Complying
<1>7. r.kind # "receive" /\ (r.kind = "read" => r.hidden \subseteq Forgotten(files))
  BY <1>1, <1>3 DEF Reads
<1>. QED
  BY <1>1, <1>2, <1>3, <1>4, <1>5, <1>6, <1>7, LearnReads

\* A replay starts from a text that is clean and leaves out what is marked since.
LEMMA ReplayReads ==
  ASSUME Alone, ReadInv, NEW p \in Command, Replay(p)
  PROVE  \A q \in Command : Reads(files', catalogue', states', run'[q])
<1>. DEFINE d == run[p].doc
            base == IF Kept(d) = {} THEN 0
                    ELSE CHOOSE e \in Kept(d) : \A f \in Kept(d) : f <= e
            said == UNION {Adds[e] \cap Marked(run[p].known, e) : e \in base + 1..d}
            next == IF base = d THEN "shown" ELSE "replayed"
            n == [run[p] EXCEPT !.shown = Shows[d] \ said, !.step = next]
<1>1. /\ TypeOK /\ Reads(files, catalogue, states, run[p]) /\ run[p] \in Run
      /\ run[p].kind = "read" /\ run[p].step = "opened"
  BY DEF ReadInv, IInv, TypeOK, Replay, At
<1>2. d \in Doc /\ d \in Nat
  BY <1>1, RunType DEF Doc
<1>3. base \in 0..d /\ (base # 0 => Shows[base] \in states)
  <2>. DEFINE K == Kept(d)
  <2>1. K \in SUBSET (1..d) /\ \A e \in K : Shows[e] \in states
    BY DEF Kept
  <2>. HIDE DEF K
  <2>2. CASE K = {}
    BY <1>2, <2>2 DEF K
  <2>3. CASE K # {}
    <3>1. \E e \in K : \A f \in K : f <= e
      BY <1>2, <2>1, <2>3, Newest
    <3>2. base \in K
      BY <2>3, <3>1 DEF K
    <3>. HIDE DEF base
    <3>. QED
      BY <1>2, <2>1, <3>2
  <2>. QED
    BY <2>2, <2>3
<1>4. Put(p, n) /\ UNCHANGED <<files, catalogue, states>>
  BY DEF Replay
<1>. HIDE DEF base
<1>5. \A i \in Shows[d] : i \in Forgotten(run[p].known) => i \in said
  <2>. TAKE i \in Shows[d]
  <2>. HAVE i \in Forgotten(run[p].known)
  <2>1. base # 0 => i \notin Shows[base]
    BY <1>1, <1>3 DEF Reads, Clean
  <2>. HIDE DEF d
  <2>. QED
    BY <1>2, <1>3, <2>1, ReplayHides DEF d
<1>6. next \in {"shown", "replayed"}
  OBVIOUS
<1>. HIDE DEF said, next
<1>7. /\ n.kind = "read" /\ n.known = run[p].known /\ n.hidden = run[p].hidden
      /\ n.shown = Shows[d] \ said /\ n.step = next
  BY <1>1 DEF Run
<1>. HIDE DEF n
<1>8. n.shown \cap Forgotten(n.known) = {}
  BY <1>5, <1>7
<1>9. Reads(files', catalogue', states', n)
  BY <1>1, <1>4, <1>6, <1>7, <1>8 DEF Reads, Complying
<1>. QED
  BY <1>1, <1>4, <1>9, AloneReads

\* A text is kept by one who knows all that the catalogue says.
LEMMA KeepStateReads ==
  ASSUME Alone, ReadInv, NEW p \in Command, KeepState(p)
  PROVE  \A q \in Command : Reads(files', catalogue', states', run'[q])
<1>. DEFINE n == [run[p] EXCEPT !.step = "shown"]
<1>1. /\ TypeOK /\ Reads(files, catalogue, states, run[p]) /\ run[p] \in Run
      /\ run[p].kind = "read" /\ run[p].step = "replayed"
  BY DEF ReadInv, IInv, TypeOK, KeepState, At
<1>2. /\ Put(p, n) /\ UNCHANGED <<files, catalogue>>
      /\ states' \subseteq states \cup {run[p].shown}
  BY DEF KeepState
<1>3. /\ n.kind = "read" /\ n.known = run[p].known /\ n.hidden = run[p].hidden
      /\ n.shown = run[p].shown /\ n.step = "shown"
  BY <1>1 DEF Run
<1>. HIDE DEF n
<1>4. Clean(states', catalogue')
  BY <1>1, <1>2 DEF Reads, Clean
<1>5. Reads(files', catalogue', states', n)
  BY <1>1, <1>2, <1>3, <1>4 DEF Reads, Complying
<1>. QED
  BY <1>1, <1>2, <1>5, AloneReads

\* The catalogue that is written names no more than the texts were seen to for.
LEMMA CatalogueReads ==
  ASSUME Alone, ReadInv, NEW p \in Command, KeepCatalogue(p)
  PROVE  \A q \in Command : Reads(files', catalogue', states', run'[q])
<1>. DEFINE n == [run[p] EXCEPT !.step = run[p].after]
<1>1. /\ TypeOK /\ Reads(files, catalogue, states, run[p]) /\ run[p] \in Run
      /\ run[p].step = "learned"
  BY DEF ReadInv, IInv, TypeOK, KeepCatalogue
<1>2. Put(p, n) /\ catalogue' = run[p].known /\ UNCHANGED <<files, states>>
  BY DEF KeepCatalogue
<1>3. /\ n.kind = run[p].kind /\ n.known = run[p].known /\ n.hidden = run[p].hidden
      /\ n.clears = run[p].clears /\ n.step = run[p].after
  BY <1>1 DEF Run
<1>. HIDE DEF n
<1>4. Reads(files', catalogue', states', n)
  BY <1>1, <1>2, <1>3 DEF Reads, Complying
<1>. QED
  BY <1>1, <1>2, <1>4, AloneReads

\* A document filed marks nothing.
LEMMA RecordReads ==
  ASSUME Alone, ReadInv, NEW p \in Command, FileDocument(p) \/ FileRevision(p)
  PROVE  \A q \in Command : Reads(files', catalogue', states', run'[q])
<1>1. /\ TypeOK /\ Reads(files, catalogue, states, run[p]) /\ run[p] \in Run
      /\ run[p].kind = "record"
  BY DEF ReadInv, IInv, TypeOK, FileDocument, FileRevision, At
<1>2. CASE FileDocument(p)
  <2>. DEFINE known == run[p].known \cup {Original(run[p].doc)}
              n == [run[p] EXCEPT !.known = known, !.step = "filed"]
  <2>1. Put(p, n) /\ run[p].step = "opened" /\ UNCHANGED <<catalogue, states>>
    BY <1>2 DEF FileDocument, At
  <2>2. Forgotten(known) \subseteq Forgotten(run[p].known)
    BY ForgottenGrows DEF Original
  <2>3. Forgotten(run[p].known) \subseteq Forgotten(known)
    BY ForgottenGrows
  <2>. HIDE DEF known
  <2>4. n.kind = "record" /\ n.known = known /\ n.step = "filed"
    BY <1>1 DEF Run
  <2>. HIDE DEF n
  <2>5. Reads(files', catalogue', states', n)
    BY <1>1, <2>1, <2>2, <2>3, <2>4 DEF Reads, Complying, Clean
  <2>. QED
    BY <1>1, <2>1, <2>5, AloneReads
<1>3. CASE FileRevision(p)
  <2>. DEFINE n == [run[p] EXCEPT !.step = "learned", !.after = "done"]
  <2>1. Put(p, n) /\ run[p].step = "filed" /\ UNCHANGED <<files, catalogue, states>>
    BY <1>3 DEF FileRevision, At
  <2>2. /\ n.kind = "record" /\ n.known = run[p].known /\ n.step = "learned"
        /\ n.after = "done"
    BY <1>1 DEF Run
  <2>. HIDE DEF n
  <2>3. Reads(files', catalogue', states', n)
    BY <1>1, <2>1, <2>2 DEF Reads, Complying
  <2>. QED
    BY <1>1, <2>1, <2>3, AloneReads
<1>. QED
  BY <1>2, <1>3

\* A forget that plans is bound to clear the texts, and no other command writes
\* or destroys.
LEMMA ForgetReads ==
  ASSUME Alone, ReadInv, NEW p \in Command,
         \/ PlanForget(p) \/ Comply(p) \/ DropFromCatalogue(p)
         \/ \E f \in run[p].writes : Write(p, f)
         \/ \E f \in run[p].destroys : Destroy(p, f)
  PROVE  \A q \in Command : Reads(files', catalogue', states', run'[q])
<1>1. TypeOK /\ Reads(files, catalogue, states, run[p]) /\ run[p] \in Run
  BY DEF ReadInv, IInv, TypeOK
<1>2. run[p].kind = "forget" /\ run[p].step # "clearing" /\ states' = states
  BY <1>1 DEF Reads, Complying, PlanForget, At, Comply, DropFromCatalogue, Write, Destroy
<1>3. ASSUME NEW n, Put(p, n), catalogue' = catalogue, n.kind = "forget", n.clears,
             n.step \in {"writing", "complying"}
      PROVE  \A q \in Command : Reads(files', catalogue', states', run'[q])
  <2>1. Reads(files', catalogue', states', n)
    BY <1>1, <1>2, <1>3 DEF Reads
  <2>. QED
    BY <1>1, <1>3, <2>1, AloneReads
<1>4. CASE PlanForget(p)
  <2>. DEFINE targets == {d \in revisions : Quotes(d) \cap run[p].items # {}}
              writes == StandInsFor(run[p].known, run[p].items, revisions)
              destroys == {Original(d) : d \in targets} \cap files
              n == [run[p] EXCEPT !.step = "writing", !.clears = TRUE, !.targets = targets,
                                  !.writes = writes, !.destroys = destroys]
  <2>1. Put(p, n) /\ catalogue' = catalogue
    BY <1>4 DEF PlanForget
  <2>. HIDE DEF targets, writes, destroys
  <2>2. n.kind = "forget" /\ n.clears /\ n.step = "writing"
    BY <1>1, <1>2 DEF Run
  <2>. HIDE DEF n
  <2>. QED
    BY <1>3, <2>1, <2>2
<1>5. CASE Comply(p)
  <2>. DEFINE n == [run[p] EXCEPT !.step = "complying"]
  <2>1. Put(p, n) /\ catalogue' = catalogue /\ run[p].step = "writing"
    BY <1>2, <1>5 DEF Comply
  <2>2. n.kind = "forget" /\ n.clears = run[p].clears /\ n.step = "complying"
    BY <1>1, <1>2 DEF Run
  <2>3. run[p].clears
    BY <1>1, <2>1 DEF Reads, Complying
  <2>. HIDE DEF n
  <2>. QED
    BY <1>3, <2>1, <2>2, <2>3
<1>6. ASSUME NEW f \in run[p].writes, Write(p, f)
      PROVE  \A q \in Command : Reads(files', catalogue', states', run'[q])
  <2>. DEFINE n == [run[p] EXCEPT !.writes = @ \ {f}, !.known = @ \cup {f}]
  <2>1. Put(p, n) /\ catalogue' = catalogue /\ run[p].step = "writing"
    BY <1>6 DEF Write
  <2>2. n.kind = "forget" /\ n.clears = run[p].clears /\ n.step = "writing"
    BY <1>1, <1>2, <2>1 DEF Run
  <2>3. run[p].clears
    BY <1>1, <2>1 DEF Reads, Complying
  <2>. HIDE DEF n
  <2>. QED
    BY <1>3, <2>1, <2>2, <2>3
<1>7. ASSUME NEW f \in run[p].destroys, Destroy(p, f)
      PROVE  \A q \in Command : Reads(files', catalogue', states', run'[q])
  <2>1. run[p].step = "complying" /\ catalogue' = catalogue /\ run[p].clears
    BY <1>1, <1>7 DEF Destroy, Reads, Complying
  <2>2. CASE f \in files
    <3>. DEFINE n == [run[p] EXCEPT !.destroys = @ \ {f}]
    <3>1. Put(p, n)
      BY <1>7, <2>2 DEF Destroy
    <3>2. n.kind = "forget" /\ n.clears = run[p].clears /\ n.step = "complying"
      BY <1>1, <1>2, <2>1 DEF Run
    <3>. HIDE DEF n
    <3>. QED
      BY <1>3, <2>1, <3>1, <3>2
  <2>3. CASE f \notin files
    <3>1. Put(p, Idle)
      BY <1>7, <2>3 DEF Destroy
    <3>2. Reads(files', catalogue', states', Idle)
      BY <1>1, <1>2, <2>1 DEF Reads, Complying, Idle
    <3>. QED
      BY <1>1, <3>1, <3>2, AloneReads
  <2>. QED
    BY <2>2, <2>3
<1>8. CASE DropFromCatalogue(p)
  <2>. DEFINE left == run[p].known \ {Original(d) : d \in run[p].targets}
              next == IF run[p].clears THEN "clearing" ELSE "dropped"
              n == [run[p] EXCEPT !.known = left, !.step = next]
  <2>1. Put(p, n) /\ run[p].step = "complying"
    BY <1>8 DEF DropFromCatalogue
  <2>2. next = "clearing"
    BY <1>1, <2>1 DEF Reads, Complying
  <2>. HIDE DEF left, next
  <2>3. n.kind = "forget" /\ n.step = "clearing"
    BY <1>1, <1>2, <2>2 DEF Run
  <2>. HIDE DEF n
  <2>4. Reads(files', catalogue', states', n)
    BY <2>3 DEF Reads, Complying
  <2>. QED
    BY <1>1, <2>1, <2>4, AloneReads
<1>. QED
  BY <1>4, <1>5, <1>6, <1>7, <1>8

\* Texts are cleared, and a command goes on or is over with the texts clean.
LEMMA EndReads ==
  ASSUME Alone, ReadInv, NEW p \in Command,
         \/ ClearCache(p) \/ Complied(p) \/ Finish(p) \/ (run[p].step # "clearing" /\ Stop(p))
         \/ \E d \in run[p].lands : Land(p, d)
  PROVE  \A q \in Command : Reads(files', catalogue', states', run'[q])
<1>1. TypeOK /\ Reads(files, catalogue, states, run[p]) /\ run[p] \in Run
  BY DEF ReadInv, IInv, TypeOK
<1>2. files' = files /\ catalogue' = catalogue
  BY DEF ClearCache, Complied, Finish, Stop, Land
<1>3. Clean(states', catalogue')
  <2>1. CASE ClearCache(p)
    BY <2>1 DEF ClearCache, Clean
  <2>2. CASE ~ClearCache(p)
    <3>1. run[p].step # "clearing" /\ states' = states
      BY <2>2 DEF Complied, Finish, Stop, Land
    <3>. QED
      BY <1>1, <1>2, <3>1 DEF Reads
  <2>. QED
    BY <2>1, <2>2
<1>4. ASSUME NEW n, Put(p, n), n.kind = run[p].kind, n.known = run[p].known,
             n.hidden = run[p].hidden, n.step \in {"dropped", "done"}
      PROVE  \A q \in Command : Reads(files', catalogue', states', run'[q])
  <2>1. Reads(files', catalogue', states', n)
    BY <1>1, <1>2, <1>3, <1>4 DEF Reads, Complying
  <2>. QED
    BY <1>1, <1>4, <2>1, AloneReads
<1>5. CASE ClearCache(p) \/ Complied(p)
  <2>1. PICK s \in {"dropped", "done"} : Put(p, [run[p] EXCEPT !.step = s])
    BY <1>5 DEF ClearCache, Complied
  <2>. DEFINE n == [run[p] EXCEPT !.step = s]
  <2>2. /\ Put(p, n) /\ n.kind = run[p].kind /\ n.known = run[p].known
        /\ n.hidden = run[p].hidden /\ n.step = s
    BY <1>1, <2>1 DEF Run
  <2>. HIDE DEF n
  <2>. QED
    BY <1>4, <2>2
<1>6. ASSUME NEW d \in run[p].lands, Land(p, d)
      PROVE  \A q \in Command : Reads(files', catalogue', states', run'[q])
  <2>. DEFINE n == [run[p] EXCEPT !.lands = @ \ {d}]
  <2>1. Put(p, n) /\ run[p].step = "dropped"
    BY <1>6 DEF Land
  <2>2. /\ n.kind = run[p].kind /\ n.known = run[p].known
        /\ n.hidden = run[p].hidden /\ n.step = "dropped"
    BY <1>1, <2>1 DEF Run
  <2>. HIDE DEF n
  <2>. QED
    BY <1>4, <2>1, <2>2
<1>7. CASE Finish(p) \/ Stop(p)
  <2>1. Put(p, Idle)
    BY <1>7 DEF Finish, Stop
  <2>2. Reads(files', catalogue', states', Idle)
    BY <1>3 DEF Reads, Complying, Idle
  <2>. QED
    BY <1>1, <2>1, <2>2, AloneReads
<1>. QED
  BY <1>5, <1>6, <1>7

\* Every step of a lone command keeps what is read right.
THEOREM Reading ==
  ASSUME Alone, NEW kinds, NEW stops, "receive" \notin kinds, "clearing" \notin stops
  PROVE  ReadInv /\ [Acts(kinds, stops)]_vars => ReadInv'
<1>. SUFFICES ASSUME ReadInv, [Acts(kinds, stops)]_vars
              PROVE  \A q \in Command : Reads(files', catalogue', states', run'[q])
  BY Invariance DEF ReadInv
<1>a. TypeOK /\ \A q \in Command : Reads(files, catalogue, states, run[q])
  BY DEF ReadInv, IInv
<1>1. ASSUME NEW p \in Command, NEW d \in Doc,
             \/ Start(p, [Idle EXCEPT !.kind = "read", !.doc = d])
             \/ Start(p, [Idle EXCEPT !.kind = "record", !.doc = d])
      PROVE  \A q \in Command : Reads(files', catalogue', states', run'[q])
  <2>1. /\ [Idle EXCEPT !.kind = "read", !.doc = d] \in Commands
        /\ [Idle EXCEPT !.kind = "record", !.doc = d] \in Commands
    BY DEF Commands
  <2>2. /\ [Idle EXCEPT !.kind = "read", !.doc = d].kind = "read"
        /\ [Idle EXCEPT !.kind = "record", !.doc = d].kind = "record"
    BY DEF Idle
  <2>. QED
    BY <1>1, <2>1, <2>2, StartReads
<1>2. ASSUME NEW p \in Command, NEW i \in UNION {Shows[d] : d \in revisions},
             Start(p, [Idle EXCEPT !.kind = "forget", !.items = {i}])
      PROVE  \A q \in Command : Reads(files', catalogue', states', run'[q])
  <2>1. {i} \in SUBSET Item
    BY <1>a, ShowsType DEF TypeOK
  <2>2. /\ [Idle EXCEPT !.kind = "forget", !.items = {i}] \in Commands
        /\ [Idle EXCEPT !.kind = "forget", !.items = {i}].kind = "forget"
    BY <2>1 DEF Commands, Idle
  <2>. QED
    BY <1>2, <2>2, StartReads
<1>4. ASSUME NEW p \in Command, Upgrade(p) \/ WalkToDrop(p)
      PROVE  \A q \in Command : Reads(files', catalogue', states', run'[q])
  BY <1>4, WalkReads
<1>5. ASSUME NEW p \in Command,
             KeepCatalogue(p) \/ Replay(p) \/ KeepState(p) \/ FileDocument(p) \/ FileRevision(p)
      PROVE  \A q \in Command : Reads(files', catalogue', states', run'[q])
  BY <1>5, CatalogueReads, ReplayReads, KeepStateReads, RecordReads
<1>6. ASSUME NEW p \in Command,
             \/ PlanForget(p) \/ Comply(p) \/ DropFromCatalogue(p)
             \/ \E f \in run[p].writes : Write(p, f)
             \/ \E f \in run[p].destroys : Destroy(p, f)
      PROVE  \A q \in Command : Reads(files', catalogue', states', run'[q])
  BY <1>6, ForgetReads
<1>7. ASSUME NEW p \in Command,
             \/ ClearCache(p) \/ Complied(p) \/ Finish(p) \/ (run[p].step # "clearing" /\ Stop(p))
             \/ \E d \in run[p].lands : Land(p, d)
      PROVE  \A q \in Command : Reads(files', catalogue', states', run'[q])
  BY <1>7, EndReads
<1>8. \A p \in Command : run[p].kind # "receive"
  BY <1>a DEF Reads
<1>9. ASSUME NEW f \in File, Sync(f)
      PROVE  \A q \in Command : Reads(files', catalogue', states', run'[q])
  <2>1. files \subseteq files' /\ UNCHANGED <<catalogue, states, run>>
    BY <1>9 DEF Sync
  <2>2. Forgotten(files) \subseteq Forgotten(files')
    BY <2>1, ForgottenGrows
  <2>. QED
    BY <1>a, <2>1, <2>2 DEF Reads
<1>10. CASE UNCHANGED vars
  BY <1>10, <1>a DEF vars
<1>11. \A d \in revisions : d \in Doc
  BY <1>a DEF TypeOK
<1>. QED
  BY <1>1, <1>2, <1>4, <1>5, <1>6, <1>7, <1>8, <1>9, <1>10, <1>11 DEF Acts

\* What a reader shows it knows nothing against, and it knows all that the disk
\* said when it began.
LEMMA ReadIsRedacted == ReadInv => RedactionsAreRead
<1>. SUFFICES ASSUME ReadInv, NEW p \in Command, run[p].step \in {"replayed", "shown"}
              PROVE  run[p].shown \cap run[p].hidden = {}
  BY DEF RedactionsAreRead
<1>1. Reads(files, catalogue, states, run[p])
  BY DEF ReadInv
<1>2. run[p].hidden \subseteq Forgotten(run[p].known)
  BY <1>1 DEF Reads
<1>3. run[p].shown \cap Forgotten(run[p].known) = {}
  BY <1>1 DEF Reads
<1>. QED
  BY <1>2, <1>3

\* A store opens with no text kept.
LEMMA ReadAtFirst == Init => ReadInv
BY Initially DEF Init, ReadInv, Reads, Complying, Clean, Idle

\* Where one command runs at a time and stops anywhere but between writing the
\* catalogue and clearing the texts, and files come by sync in any order: an item
\* that a stand-in marked when a command opened the store is not shown by it, and
\* a forget that is done has every quote of its items marked.  With a receive, or
\* a stop in between, the first is not so.
THEOREM ForgettingIsKept ==
  ASSUME Alone, "receive" \notin Kinds, "clearing" \notin Stops
  PROVE  Spec => []ForgettingHolds
<1>1. ReadInv /\ [Next]_vars => ReadInv'
  BY Reading DEF Next
<1>2. ForgetReachesEveryQuote /\ RedactionsAreRead => ForgettingHolds
  BY DEF ForgettingHolds
<1>. QED
  BY <1>1, <1>2, ReadAtFirst, ReadIsRedacted, EveryQuoteIsReached, PTL DEF Spec
-----------------------------------------------------------------------------
(* What a capture owes the drive.                                            *)

Contents == Documents \cup Payloads
Drives == Seq([has : [Lands!Names -> Lands!State], new : SUBSET Lands!Names])
Recording == [step : Lands!Steps, left : SUBSET Contents, at : Lands!Names \cup {None}]

\* c is whole on the drive D once its j-th set has landed, and no later set has it.
Settled(D, c, j) ==
  /\ D[j].has[c] = "whole"
  /\ \A i \in j + 1 .. Len(D) : c \notin D[i].new /\ D[i].has[c] = "whole"

\* The content r's revision names that nobody raced for.
Calm(r) == needs[r] \ raced
\* It is there and handed over.
Given(c) == file[c] = "whole" /\ c \notin DOMAIN loose
Writing(r) == recorder[r].step \in {"fill", "push"}

\* Where a recorder is, and what it has left.
InOrder(r) ==
  /\ recorder[r].left \subseteq needs[r]
  /\ recorder[r].step \in {"fill", "push", "staged", "refused"} => recorder[r].at \in recorder[r].left \cup {r}
  /\ recorder[r].at = r \/ recorder[r].step \in {"revision", "filed", "named"} => recorder[r].left = {}
  /\ recorder[r].step = "staged" => recorder[r].at \in Payloads
  /\ recorder[r].step = "fill" => recorder[r].at \notin Payloads
\* What it has behind it is handed over, and landed before its revision is begun.
Follows(r) ==
  /\ recorder[r].step # "named" => \A c \in Calm(r) \ recorder[r].left : Given(c)
  /\ recorder[r].step = "revision" \/ (Writing(r) /\ recorder[r].at = r) =>
       \A c \in Calm(r) : Settled(drive, c, Len(drive) - 1)
\* What it writes is its own to write.
Writes(r) ==
  Writing(r) /\ recorder[r].at \notin raced =>
    /\ recorder[r].at \in DOMAIN loose
    /\ file[recorder[r].at] = IF recorder[r].step = "fill" THEN "part" ELSE "whole"
Apart ==
  \A q, r \in Recorders :
    q # r /\ Writing(q) /\ Writing(r) /\ recorder[q].at = recorder[r].at => recorder[q].at \in raced
\* Its revision is handed over, and then landed.
Ends(r) ==
  /\ recorder[r].step = "filed" /\ r \notin raced => Given(r)
  /\ recorder[r].step = "named" /\ r \notin raced => r \notin DOMAIN loose /\ Settled(drive, r, 1)
\* Whatever the drive may have of a revision, it has the content before.
Before(r) ==
  \A c \in Calm(r) :
    /\ r \in DOMAIN loose => Given(c) /\ Settled(drive, c, loose[r] - 1)
    /\ \A i \in 1 .. Len(drive) :
         drive[i].has[r] = "whole" => Given(c) /\ Settled(drive, c, IF i = 1 THEN 1 ELSE i - 1)
\* Only a cut leaves a payload in part.
CutBefore == \E f \in Faults : f.cuts > faults.cuts
Torn ==
  /\ \E f \in Faults : f.cuts >= faults.cuts
  /\ \A p \in Payloads : file[p] = "part" => CutBefore
  /\ \A r \in Recorders : recorder[r].step = "refused" /\ recorder[r].at \in Payloads => CutBefore

LandInv ==
  /\ Lands!TypeOK /\ Apart /\ Torn
  /\ \A r \in Recorders : InOrder(r) /\ Follows(r) /\ Writes(r) /\ Ends(r) /\ Before(r)

\* Revisions and contents have names of their own, and None is no name.
LEMMA Naming ==
  /\ Contents = Lands!Contents /\ Lands!Names = Contents \cup Recorders
  /\ Contents \subseteq Lands!Names /\ Recorders \subseteq Lands!Names
  /\ \A r \in Recorders : r \notin Contents /\ r \notin Payloads /\ r # None
  /\ None \notin Lands!Names /\ Payloads \subseteq Contents
  /\ {None, "part", "whole"} = Lands!State /\ None # "whole" /\ None # "part" /\ "part" # "whole"
BY NamesAreApart DEF Contents, Lands!Names, Lands!Contents, Lands!State

\* What the type invariant says of the drive and of each recorder.
LEMMA Types ==
  ASSUME Lands!TypeOK
  PROVE  /\ drive \in Drives /\ Len(drive) \in Nat /\ Len(drive) >= 2
         /\ \A i \in 1 .. Len(drive) : /\ drive[i].has \in [Lands!Names -> Lands!State]
                                       /\ drive[i].new \in SUBSET Lands!Names
         /\ \A r \in Recorders : recorder[r] \in Recording /\ needs[r] \in SUBSET Contents
         /\ recorder \in [Recorders -> Recording]
         /\ Lands!Last = drive[Len(drive)]
<1>1. drive \in Drives /\ Len(drive) >= 2
  BY DEF Lands!TypeOK, Drives
<1>2. Len(drive) \in Nat /\ \A i \in 1 .. Len(drive) :
         drive[i] \in [has : [Lands!Names -> Lands!State], new : SUBSET Lands!Names]
  <2>. DEFINE S == [has : [Lands!Names -> Lands!State], new : SUBSET Lands!Names]
  <2>1. drive \in Seq(S)
    BY <1>1 DEF Drives
  <2>. HIDE DEF S
  <2>2. Len(drive) \in Nat /\ \A i \in 1 .. Len(drive) : drive[i] \in S
    BY <2>1, LenProperties, ElementOfSeq
  <2>. QED
    BY <2>2 DEF S
<1>. QED
  BY <1>1, <1>2, Naming DEF Lands!TypeOK, Recording, Lands!Last

\* What the three ways of handing over leave of the drive.
LEMMA HandedOver ==
  ASSUME Lands!TypeOK, NEW n \in Lands!Names, NEW s \in Lands!State, Lands!HandOver(n, s)
  PROVE  /\ drive' \in Drives /\ Len(drive') = Len(drive)
         /\ \A i \in 1 .. Len(drive) - 1 : drive'[i] = drive[i]
         /\ drive'[Len(drive)].has = [drive[Len(drive)].has EXCEPT ![n] = s]
         /\ drive'[Len(drive)].new = drive[Len(drive)].new \cup {n}
         /\ Lands!Last' = drive'[Len(drive)]
<1>. DEFINE set == Lands!Set([Lands!Last.has EXCEPT ![n] = s], Lands!Last.new \cup {n})
<1>1. set \in [has : [Lands!Names -> Lands!State], new : SUBSET Lands!Names]
  BY Types DEF Lands!Set
<1>2. drive' = [drive EXCEPT ![Len(drive)] = set]
  BY DEF Lands!HandOver
<1>3. Len(drive) \in 1 .. Len(drive) /\ drive \in Drives /\ Len(drive) \in Nat
  BY Types
<1>4. /\ drive' \in Drives /\ Len(drive') = Len(drive)
      /\ \A i \in 1 .. Len(drive) : drive'[i] = IF i = Len(drive) THEN set ELSE drive[i]
  <2>. DEFINE S == [has : [Lands!Names -> Lands!State], new : SUBSET Lands!Names]
  <2>1. drive \in Seq(S) /\ set \in S
    BY <1>1, <1>3 DEF Drives
  <2>. HIDE DEF set, S
  <2>2. /\ drive' \in Seq(S) /\ Len(drive') = Len(drive)
        /\ \A i \in 1 .. Len(drive) : drive'[i] = IF i = Len(drive) THEN set ELSE drive[i]
    BY <2>1, <1>2, <1>3, ExceptSeq
  <2>. QED
    BY <2>2 DEF S, Drives
<1>6. /\ \A i \in 1 .. Len(drive) - 1 : drive'[i] = drive[i]
      /\ drive'[Len(drive)] = set
  <2>. HIDE DEF set
  <2>. QED
    BY <1>3, <1>4
<1>7. Lands!Last = drive[Len(drive)] /\ Lands!Last' = drive'[Len(drive)]
  BY <1>4 DEF Lands!Last
<1>8. set.has = [drive[Len(drive)].has EXCEPT ![n] = s] /\ set.new = drive[Len(drive)].new \cup {n}
  BY <1>7 DEF Lands!Set
<1>. HIDE DEF set
<1>. QED
  BY <1>4, <1>6, <1>7, <1>8

\* A barrier leaves what the drive has and opens a set with nothing in it.
LEMMA BarrierParts ==
  ASSUME Lands!TypeOK, drive' = Lands!Parted
  PROVE  /\ drive' \in Drives /\ Len(drive') = Len(drive) + 1
         /\ \A i \in 1 .. Len(drive) : drive'[i] = drive[i]
         /\ drive'[Len(drive) + 1].has = drive[Len(drive)].has /\ drive'[Len(drive) + 1].new = {}
         /\ Lands!Last' = drive'[Len(drive) + 1]
<1>. DEFINE set == Lands!Set(Lands!Last.has, {})
<1>1. set \in [has : [Lands!Names -> Lands!State], new : SUBSET Lands!Names]
  BY Types DEF Lands!Set
<1>2. drive' = Append(drive, set) /\ drive \in Drives
  BY Types DEF Lands!Parted
<1>3. drive' \in Drives /\ Len(drive') = Len(drive) + 1
      /\ (\A i \in 1 .. Len(drive) : drive'[i] = drive[i]) /\ drive'[Len(drive) + 1] = set
  <2>. HIDE DEF set
  <2>. QED
    BY <1>1, <1>2, AppendProperties DEF Drives
<1>. QED
  BY <1>3, Types DEF Lands!Set, Lands!Last

\* Where all has landed, both sets have the same and nothing is new.
LEMMA AllLanded ==
  ASSUME NEW h \in [Lands!Names -> Lands!State], drive' = Lands!Landed(h)
  PROVE  /\ drive' \in Drives /\ Len(drive') = 2 /\ drive'[1].has = h /\ drive'[2].has = h
         /\ drive'[1].new = {} /\ drive'[2].new = {} /\ Lands!Last' = drive'[2]
<1>1. Lands!Set(h, {}) \in [has : [Lands!Names -> Lands!State], new : SUBSET Lands!Names]
  BY DEF Lands!Set
<1>2. drive' = <<Lands!Set(h, {}), Lands!Set(h, {})>>
  BY DEF Lands!Landed
<1>3. drive' \in Drives /\ Len(drive') = 2 /\ drive'[1] = Lands!Set(h, {}) /\ drive'[2] = Lands!Set(h, {})
  BY <1>1, <1>2 DEF Drives
<1>. QED
  BY <1>3 DEF Lands!Set, Lands!Last

\* Where a recorder goes, it is, and the others stay.
LEMMA Gone ==
  ASSUME Lands!TypeOK, NEW r \in Recorders, NEW s \in Lands!Steps, NEW l \in SUBSET Contents,
         NEW a \in Lands!Names \cup {None}, Lands!Go(r, s, l, a)
  PROVE  /\ recorder' \in [Recorders -> Recording]
         /\ recorder'[r].step = s /\ recorder'[r].left = l /\ recorder'[r].at = a
         /\ \A q \in Recorders : q # r => recorder'[q] = recorder[q]
<1>1. recorder \in [Recorders -> Recording]
  BY Types
<1>2. [step |-> s, left |-> l, at |-> a] \in Recording
  BY DEF Recording
<1>. QED
  BY <1>1, <1>2 DEF Lands!Go

\* Later sets have what an earlier one had, and the same is so when the drive grew.
LEMMA SettledLater ==
  ASSUME NEW D, Len(D) \in Nat, NEW c, NEW j \in 1 .. Len(D), NEW k \in j .. Len(D), Settled(D, c, j)
  PROVE  Settled(D, c, k)
<1>1. CASE k = j
  BY <1>1
<1>2. CASE k \in j + 1 .. Len(D)
  <2>1. \A i \in k + 1 .. Len(D) : i \in j + 1 .. Len(D)
    BY <1>2
  <2>. QED
    BY <1>2, <2>1 DEF Settled
<1>. QED
  BY <1>1, <1>2

\* What is settled stays so when another file is handed over.
LEMMA SettledKept ==
  ASSUME Lands!TypeOK, NEW n \in Lands!Names, NEW s \in Lands!State, Lands!HandOver(n, s),
         NEW c \in Lands!Names, c # n, NEW j \in 1 .. Len(drive), Settled(drive, c, j)
  PROVE  Settled(drive', c, j)
<1>0. drive[Len(drive)].has \in [Lands!Names -> Lands!State]
  BY Types
<1>1. drive'[Len(drive)].has[c] = drive[Len(drive)].has[c]
      /\ (c \in drive'[Len(drive)].new <=> c \in drive[Len(drive)].new)
  <2>1. /\ drive'[Len(drive)].has = [drive[Len(drive)].has EXCEPT ![n] = s]
        /\ drive'[Len(drive)].new = drive[Len(drive)].new \cup {n}
    BY HandedOver
  <2>. QED
    BY <1>0, <2>1
<1>2. Len(drive') = Len(drive) /\ (\A i \in 1 .. Len(drive) - 1 : drive'[i] = drive[i]) /\ Len(drive) \in Nat
  BY HandedOver, Types
<1>3. \A i \in 1 .. Len(drive) : drive'[i].has[c] = drive[i].has[c]
                                 /\ (c \in drive'[i].new <=> c \in drive[i].new)
  BY <1>1, <1>2
<1>. QED
  BY <1>2, <1>3 DEF Settled

\* What is settled stays so when a barrier parts the sets.
LEMMA SettledParted ==
  ASSUME Lands!TypeOK, drive' = Lands!Parted, NEW c, NEW j \in 1 .. Len(drive), Settled(drive, c, j)
  PROVE  Settled(drive', c, j)
<1>1. Len(drive) \in Nat /\ Len(drive') = Len(drive) + 1 /\ (\A i \in 1 .. Len(drive) : drive'[i] = drive[i])
      /\ drive'[Len(drive) + 1].has = drive[Len(drive)].has /\ drive'[Len(drive) + 1].new = {}
  BY BarrierParts, Types
<1>2. drive[Len(drive)].has[c] = "whole"
  BY <1>1 DEF Settled
<1>3. \A i \in j + 1 .. Len(drive') : c \notin drive'[i].new /\ drive'[i].has[c] = "whole"
  <2>. SUFFICES ASSUME NEW i \in j + 1 .. Len(drive')
                PROVE  c \notin drive'[i].new /\ drive'[i].has[c] = "whole"
    OBVIOUS
  <2>1. CASE i = Len(drive) + 1
    BY <1>1, <1>2, <2>1
  <2>2. CASE i # Len(drive) + 1
    <3>1. i \in j + 1 .. Len(drive) /\ i \in 1 .. Len(drive)
      BY <1>1, <2>2
    <3>. QED
      BY <1>1, <3>1 DEF Settled
  <2>. QED
    BY <2>1, <2>2
<1>. QED
  BY <1>1, <1>3 DEF Settled
-----------------------------------------------------------------------------
(* One file changes at a time.                                               *)
Memory ==
  /\ file \in [Lands!Names -> Lands!State]
  /\ DOMAIN loose \subseteq Lands!Names /\ \A n \in DOMAIN loose : loose[n] \in 2 .. Len(drive)
  /\ drive \in Drives /\ Len(drive) >= 2
  /\ \A n \in Lands!Names \ DOMAIN loose : file[n] = Lands!Last.has[n]

Same(n) ==
  /\ file'[n] = file[n] /\ (n \in DOMAIN loose' <=> n \in DOMAIN loose)
  /\ n \in DOMAIN loose => loose'[n] = loose[n]
Touches(m) ==
  /\ needs' = needs /\ raced \subseteq raced'
  /\ \A n \in Lands!Names : n # m => Same(n)
  /\ \/ drive' = drive
     \/ drive' = Lands!Parted
     \/ m \in Lands!Names /\ \E s \in Lands!State : Lands!HandOver(m, s)

\* What m is, nobody has to find.
Spared(m) ==
  m \in Contents /\ m \notin raced' /\ (\E q \in Recorders : m \in needs[q]) => ~Given(m)

\* The types say what memory is.
LEMMA MemoryType == Lands!TypeOK => Memory
BY Naming DEF Lands!TypeOK, Memory, Drives

\* A change that is not handed over touches its file alone.
LEMMA Loosens ==
  ASSUME Lands!TypeOK, NEW m \in Lands!Names, NEW s \in Lands!State, file' = [file EXCEPT ![m] = s],
         loose' = Lands!Loosened(m), drive' = drive, needs' = needs, raced \subseteq raced'
  PROVE  /\ Touches(m) /\ Memory' /\ file'[m] = s
         /\ DOMAIN loose' = DOMAIN loose \cup {m} /\ loose'[m] = Len(drive)
<1>1. /\ DOMAIN loose' = DOMAIN loose \cup {m} /\ loose'[m] = Len(drive)
      /\ \A n \in DOMAIN loose : n # m => loose'[n] = loose[n]
  BY DEF Lands!Loosened
<1>2. Memory /\ Len(drive) \in Nat
  BY MemoryType, Types
<1>3. file' \in [Lands!Names -> Lands!State] /\ file'[m] = s /\ \A n \in Lands!Names : n # m => file'[n] = file[n]
  BY <1>2 DEF Memory
<1>4. Touches(m)
  BY <1>1, <1>3 DEF Touches, Same
<1>5. DOMAIN loose' \subseteq Lands!Names /\ \A n \in DOMAIN loose' : loose'[n] \in 2 .. Len(drive)
  BY <1>1, <1>2 DEF Memory
<1>6. Lands!Last' = Lands!Last
  BY DEF Lands!Last
<1>7. \A n \in Lands!Names \ DOMAIN loose' : file'[n] = Lands!Last'.has[n]
  BY <1>1, <1>2, <1>3, <1>6 DEF Memory
<1>8. drive' \in Drives /\ Len(drive') >= 2 /\ Len(drive') = Len(drive)
  BY <1>2 DEF Memory
<1>. QED
  BY <1>1, <1>3, <1>4, <1>5, <1>7, <1>8 DEF Memory

\* A change that is handed over touches its file alone, and the drive has it.
LEMMA Hands ==
  ASSUME Lands!TypeOK, NEW m \in Lands!Names, NEW s \in Lands!State, file' = [file EXCEPT ![m] = s],
         loose' = Lands!Without(m), Lands!HandOver(m, s), needs' = needs, raced \subseteq raced'
  PROVE  Touches(m) /\ Memory' /\ file'[m] = s /\ DOMAIN loose' = DOMAIN loose \ {m}
<1>1. /\ DOMAIN loose' = DOMAIN loose \ {m}
      /\ \A n \in DOMAIN loose : n # m => loose'[n] = loose[n]
  BY DEF Lands!Without
<1>2. Memory /\ Len(drive) \in Nat /\ Lands!Last = drive[Len(drive)]
      /\ drive[Len(drive)].has \in [Lands!Names -> Lands!State]
  <2>1. Len(drive) \in 1 .. Len(drive)
    BY Types
  <2>. QED
    BY <2>1, MemoryType, Types
<1>3. file' \in [Lands!Names -> Lands!State] /\ file'[m] = s /\ \A n \in Lands!Names : n # m => file'[n] = file[n]
  BY <1>2 DEF Memory
<1>4. Touches(m)
  BY <1>1, <1>3 DEF Touches, Same
<1>5. /\ drive' \in Drives /\ Len(drive') = Len(drive)
      /\ Lands!Last'.has = [Lands!Last.has EXCEPT ![m] = s]
  BY <1>2, HandedOver
<1>6. DOMAIN loose' \subseteq Lands!Names /\ \A n \in DOMAIN loose' : loose'[n] \in 2 .. Len(drive')
  BY <1>1, <1>2, <1>5 DEF Memory
<1>7. \A n \in Lands!Names \ DOMAIN loose' : file'[n] = Lands!Last'.has[n]
  <2>. SUFFICES ASSUME NEW n \in Lands!Names, n \notin DOMAIN loose'
                PROVE  file'[n] = Lands!Last'.has[n]
    OBVIOUS
  <2>1. CASE n = m
    BY <1>2, <1>3, <1>5, <2>1
  <2>2. CASE n # m
    <3>1. n \notin DOMAIN loose
      BY <1>1, <2>2
    <3>2. file[n] = Lands!Last.has[n]
      BY <1>2, <3>1 DEF Memory
    <3>. QED
      BY <1>2, <1>3, <1>5, <2>2, <3>2
  <2>. QED
    BY <2>1, <2>2
<1>8. Len(drive') >= 2
  BY <1>2, <1>5 DEF Memory
<1>. QED
  BY <1>1, <1>3, <1>4, <1>5, <1>6, <1>7, <1>8 DEF Memory

\* A step that changes no file touches none.
LEMMA Still ==
  ASSUME Lands!TypeOK, file' = file, loose' = loose, drive' = drive, needs' = needs, raced \subseteq raced'
  PROVE  Touches(None) /\ Memory'
<1>1. Memory
  BY MemoryType
<1>. QED
  BY <1>1 DEF Memory, Touches, Same, Lands!Last

\* Nor does a barrier.
LEMMA PartsMemory ==
  ASSUME Lands!TypeOK, file' = file, loose' = loose, drive' = Lands!Parted, needs' = needs, raced \subseteq raced'
  PROVE  Touches(None) /\ Memory'
<1>1. Memory /\ Len(drive) \in Nat /\ Lands!Last = drive[Len(drive)]
  BY MemoryType, Types
<1>2. drive' \in Drives /\ Len(drive') = Len(drive) + 1 /\ Lands!Last'.has = Lands!Last.has
  BY <1>1, BarrierParts
<1>3. \A n \in DOMAIN loose' : loose'[n] \in 2 .. Len(drive')
  BY <1>1, <1>2 DEF Memory
<1>. QED
  BY <1>1, <1>2, <1>3 DEF Memory, Touches, Same

\* What is left of the types once memory is seen to.
LEMMA TypesKept ==
  ASSUME Lands!TypeOK, Memory', needs' = needs, recorder' \in [Recorders -> Recording],
         prune' \subseteq Contents, raced' \subseteq Lands!Names,
         faults' \in [stops : Nat, cuts : Nat, prunes : Nat]
  PROVE  Lands!TypeOK'
BY Naming DEF Lands!TypeOK, Memory, Recording, Drives

\* What stays settled, and how much longer the drive's story is.
LEMMA Lengths ==
  ASSUME Lands!TypeOK, NEW m, Touches(m)
  PROVE  Len(drive) \in Nat /\ Len(drive) >= 2 /\ Len(drive') \in {Len(drive), Len(drive) + 1}
<1>1. Len(drive) \in Nat /\ Len(drive) >= 2
  BY Types
<1>2. CASE drive' = drive
  BY <1>1, <1>2
<1>3. CASE drive' = Lands!Parted
  BY <1>1, <1>3, BarrierParts
<1>4. CASE m \in Lands!Names /\ \E s \in Lands!State : Lands!HandOver(m, s)
  BY <1>1, <1>4, HandedOver
<1>. QED
  BY <1>2, <1>3, <1>4 DEF Touches

\* A file that a step does not touch is as it was.
LEMMA Elsewhere ==
  ASSUME NEW m, Touches(m), NEW n \in Lands!Names, n # m
  PROVE  /\ file'[n] = file[n] /\ (n \in DOMAIN loose' <=> n \in DOMAIN loose)
         /\ n \in DOMAIN loose => loose'[n] = loose[n]
<1>1. Same(n)
  BY DEF Touches
<1>. QED
  BY <1>1 DEF Same

\* Nor does its content go, or what the drive has of it.
LEMMA Frame ==
  ASSUME Lands!TypeOK, NEW m, Touches(m), NEW c \in Lands!Names, c # m
  PROVE  /\ Given(c) => Given(c)'
         /\ \A j \in 1 .. Len(drive) : Settled(drive, c, j) => Settled(drive', c, j)
<1>1. Given(c) => Given(c)'
  BY Elsewhere DEF Given
<1>2. ASSUME NEW j \in 1 .. Len(drive), Settled(drive, c, j)
      PROVE  Settled(drive', c, j)
  <2>1. CASE drive' = drive
    BY <1>2, <2>1
  <2>2. CASE drive' = Lands!Parted
    BY <1>2, <2>2, SettledParted
  <2>3. CASE m \in Lands!Names /\ \E s \in Lands!State : Lands!HandOver(m, s)
    BY <1>2, <2>3, SettledKept
  <2>. QED
    BY <2>1, <2>2, <2>3 DEF Touches
<1>. QED
  BY <1>1, <1>2

\* Calm content stays where it is, and what is settled before the last set stays so.
LEMMA CalmKept ==
  ASSUME LandInv, NEW m, Touches(m), Spared(m), NEW q \in Recorders, NEW c \in Calm(q)', Given(c)
  PROVE  /\ c \in Calm(q) /\ Given(c)' /\ c \in Lands!Names
         /\ \A j \in 1 .. Len(drive) : Settled(drive, c, j) => Settled(drive', c, j)
         /\ Settled(drive, c, Len(drive) - 1) => Settled(drive', c, Len(drive') - 1)
<1>1. c \in needs[q] /\ c \notin raced' /\ c \notin raced
  BY DEF Calm, Touches
<1>2. c \in Contents /\ c \in Lands!Names
  BY <1>1, Types, Naming DEF LandInv
<1>3. c # m
  BY <1>1, <1>2 DEF Spared
<1>4. /\ Given(c)'
      /\ \A j \in 1 .. Len(drive) : Settled(drive, c, j) => Settled(drive', c, j)
  BY <1>2, <1>3, Frame DEF LandInv
<1>5. ASSUME Settled(drive, c, Len(drive) - 1)
      PROVE  Settled(drive', c, Len(drive') - 1)
  <2>1. Len(drive) \in Nat /\ Len(drive) >= 2 /\ Len(drive') \in {Len(drive), Len(drive) + 1}
    BY Lengths DEF LandInv
  <2>2. Settled(drive', c, Len(drive) - 1)
    BY <1>4, <1>5, <2>1
  <2>3. Len(drive') \in Nat /\ Len(drive) - 1 \in 1 .. Len(drive')
        /\ Len(drive') - 1 \in Len(drive) - 1 .. Len(drive')
    BY <2>1
  <2>. QED
    BY <2>2, <2>3, SettledLater
<1>. QED
  BY <1>1, <1>2, <1>4, <1>5 DEF Calm

\* Who does nothing is where it was.
LEMMA Others ==
  ASSUME LandInv, NEW m, Touches(m), Spared(m), NEW q \in Recorders, q # m, recorder'[q] = recorder[q],
         Writing(q) /\ recorder[q].at = m => m \in raced'
  PROVE  InOrder(q)' /\ Follows(q)' /\ Writes(q)' /\ Ends(q)'
<1>0. /\ InOrder(q) /\ Follows(q) /\ Writes(q) /\ Ends(q) /\ Lands!TypeOK
      /\ needs' = needs /\ raced \subseteq raced' /\ q \in Lands!Names /\ q \notin Contents
  BY Naming DEF LandInv, Touches
<1>1. InOrder(q)'
  BY <1>0 DEF InOrder
<1>2. Follows(q)'
  <2>1. ASSUME recorder[q].step # "named", NEW c \in Calm(q)', c \notin recorder[q].left
        PROVE  Given(c)'
    <3>1. c \in Calm(q)
      BY <1>0 DEF Calm
    <3>2. Given(c)
      BY <1>0, <2>1, <3>1 DEF Follows
    <3>. QED
      BY <3>2, CalmKept
  <2>2. ASSUME recorder[q].step = "revision" \/ (Writing(q) /\ recorder[q].at = q), NEW c \in Calm(q)'
        PROVE  Settled(drive', c, Len(drive') - 1)
    <3>1. c \in Calm(q) /\ recorder[q].left = {} /\ recorder[q].step # "named"
      BY <1>0, <2>2 DEF Calm, InOrder, Writing
    <3>2. Given(c) /\ Settled(drive, c, Len(drive) - 1)
      BY <1>0, <2>2, <3>1 DEF Follows
    <3>. QED
      BY <3>2, CalmKept
  <2>. QED
    BY <1>0, <2>1, <2>2 DEF Follows, Writing
<1>3. Writes(q)'
  <2>. SUFFICES ASSUME Writing(q), recorder[q].at \notin raced'
                PROVE  /\ recorder[q].at \in DOMAIN loose'
                       /\ file'[recorder[q].at] = IF recorder[q].step = "fill" THEN "part" ELSE "whole"
    BY <1>0 DEF Writes, Writing
  <2>1. recorder[q].at # m /\ recorder[q].at \notin raced
    BY <1>0
  <2>2. recorder[q].at \in DOMAIN loose
        /\ file[recorder[q].at] = IF recorder[q].step = "fill" THEN "part" ELSE "whole"
    BY <1>0, <2>1 DEF Writes
  <2>3. recorder[q].at \in Lands!Names
    BY <1>0, <2>2, MemoryType DEF Memory
  <2>. QED
    BY <2>1, <2>2, <2>3, Elsewhere
<1>4. Ends(q)'
  <2>1. ASSUME recorder[q].step = "filed", q \notin raced'
        PROVE  Given(q)'
    BY <1>0, <2>1, Frame DEF Ends
  <2>2. ASSUME recorder[q].step = "named", q \notin raced'
        PROVE  q \notin DOMAIN loose' /\ Settled(drive', q, 1)
    <3>1. q \notin DOMAIN loose /\ Settled(drive, q, 1)
      BY <1>0, <2>2 DEF Ends
    <3>2. 1 \in 1 .. Len(drive)
      BY <1>0, Types
    <3>3. q \notin DOMAIN loose'
      BY <1>0, <3>1, Elsewhere
    <3>4. \A j \in 1 .. Len(drive) : Settled(drive, q, j) => Settled(drive', q, j)
      BY <1>0, Frame
    <3>. QED
      BY <3>1, <3>2, <3>3, <3>4
  <2>. QED
    BY <1>0, <2>1, <2>2 DEF Ends
<1>. QED
  BY <1>1, <1>2, <1>3, <1>4

\* Whatever the drive may have of a revision is still behind its content.
LEMMA BeforeKept ==
  ASSUME LandInv, NEW m, Touches(m), Spared(m), NEW q \in Recorders,
         q = m => \/ /\ \A c \in Calm(q) : Given(c) /\ Settled(drive, c, Len(drive) - 1)
                     /\ m \in DOMAIN loose' => loose'[m] = Len(drive)
                  \/ /\ m \notin DOMAIN loose'
                     /\ drive' = drive \/ (m \in Lands!Names /\ Lands!HandOver(m, None))
  PROVE  Before(q)'
<1>. SUFFICES ASSUME NEW c \in Calm(q)'
              PROVE  /\ q \in DOMAIN loose' => Given(c)' /\ Settled(drive', c, loose'[q] - 1)
                     /\ \A i \in 1 .. Len(drive') : drive'[i].has[q] = "whole" =>
                          Given(c)' /\ Settled(drive', c, IF i = 1 THEN 1 ELSE i - 1)
  BY DEF Before
<1>. DEFINE Back(i) == IF i = 1 THEN 1 ELSE i - 1
<1>0. /\ Lands!TypeOK /\ Before(q) /\ c \in Calm(q) /\ q \in Lands!Names
      /\ Len(drive) \in Nat /\ Len(drive) >= 2 /\ Len(drive') \in {Len(drive), Len(drive) + 1}
  BY Naming, Lengths DEF LandInv, Calm, Touches
<1>1. \A j \in 1 .. Len(drive) : Given(c) /\ Settled(drive, c, j) => Given(c)' /\ Settled(drive', c, j)
  BY CalmKept
<1>2. q \in DOMAIN loose => loose[q] \in 2 .. Len(drive)
  BY <1>0, MemoryType DEF Memory
<1>3. \A i \in 1 .. Len(drive) : drive[i].has[q] = "whole" => Given(c)' /\ Settled(drive', c, Back(i))
  <2>. SUFFICES ASSUME NEW i \in 1 .. Len(drive), drive[i].has[q] = "whole"
                PROVE  Given(c)' /\ Settled(drive', c, Back(i))
    OBVIOUS
  <2>1. Given(c) /\ Settled(drive, c, Back(i)) /\ Back(i) \in 1 .. Len(drive)
    BY <1>0 DEF Before
  <2>. QED
    BY <1>1, <2>1
<1>4. ASSUME q # m \/ m \notin DOMAIN loose', q \in DOMAIN loose'
      PROVE  Given(c)' /\ Settled(drive', c, loose'[q] - 1)
  <2>1. q \in DOMAIN loose /\ loose'[q] = loose[q]
    BY <1>0, <1>4, Elsewhere
  <2>2. Given(c) /\ Settled(drive, c, loose[q] - 1) /\ loose[q] - 1 \in 1 .. Len(drive)
    BY <1>0, <1>2, <2>1 DEF Before
  <2>. QED
    BY <1>1, <2>1, <2>2
<1>5. ASSUME q = m, \A e \in Calm(q) : Given(e) /\ Settled(drive, e, Len(drive) - 1)
      PROVE  Given(c)' /\ Settled(drive', c, Len(drive) - 1)
  BY <1>0, <1>1, <1>5
<1>6. ASSUME q \in DOMAIN loose'
      PROVE  Given(c)' /\ Settled(drive', c, loose'[q] - 1)
  BY <1>4, <1>5, <1>6
<1>7. ASSUME NEW i \in 1 .. Len(drive'), drive'[i].has[q] = "whole"
      PROVE  Given(c)' /\ Settled(drive', c, Back(i))
  <2>1. CASE drive' = drive
    BY <1>3, <1>7, <2>1
  <2>2. CASE drive' = Lands!Parted
    <3>1. /\ Len(drive') = Len(drive) + 1 /\ \A k \in 1 .. Len(drive) : drive'[k] = drive[k]
          /\ drive'[Len(drive) + 1].has = drive[Len(drive)].has
      BY <1>0, <2>2, BarrierParts
    <3>2. CASE i \in 1 .. Len(drive)
      BY <1>3, <1>7, <3>1, <3>2
    <3>3. CASE i = Len(drive) + 1
      <4>1. Given(c)' /\ Settled(drive', c, Back(Len(drive)))
        BY <1>0, <1>3, <1>7, <3>1, <3>3
      <4>2. Len(drive') \in Nat /\ Back(Len(drive)) \in 1 .. Len(drive')
            /\ Len(drive) \in Back(Len(drive)) .. Len(drive')
        BY <1>0, <3>1
      <4>3. Settled(drive', c, Len(drive))
        BY <4>1, <4>2, SettledLater
      <4>. QED
        BY <1>0, <3>3, <4>1, <4>3
    <3>. QED
      BY <1>0, <3>1, <3>2, <3>3
  <2>3. CASE m \in Lands!Names /\ \E s \in Lands!State : Lands!HandOver(m, s)
    <3>1. PICK s \in Lands!State : Lands!HandOver(m, s)
      BY <2>3
    <3>2. /\ Len(drive') = Len(drive) /\ \A k \in 1 .. Len(drive) - 1 : drive'[k] = drive[k]
          /\ drive'[Len(drive)].has = [drive[Len(drive)].has EXCEPT ![m] = s]
          /\ drive[Len(drive)].has \in [Lands!Names -> Lands!State]
      <4>1. Len(drive) \in 1 .. Len(drive)
        BY <1>0
      <4>. QED
        BY <1>0, <2>3, <3>1, <4>1, HandedOver, Types
    <3>3. CASE i \in 1 .. Len(drive) - 1
      BY <1>0, <1>3, <1>7, <3>2, <3>3
    <3>4. CASE i = Len(drive) /\ q # m
      <4>1. drive[i].has[q] = "whole"
        BY <1>0, <1>7, <3>2, <3>4
      <4>. QED
        BY <1>0, <1>3, <3>4, <4>1
    <3>5. CASE i = Len(drive) /\ q = m /\ \A e \in Calm(q) : Given(e) /\ Settled(drive, e, Len(drive) - 1)
      BY <1>0, <1>5, <3>5
    <3>6. CASE i = Len(drive) /\ q = m /\ drive' = drive
      BY <1>3, <1>7, <3>6
    <3>7. CASE i = Len(drive) /\ q = m /\ Lands!HandOver(m, None)
      <4>1. None \in Lands!State /\ None # "whole"
        BY Naming
      <4>2. drive'[Len(drive)].has = [drive[Len(drive)].has EXCEPT ![m] = None]
        BY <1>0, <2>3, <3>7, <4>1, HandedOver
      <4>. QED
        BY <1>0, <1>7, <2>3, <3>2, <3>7, <4>1, <4>2
    <3>. QED
      BY <1>0, <3>2, <3>3, <3>4, <3>5, <3>6, <3>7
  <2>. QED
    BY <2>1, <2>2, <2>3 DEF Touches
<1>. QED
  BY <1>6, <1>7

Restarts(q) ==
  recorder'[q].step = "content" /\ recorder'[q].left = needs[q] /\ recorder'[q].at = None

\* A recorder that starts again has nothing to answer for.
LEMMA Restarted ==
  ASSUME NEW q \in Recorders, needs' = needs, Restarts(q)
  PROVE  InOrder(q)' /\ Follows(q)' /\ Writes(q)' /\ Ends(q)'
<1>1. q # None
  BY Naming
<1>. QED
  BY <1>1 DEF Restarts, InOrder, Follows, Writes, Ends, Writing, Calm

\* One step of r, which touches m: what is left to show is what it does to r.
LEMMA OneStep ==
  ASSUME LandInv, NEW m, Touches(m), Spared(m), Memory', NEW r, m \in Contents \cup {r, None},
         recorder' \in [Recorders -> Recording],
         \A q \in Recorders : q # r => recorder'[q] = recorder[q] \/ Restarts(q),
         raced' \subseteq Lands!Names, prune' \subseteq Contents,
         faults' \in [stops : Nat, cuts : Nat, prunes : Nat], faults'.cuts = faults.cuts,
         \A q \in Recorders : q # r /\ Writing(q) /\ recorder[q].at = m => m \in raced',
         \A p \in Payloads : file'[p] = "part" => file[p] = "part",
         r \in Recorders =>
           /\ InOrder(r)' /\ Follows(r)' /\ Writes(r)' /\ Ends(r)'
           /\ Writing(r)' => recorder'[r].at = m \/ recorder'[r] = recorder[r]
           /\ recorder'[r].step = "refused" /\ recorder'[r].at \in Payloads =>
                file[recorder'[r].at] = "part" \/ recorder'[r] = recorder[r]
           /\ m = r => \/ /\ \A c \in Calm(r) : Given(c) /\ Settled(drive, c, Len(drive) - 1)
                          /\ r \in DOMAIN loose' => loose'[r] = Len(drive)
                       \/ /\ r \notin DOMAIN loose'
                          /\ drive' = drive \/ Lands!HandOver(r, None),
         m \in Recorders => m = r
  PROVE  LandInv'
<1>0. Lands!TypeOK /\ needs' = needs /\ raced \subseteq raced' /\ Apart /\ Torn
  BY DEF LandInv, Touches
<1>1. Lands!TypeOK'
  BY <1>0, TypesKept
<1>2. ASSUME NEW q \in Recorders
      PROVE  InOrder(q)' /\ Follows(q)' /\ Writes(q)' /\ Ends(q)'
  <2>1. CASE q = r
    BY <2>1
  <2>2. CASE q # r /\ Restarts(q)
    BY <1>0, <2>2, Restarted
  <2>3. CASE q # r /\ recorder'[q] = recorder[q]
    <3>1. q # m
      BY <2>3, Naming
    <3>. QED
      BY <2>3, <3>1, Others
  <2>. QED
    BY <2>1, <2>2, <2>3
<1>3. ASSUME NEW q \in Recorders
      PROVE  Before(q)'
  <2>1. q = m => \/ /\ \A c \in Calm(q) : Given(c) /\ Settled(drive, c, Len(drive) - 1)
                    /\ m \in DOMAIN loose' => loose'[m] = Len(drive)
                 \/ /\ m \notin DOMAIN loose'
                    /\ drive' = drive \/ (m \in Lands!Names /\ Lands!HandOver(m, None))
    BY Naming
  <2>. QED
    BY <2>1, BeforeKept
<1>4. Apart'
  <2>. SUFFICES ASSUME NEW p \in Recorders, NEW q \in Recorders, p # q, Writing(p)', Writing(q)',
                       recorder'[p].at = recorder'[q].at
                PROVE  recorder'[p].at \in raced'
    BY DEF Apart
  <2>1. \A x \in {p, q} : x # r => recorder'[x] = recorder[x] /\ Writing(x)
    BY DEF Restarts, Writing
  <2>2. CASE p # r /\ q # r
    BY <1>0, <2>1, <2>2 DEF Apart
  <2>3. CASE p = r /\ recorder'[p] = recorder[p]
    BY <1>0, <2>1, <2>3 DEF Apart, Writing
  <2>4. CASE p = r /\ recorder'[p].at = m
    BY <2>1, <2>4
  <2>5. CASE q = r /\ recorder'[q] = recorder[q]
    BY <1>0, <2>1, <2>5 DEF Apart, Writing
  <2>6. CASE q = r /\ recorder'[q].at = m
    BY <2>1, <2>6
  <2>. QED
    BY <2>2, <2>3, <2>4, <2>5, <2>6
<1>5. Torn'
  <2>1. CutBefore' <=> CutBefore
    BY DEF CutBefore
  <2>2. ASSUME NEW q \in Recorders, recorder'[q].step = "refused", recorder'[q].at \in Payloads
        PROVE  CutBefore
    <3>1. CASE q = r
      BY <1>0, <2>2, <3>1 DEF Torn
    <3>2. CASE q # r
      BY <1>0, <2>2, <3>2 DEF Torn, Restarts
    <3>. QED
      BY <3>1, <3>2
  <2>. QED
    BY <1>0, <2>1, <2>2 DEF Torn
<1>. QED
  BY <1>1, <1>2, <1>3, <1>4, <1>5 DEF LandInv

\* What every action of a recorder starts from.
LEMMA RecorderFacts ==
  ASSUME LandInv, NEW r \in Recorders
  PROVE  /\ Lands!TypeOK /\ InOrder(r) /\ Follows(r) /\ Writes(r) /\ Ends(r) /\ Before(r)
         /\ recorder[r] \in Recording /\ recorder[r].step \in Lands!Steps
         /\ recorder[r].left \in SUBSET Contents /\ recorder[r].at \in Lands!Names \cup {None}
         /\ needs[r] \in SUBSET Contents /\ recorder \in [Recorders -> Recording]
         /\ raced \subseteq Lands!Names /\ prune \subseteq Contents
         /\ faults \in [stops : Nat, cuts : Nat, prunes : Nat]
         /\ r \in Lands!Names /\ r # None /\ r \notin Contents /\ r \notin Payloads /\ Spared(None) /\ Spared(r)
<1>1. recorder[r] \in Recording /\ Lands!TypeOK
  BY Types DEF LandInv
<1>2. Spared(None) /\ Spared(r)
  BY Naming DEF Spared
<1>. QED
  BY <1>1, <1>2, Types, Naming DEF LandInv, Recording, Lands!TypeOK

\* What r has behind it stays handed over while it does something else.
LEMMA BehindStays ==
  ASSUME LandInv, NEW m, Touches(m), Spared(m), NEW r \in Recorders, recorder[r].step # "named",
         NEW c \in Calm(r)', c \notin recorder[r].left
  PROVE  Given(c)'
<1>1. c \in Calm(r)
  BY DEF Calm, Touches
<1>2. Given(c)
  BY <1>1, RecorderFacts DEF Follows
<1>. QED
  BY <1>2, CalmKept

\* Content that is found held was handed over, or is raced for.
LEMMA HoldKeeps ==
  ASSUME LandInv, NEW r \in Recorders, Lands!Hold(r)
  PROVE  LandInv'
<1>0. PICK c \in recorder[r].left :
        /\ file[c] = "whole" /\ Lands!Go(r, "content", recorder[r].left \ {c}, None)
        /\ raced' = Lands!Believed(c)
  BY DEF Lands!Hold
<1>a. /\ recorder[r].step = "content" /\ file' = file /\ loose' = loose /\ drive' = drive
      /\ needs' = needs /\ prune' = prune /\ faults' = faults
  BY DEF Lands!Hold, Lands!At
<1>1. c \in Contents /\ c \in Lands!Names /\ raced \subseteq raced' /\ raced' \subseteq raced \cup {c}
      /\ (c \in raced' \/ c \notin DOMAIN loose)
  BY <1>0, RecorderFacts, Naming DEF Lands!Believed
<1>2. Touches(None) /\ Memory'
  BY <1>a, <1>1, RecorderFacts, Still
<1>3. /\ recorder' \in [Recorders -> Recording]
      /\ recorder'[r].step = "content" /\ recorder'[r].left = recorder[r].left \ {c} /\ recorder'[r].at = None
      /\ \A q \in Recorders : q # r => recorder'[q] = recorder[q]
  <2>1. "content" \in Lands!Steps /\ recorder[r].left \ {c} \in SUBSET Contents
    BY RecorderFacts DEF Lands!Steps
  <2>. QED
    BY <1>0, <2>1, RecorderFacts, Gone
<1>4. InOrder(r)'
  BY <1>a, <1>3, RecorderFacts DEF InOrder
<1>5. Follows(r)'
  <2>1. ASSUME NEW e \in Calm(r)', e \notin recorder[r].left \ {c}
        PROVE  Given(e)'
    <3>1. CASE e = c
      BY <1>0, <1>a, <1>1, <2>1, <3>1 DEF Given, Calm
    <3>2. CASE e # c
      BY <1>a, <1>2, <2>1, <3>2, RecorderFacts, BehindStays
    <3>. QED
      BY <3>1, <3>2
  <2>. QED
    BY <1>3, <2>1 DEF Follows, Writing
<1>6. Writes(r)' /\ Ends(r)' /\ ~Writing(r)'
  BY <1>3 DEF Writes, Ends, Writing
<1>7. \A q \in Recorders : Writing(q) => recorder[q].at # None
  BY RecorderFacts, Naming DEF InOrder, Writing
<1>8. raced' \subseteq Lands!Names /\ prune' \subseteq Contents
  BY <1>a, <1>1, RecorderFacts
<1>. QED
  BY <1>a, <1>2, <1>3, <1>4, <1>5, <1>6, <1>7, <1>8, RecorderFacts, Naming, OneStep

\* What a revision needs is settled from the barrier until the revision is handed over.
LEMMA Settling ==
  ASSUME LandInv, NEW m, Touches(m), Spared(m), NEW r \in Recorders,
         recorder[r].step = "revision" \/ (Writing(r) /\ recorder[r].at = r)
  PROVE  /\ \A c \in Calm(r) : Given(c) /\ Settled(drive, c, Len(drive) - 1)
         /\ \A c \in Calm(r)' : Settled(drive', c, Len(drive') - 1)
<1>1. recorder[r].left = {} /\ recorder[r].step # "named"
  BY RecorderFacts DEF InOrder, Writing
<1>2. \A c \in Calm(r) : Given(c) /\ Settled(drive, c, Len(drive) - 1)
  BY <1>1, RecorderFacts DEF Follows
<1>3. Calm(r)' \subseteq Calm(r)
  BY DEF Calm, Touches
<1>. QED
  BY <1>2, <1>3, CalmKept

\* A file is created loose and in part, and a taken name refuses or is believed.
LEMMA CreateKeeps ==
  ASSUME LandInv, NEW r \in Recorders, Lands!Create(r)
  PROVE  LandInv'
<1>0. PICK n \in Lands!Next_(r) \ Payloads :
       \/ /\ file[n] = None
          /\ file' = [file EXCEPT ![n] = "part"]
          /\ loose' = Lands!Loosened(n)
          /\ Lands!Go(r, "fill", recorder[r].left, n)
          /\ UNCHANGED raced
       \/ /\ file[n] = "part"
          /\ Lands!Go(r, "refused", recorder[r].left, n)
          /\ UNCHANGED <<file, loose, raced>>
       \/ /\ file[n] = "whole" /\ n = r
          /\ Lands!Go(r, "filed", {}, None)
          /\ raced' = Lands!Believed(n)
          /\ UNCHANGED <<file, loose>>
  BY DEF Lands!Create
<1>a. drive' = drive /\ needs' = needs /\ prune' = prune /\ faults' = faults
  BY DEF Lands!Create
<1>b. /\ n \notin Payloads /\ n \in recorder[r].left \cup {r} /\ (n = r => recorder[r].left = {})
      /\ recorder[r].step # "named" /\ n \in Lands!Names /\ n \in Contents \cup {r}
      /\ (n = r => recorder[r].step = "revision")
  BY RecorderFacts, Naming DEF Lands!Next_, Lands!At, InOrder
<1>1. CASE /\ file[n] = None /\ file' = [file EXCEPT ![n] = "part"] /\ loose' = Lands!Loosened(n)
           /\ Lands!Go(r, "fill", recorder[r].left, n) /\ raced' = raced
  <2>1. /\ Touches(n) /\ Memory' /\ file'[n] = "part"
        /\ DOMAIN loose' = DOMAIN loose \cup {n} /\ loose'[n] = Len(drive)
    BY <1>1, <1>a, <1>b, RecorderFacts, Naming, Loosens
  <2>2. Spared(n)
    BY <1>1, Naming DEF Spared, Given
  <2>3. /\ recorder' \in [Recorders -> Recording]
        /\ recorder'[r].step = "fill" /\ recorder'[r].left = recorder[r].left /\ recorder'[r].at = n
        /\ \A q \in Recorders : q # r => recorder'[q] = recorder[q]
    BY <1>1, <1>b, RecorderFacts, Gone DEF Lands!Steps
  <2>4. InOrder(r)'
    BY <1>a, <1>b, <2>3, RecorderFacts DEF InOrder
  <2>5. \A c \in Calm(r)' : c \notin recorder[r].left => Given(c)'
    BY <1>b, <2>1, <2>2, BehindStays
  <2>6. n = r => \A c \in Calm(r)' : Settled(drive', c, Len(drive') - 1)
    BY <1>b, <2>1, <2>2, Settling
  <2>7. n = r => \A c \in Calm(r) : Given(c) /\ Settled(drive, c, Len(drive) - 1)
    BY <1>b, <2>1, <2>2, Settling
  <2>8. Follows(r)' /\ Writes(r)' /\ Ends(r)'
    BY <2>1, <2>3, <2>5, <2>6 DEF Follows, Writes, Ends, Writing
  <2>9. \A q \in Recorders : Writing(q) /\ recorder[q].at = n => n \in raced'
    BY <1>1, RecorderFacts, Naming DEF Writes
  <2>10. \A p \in Payloads : file'[p] = file[p]
    BY <1>b, <2>1, Naming, Elsewhere
  <2>11. n \in Recorders => n = r
    BY <1>b, Naming
  <2>12. "part" # None /\ raced' \subseteq Lands!Names /\ prune' \subseteq Contents
    BY <1>1, <1>a, RecorderFacts, Naming
  <2>. QED
    BY <1>a, <1>b, <2>1, <2>2, <2>3, <2>4, <2>7, <2>8, <2>9, <2>10, <2>11, <2>12, RecorderFacts, OneStep
<1>2. CASE /\ file[n] = "part" /\ Lands!Go(r, "refused", recorder[r].left, n)
           /\ file' = file /\ loose' = loose /\ raced' = raced
  <2>1. Touches(None) /\ Memory'
    BY <1>2, <1>a, RecorderFacts, Still
  <2>3. /\ recorder' \in [Recorders -> Recording]
        /\ recorder'[r].step = "refused" /\ recorder'[r].left = recorder[r].left /\ recorder'[r].at = n
        /\ \A q \in Recorders : q # r => recorder'[q] = recorder[q]
    BY <1>2, <1>b, RecorderFacts, Gone DEF Lands!Steps
  <2>4. InOrder(r)'
    BY <1>a, <1>b, <2>3, RecorderFacts DEF InOrder
  <2>5. \A c \in Calm(r)' : c \notin recorder[r].left => Given(c)'
    BY <1>b, <2>1, RecorderFacts, BehindStays
  <2>6. Follows(r)' /\ Writes(r)' /\ Ends(r)' /\ ~Writing(r)'
    BY <2>3, <2>5 DEF Follows, Writes, Ends, Writing
  <2>7. \A q \in Recorders : Writing(q) => recorder[q].at # None
    BY RecorderFacts, Naming DEF InOrder, Writing
  <2>8. raced' \subseteq Lands!Names /\ prune' \subseteq Contents
    BY <1>2, <1>a, RecorderFacts
  <2>. QED
    BY <1>2, <1>a, <1>b, <2>1, <2>3, <2>4, <2>6, <2>7, <2>8, RecorderFacts, Naming, OneStep
<1>3. CASE /\ file[n] = "whole" /\ n = r /\ Lands!Go(r, "filed", {}, None)
           /\ raced' = Lands!Believed(n) /\ file' = file /\ loose' = loose
  <2>0. raced \subseteq raced' /\ raced' \subseteq Lands!Names /\ (r \in raced' \/ r \notin DOMAIN loose)
    BY <1>3, RecorderFacts DEF Lands!Believed
  <2>1. Touches(None) /\ Memory'
    BY <1>3, <1>a, <2>0, RecorderFacts, Still
  <2>3. /\ recorder' \in [Recorders -> Recording]
        /\ recorder'[r].step = "filed" /\ recorder'[r].left = {} /\ recorder'[r].at = None
        /\ \A q \in Recorders : q # r => recorder'[q] = recorder[q]
    BY <1>3, RecorderFacts, Gone DEF Lands!Steps
  <2>4. InOrder(r)'
    BY <1>a, <2>3, RecorderFacts DEF InOrder
  <2>5. \A c \in Calm(r)' : Given(c)'
    BY <1>3, <1>b, <2>1, RecorderFacts, BehindStays
  <2>6. Follows(r)' /\ Writes(r)' /\ Ends(r)' /\ ~Writing(r)'
    BY <1>3, <2>0, <2>3, <2>5, RecorderFacts DEF Follows, Writes, Ends, Writing, Given
  <2>7. \A q \in Recorders : Writing(q) => recorder[q].at # None
    BY RecorderFacts, Naming DEF InOrder, Writing
  <2>8. prune' \subseteq Contents
    BY <1>a, RecorderFacts
  <2>. QED
    BY <1>3, <1>a, <2>0, <2>1, <2>3, <2>4, <2>6, <2>7, <2>8, RecorderFacts, Naming, OneStep
<1>. QED
  BY <1>0, <1>1, <1>2, <1>3

\* The recorder that created a file fills it.
LEMMA FillKeeps ==
  ASSUME LandInv, NEW r \in Recorders, Lands!Fill(r)
  PROVE  LandInv'
<1>. DEFINE n == recorder[r].at
            s == IF file[n] = "part" THEN "whole" ELSE file[n]
<1>a. /\ recorder[r].step = "fill" /\ file' = [file EXCEPT ![n] = s] /\ loose' = Lands!Loosened(n)
      /\ Lands!Go(r, "push", recorder[r].left, n)
      /\ drive' = drive /\ needs' = needs /\ prune' = prune /\ faults' = faults /\ raced' = raced
  BY DEF Lands!Fill, Lands!At
<1>b. /\ n \notin Payloads /\ n \in recorder[r].left \cup {r} /\ (n = r => recorder[r].left = {})
      /\ n \in Lands!Names /\ n \in Contents \cup {r} /\ Writing(r)
      /\ (n \notin raced => n \in DOMAIN loose /\ file[n] = "part")
  BY <1>a, RecorderFacts, Naming DEF InOrder, Writes, Writing
<1>c. s \in Lands!State /\ (n \notin raced => s = "whole") /\ (s = "part" => file[n] = "part")
  BY <1>b, RecorderFacts, MemoryType, Naming DEF Memory
<1>. HIDE DEF n, s
<1>1. /\ Touches(n) /\ Memory' /\ file'[n] = s
      /\ DOMAIN loose' = DOMAIN loose \cup {n} /\ loose'[n] = Len(drive)
  BY <1>a, <1>b, <1>c, RecorderFacts, Loosens
<1>2. Spared(n)
  BY <1>a, <1>b DEF Spared, Given
<1>3. /\ recorder' \in [Recorders -> Recording]
      /\ recorder'[r].step = "push" /\ recorder'[r].left = recorder[r].left /\ recorder'[r].at = n
      /\ \A q \in Recorders : q # r => recorder'[q] = recorder[q]
  BY <1>a, <1>b, RecorderFacts, Gone DEF Lands!Steps
<1>4. InOrder(r)'
  BY <1>a, <1>b, <1>3, RecorderFacts DEF InOrder
<1>5. \A c \in Calm(r)' : c \notin recorder[r].left => Given(c)'
  BY <1>a, <1>1, <1>2, BehindStays
<1>d. recorder[r].at = n
  BY DEF n
<1>6. n = r => \A c \in Calm(r)' : Settled(drive', c, Len(drive') - 1)
  BY <1>b, <1>d, <1>1, <1>2, Settling
<1>7. n = r => \A c \in Calm(r) : Given(c) /\ Settled(drive, c, Len(drive) - 1)
  BY <1>b, <1>d, <1>1, <1>2, Settling
<1>8. Follows(r)' /\ Writes(r)' /\ Ends(r)'
  BY <1>a, <1>c, <1>1, <1>3, <1>5, <1>6 DEF Follows, Writes, Ends, Writing
<1>9. \A q \in Recorders : q # r /\ Writing(q) /\ recorder[q].at = n => n \in raced'
  BY <1>a, <1>b, <1>d DEF Apart, LandInv
<1>10. \A p \in Payloads : file'[p] = file[p]
  BY <1>b, <1>1, Naming, Elsewhere
<1>11. n \in Recorders => n = r
  BY <1>b, Naming
<1>12. raced' \subseteq Lands!Names /\ prune' \subseteq Contents
  BY <1>a, RecorderFacts
<1>. QED
  BY <1>a, <1>b, <1>1, <1>2, <1>3, <1>4, <1>7, <1>8, <1>9, <1>10, <1>11, <1>12, RecorderFacts, OneStep

\* A payload is staged where nobody meets it.
LEMMA StageKeeps ==
  ASSUME LandInv, NEW r \in Recorders, Lands!Stage(r)
  PROVE  LandInv'
<1>0. PICK n \in Lands!Next_(r) \cap Payloads :
       \/ file[n] = None /\ Lands!Go(r, "staged", recorder[r].left, n)
       \/ file[n] = "part" /\ Lands!Go(r, "refused", recorder[r].left, n)
  BY DEF Lands!Stage
<1>a. /\ file' = file /\ loose' = loose /\ drive' = drive /\ needs' = needs /\ prune' = prune
      /\ faults' = faults /\ raced' = raced
  BY DEF Lands!Stage
<1>b. /\ n \in Payloads /\ n \in recorder[r].left /\ n # r /\ recorder[r].step # "named" /\ n \in Lands!Names
  BY RecorderFacts, Naming DEF Lands!Next_, Lands!At
<1>1. Touches(None) /\ Memory'
  BY <1>a, RecorderFacts, Still
<1>2. PICK s \in {"staged", "refused"} :
        Lands!Go(r, s, recorder[r].left, n) /\ (s = "refused" => file[n] = "part")
  BY <1>0
<1>3. /\ recorder' \in [Recorders -> Recording]
      /\ recorder'[r].step = s /\ recorder'[r].left = recorder[r].left /\ recorder'[r].at = n
      /\ \A q \in Recorders : q # r => recorder'[q] = recorder[q]
  <2>1. s \in Lands!Steps /\ Lands!Go(r, s, recorder[r].left, n)
    BY <1>2 DEF Lands!Steps
  <2>2. Lands!TypeOK /\ recorder[r].left \in SUBSET Contents /\ n \in Lands!Names \cup {None}
    BY <1>b, RecorderFacts
  <2>. QED
    BY <2>1, <2>2, Gone
<1>4. InOrder(r)'
  BY <1>a, <1>b, <1>3, RecorderFacts DEF InOrder
<1>5. \A c \in Calm(r)' : c \notin recorder[r].left => Given(c)'
  BY <1>b, <1>1, RecorderFacts, BehindStays
<1>6. Follows(r)' /\ Writes(r)' /\ Ends(r)' /\ ~Writing(r)'
  <2>1. recorder'[r].step \notin {"fill", "push", "revision", "filed", "named"}
    BY <1>3
  <2>. QED
    BY <1>3, <1>5, <2>1 DEF Follows, Writes, Ends, Writing
<1>7. \A q \in Recorders : Writing(q) => recorder[q].at # None
  BY RecorderFacts, Naming DEF InOrder, Writing
<1>8. raced' \subseteq Lands!Names /\ prune' \subseteq Contents
  BY <1>a, RecorderFacts
<1>. QED
  BY <1>a, <1>b, <1>1, <1>2, <1>3, <1>4, <1>6, <1>7, <1>8, RecorderFacts, Naming, OneStep

\* A payload is shown whole, and is raced for if another had shown it.
LEMMA RenameKeeps ==
  ASSUME LandInv, NEW r \in Recorders, Lands!Rename(r)
  PROVE  LandInv'
<1>. DEFINE n == recorder[r].at
<1>a. /\ recorder[r].step = "staged" /\ file' = [file EXCEPT ![n] = "whole"] /\ loose' = Lands!Loosened(n)
      /\ Lands!Go(r, IF file'[n] = "whole" THEN "push" ELSE "fill", recorder[r].left, n)
      /\ raced' = (IF file[n] = "whole" THEN raced \cup {n} ELSE raced)
      /\ drive' = drive /\ needs' = needs /\ prune' = prune /\ faults' = faults
  BY DEF Lands!Rename, Lands!At, Lands!Shown
<1>b. n \in Payloads /\ n \in recorder[r].left /\ n # r /\ n \in Lands!Names /\ n \in Contents
  BY <1>a, RecorderFacts, Naming DEF InOrder
<1>d. recorder[r].at = n
  OBVIOUS
<1>c. raced \subseteq raced' /\ raced' \subseteq Lands!Names /\ (file[n] = "whole" => n \in raced')
  BY <1>a, <1>b, RecorderFacts
<1>. HIDE DEF n
<1>1. /\ Touches(n) /\ Memory' /\ file'[n] = "whole"
      /\ DOMAIN loose' = DOMAIN loose \cup {n} /\ loose'[n] = Len(drive)
  BY <1>a, <1>b, <1>c, RecorderFacts, Naming, Loosens
<1>2. Spared(n)
  BY <1>c DEF Spared, Given
<1>3. /\ recorder' \in [Recorders -> Recording]
      /\ recorder'[r].step = "push" /\ recorder'[r].left = recorder[r].left /\ recorder'[r].at = n
      /\ \A q \in Recorders : q # r => recorder'[q] = recorder[q]
  <2>1. Lands!Go(r, "push", recorder[r].left, n) /\ "push" \in Lands!Steps
    BY <1>a, <1>1 DEF Lands!Steps, Lands!Go
  <2>2. Lands!TypeOK /\ recorder[r].left \in SUBSET Contents /\ n \in Lands!Names \cup {None}
    BY <1>b, RecorderFacts
  <2>. QED
    BY <2>1, <2>2, Gone
<1>4. InOrder(r)'
  BY <1>a, <1>b, <1>3, RecorderFacts DEF InOrder
<1>5. \A c \in Calm(r)' : c \notin recorder[r].left => Given(c)'
  BY <1>a, <1>1, <1>2, BehindStays
<1>8. Follows(r)' /\ Writes(r)' /\ Ends(r)'
  BY <1>b, <1>1, <1>3, <1>5 DEF Follows, Writes, Ends, Writing
<1>9. \A q \in Recorders : q # r /\ Writing(q) /\ recorder[q].at = n => n \in raced'
  BY <1>b, <1>c, RecorderFacts DEF InOrder, Writes, Writing
<1>10. \A p \in Payloads : file'[p] = "part" => file[p] = "part"
  BY <1>b, <1>1, Naming, Elsewhere
<1>11. n \notin Recorders /\ prune' \subseteq Contents
  BY <1>a, <1>b, Naming, RecorderFacts
<1>. QED
  BY <1>a, <1>b, <1>c, <1>1, <1>2, <1>3, <1>4, <1>8, <1>9, <1>10, <1>11, RecorderFacts, OneStep

\* What a recorder wrote is handed over, and it goes on.
LEMMA PushKeeps ==
  ASSUME LandInv, NEW r \in Recorders, Lands!Push(r)
  PROVE  LandInv'
<1>. DEFINE n == recorder[r].at
            s == IF n = r THEN "filed" ELSE "content"
            l == IF n = r THEN {} ELSE recorder[r].left \ {n}
<1>a. /\ recorder[r].step = "push" /\ loose' = Lands!Without(n) /\ Lands!HandOver(n, file[n])
      /\ Lands!Go(r, s, l, None)
      /\ file' = file /\ needs' = needs /\ prune' = prune /\ faults' = faults /\ raced' = raced
  BY DEF Lands!Push, Lands!At
<1>b. /\ n \in recorder[r].left \cup {r} /\ (n = r => recorder[r].left = {}) /\ Writing(r)
      /\ n \in Lands!Names /\ n \in Contents \cup {r} /\ (n \notin raced => n \in DOMAIN loose /\ file[n] = "whole")
  BY <1>a, RecorderFacts, Naming DEF InOrder, Writes, Writing
<1>c. /\ file[n] \in Lands!State /\ file' = [file EXCEPT ![n] = file[n]]
      /\ s \in Lands!Steps /\ l \in SUBSET Contents /\ l \subseteq recorder[r].left
  BY <1>a, <1>b, RecorderFacts, MemoryType DEF Memory, Lands!Steps
<1>d. recorder[r].at = n /\ (n = r => s = "filed" /\ l = {}) /\ (n # r => s = "content" /\ l = recorder[r].left \ {n})
  OBVIOUS
<1>. HIDE DEF n, s, l
<1>1. Touches(n) /\ Memory' /\ DOMAIN loose' = DOMAIN loose \ {n}
  BY <1>a, <1>b, <1>c, RecorderFacts, Hands
<1>2. Spared(n)
  BY <1>a, <1>b DEF Spared, Given
<1>3. /\ recorder' \in [Recorders -> Recording]
      /\ recorder'[r].step = s /\ recorder'[r].left = l /\ recorder'[r].at = None
      /\ \A q \in Recorders : q # r => recorder'[q] = recorder[q]
  BY <1>a, <1>c, RecorderFacts, Gone
<1>4. InOrder(r)'
  BY <1>a, <1>d, <1>c, <1>3, RecorderFacts DEF InOrder
<1>5. \A c \in Calm(r)' : c \notin l => Given(c)'
  <2>. SUFFICES ASSUME NEW c \in Calm(r)', c \notin l
                PROVE  Given(c)'
    OBVIOUS
  <2>1. CASE c = n
    BY <1>a, <1>b, <1>1, <2>1 DEF Calm, Given
  <2>2. CASE c # n
    <3>1. c \notin recorder[r].left
      BY <1>b, <1>d, <2>2
    <3>. QED
      BY <1>a, <1>1, <1>2, <3>1, BehindStays
  <2>. QED
    BY <2>1, <2>2
<1>6. Follows(r)' /\ Writes(r)' /\ ~Writing(r)'
  BY <1>d, <1>3, <1>5 DEF Follows, Writes, Writing
<1>7. Ends(r)'
  BY <1>a, <1>b, <1>d, <1>1, <1>3 DEF Ends, Given
<1>8. n = r => \A c \in Calm(r) : Given(c) /\ Settled(drive, c, Len(drive) - 1)
  BY <1>b, <1>d, <1>1, <1>2, Settling
<1>9. \A q \in Recorders : q # r /\ Writing(q) /\ recorder[q].at = n => n \in raced'
  BY <1>a, <1>b, <1>d DEF Apart, LandInv
<1>11. n \in Recorders => n = r
  BY <1>b, Naming
<1>12. raced' \subseteq Lands!Names /\ prune' \subseteq Contents /\ None \notin Payloads /\ s # "refused"
  BY <1>a, <1>d, RecorderFacts, Naming
<1>. QED
  BY <1>a, <1>b, <1>1, <1>2, <1>3, <1>4, <1>6, <1>7, <1>8, <1>9, <1>11, <1>12, RecorderFacts, OneStep

\* A barrier settles all that was handed over before it.
LEMMA BarrierKeeps ==
  ASSUME LandInv, NEW r \in Recorders, Lands!Barrier(r)
  PROVE  LandInv'
<1>a. /\ recorder[r].step = "content" /\ recorder[r].left = {} /\ drive' = Lands!Parted
      /\ Lands!Go(r, "revision", {}, None)
      /\ file' = file /\ loose' = loose /\ needs' = needs /\ prune' = prune /\ faults' = faults /\ raced' = raced
  BY DEF Lands!Barrier, Lands!At
<1>1. Touches(None) /\ Memory'
  BY <1>a, RecorderFacts, PartsMemory
<1>3. /\ recorder' \in [Recorders -> Recording]
      /\ recorder'[r].step = "revision" /\ recorder'[r].left = {} /\ recorder'[r].at = None
      /\ \A q \in Recorders : q # r => recorder'[q] = recorder[q]
  BY <1>a, RecorderFacts, Gone DEF Lands!Steps
<1>4. InOrder(r)'
  BY <1>a, <1>3, RecorderFacts DEF InOrder
<1>5. \A c \in Calm(r)' : Given(c)'
  BY <1>a, <1>1, RecorderFacts, BehindStays
<1>6. ASSUME NEW c \in Calm(r)'
      PROVE  Settled(drive', c, Len(drive') - 1)
  <2>1. c \in Lands!Names /\ file[c] = "whole" /\ c \notin DOMAIN loose
    BY <1>a, <1>5, <1>6, RecorderFacts, Naming DEF Given, Calm
  <2>2. drive[Len(drive)].has[c] = "whole" /\ Len(drive) \in Nat /\ Len(drive) >= 2
    BY <2>1, RecorderFacts, MemoryType, Types DEF Memory
  <2>3. /\ Len(drive') = Len(drive) + 1 /\ drive'[Len(drive) + 1].new = {}
        /\ drive'[Len(drive) + 1].has = drive[Len(drive)].has
        /\ \A i \in 1 .. Len(drive) : drive'[i] = drive[i]
    BY <1>a, RecorderFacts, BarrierParts
  <2>4. drive'[Len(drive)] = drive[Len(drive)] /\ Len(drive') - 1 = Len(drive)
        /\ \A i \in Len(drive) + 1 .. Len(drive') : i = Len(drive) + 1
    BY <2>2, <2>3
  <2>. QED
    BY <2>2, <2>3, <2>4 DEF Settled
<1>7. Follows(r)' /\ Writes(r)' /\ Ends(r)' /\ ~Writing(r)'
  BY <1>3, <1>5, <1>6 DEF Follows, Writes, Ends, Writing
<1>8. \A q \in Recorders : Writing(q) => recorder[q].at # None
  BY RecorderFacts, Naming DEF InOrder, Writing
<1>9. raced' \subseteq Lands!Names /\ prune' \subseteq Contents
  BY <1>a, RecorderFacts
<1>. QED
  BY <1>a, <1>1, <1>3, <1>4, <1>7, <1>8, <1>9, RecorderFacts, Naming, OneStep

\* Nobody writes no file.
LEMMA NobodyThere ==
  /\ None \notin Recorders /\ None \notin Payloads
  /\ LandInv => \A q \in Recorders : Writing(q) => recorder[q].at # None
<1>1. None \notin Recorders /\ None \notin Payloads
  BY Naming
<1>2. ASSUME LandInv, NEW q \in Recorders, Writing(q)
      PROVE  recorder[q].at # None
  BY <1>2, RecorderFacts, Naming DEF InOrder, Writing
<1>. QED
  BY <1>1, <1>2

\* A plan removes nothing yet.
LEMMA PlanKeeps ==
  ASSUME LandInv, Lands!Plan
  PROVE  LandInv'
<1>a. /\ prune' \subseteq Contents /\ faults' = [faults EXCEPT !.prunes = @ - 1] /\ faults.prunes > 0
      /\ needs' = needs /\ file' = file /\ loose' = loose /\ drive' = drive
      /\ recorder' = recorder /\ raced' = raced
  BY Naming DEF Lands!Plan
<1>b. /\ Lands!TypeOK /\ recorder \in [Recorders -> Recording] /\ raced \subseteq Lands!Names
      /\ faults \in [stops : Nat, cuts : Nat, prunes : Nat]
  BY Types DEF LandInv, Lands!TypeOK
<1>1. Touches(None) /\ Memory' /\ Spared(None)
  BY <1>a, <1>b, Still, Naming DEF Spared
<1>2. faults' \in [stops : Nat, cuts : Nat, prunes : Nat] /\ faults'.cuts = faults.cuts
  BY <1>a, <1>b
<1>. QED
  BY <1>a, <1>b, <1>1, <1>2, NobodyThere, OneStep

\* What a prune removes from under a recorder is raced for.
LEMMA RemoveKeeps ==
  ASSUME LandInv, Lands!Remove
  PROVE  LandInv'
<1>0. PICK c \in prune :
        /\ file' = [file EXCEPT ![c] = None] /\ Lands!HandOver(c, None) /\ loose' = Lands!Without(c)
        /\ prune' = prune \ {c}
        /\ raced' = IF \E r \in Recorders : c \in needs[r] THEN raced \cup {c} ELSE raced
  BY DEF Lands!Remove
<1>a. needs' = needs /\ recorder' = recorder /\ faults' = faults
  BY DEF Lands!Remove
<1>b. /\ Lands!TypeOK /\ recorder \in [Recorders -> Recording] /\ raced \subseteq Lands!Names
      /\ faults \in [stops : Nat, cuts : Nat, prunes : Nat] /\ prune \subseteq Contents
      /\ None \in Lands!State
  BY Types, Naming DEF LandInv, Lands!TypeOK
<1>c. c \in Contents /\ c \in Lands!Names /\ c \notin Recorders
  BY <1>b, Naming
<1>d. raced \subseteq raced' /\ raced' \subseteq Lands!Names /\ prune' \subseteq Contents
  BY <1>0, <1>b, <1>c
<1>1. Touches(c) /\ Memory' /\ file'[c] = None
  BY <1>0, <1>a, <1>b, <1>c, <1>d, Hands
<1>2. Spared(c)
  BY <1>0 DEF Spared
<1>3. ASSUME NEW q \in Recorders, Writing(q), recorder[q].at = c
      PROVE  c \in raced'
  <2>1. c \in needs[q]
    BY <1>3, <1>c, RecorderFacts DEF InOrder, Writing
  <2>. QED
    BY <1>0, <2>1
<1>4. \A p \in Payloads : file'[p] = "part" => file[p] = "part"
  BY <1>1, Naming, Elsewhere
<1>. QED
  BY <1>a, <1>b, <1>c, <1>d, <1>1, <1>2, <1>3, <1>4, NobodyThere, OneStep

\* A recorder that is stopped starts again.
LEMMA StopKeeps ==
  ASSUME LandInv, NEW r \in Recorders, Lands!Stop(r)
  PROVE  LandInv'
<1>a. /\ faults' = [faults EXCEPT !.stops = @ - 1] /\ faults.stops > 0
      /\ recorder' = [recorder EXCEPT ![r] = Lands!Start(r)]
      /\ needs' = needs /\ file' = file /\ loose' = loose /\ drive' = drive
      /\ prune' = prune /\ raced' = raced
  BY DEF Lands!Stop
<1>b. /\ Lands!TypeOK /\ recorder \in [Recorders -> Recording] /\ raced \subseteq Lands!Names
      /\ faults \in [stops : Nat, cuts : Nat, prunes : Nat] /\ prune \subseteq Contents
  BY Types, Naming DEF LandInv, Lands!TypeOK
<1>1. Touches(None) /\ Memory' /\ Spared(None)
  BY <1>a, <1>b, Still, Naming DEF Spared
<1>2. faults' \in [stops : Nat, cuts : Nat, prunes : Nat] /\ faults'.cuts = faults.cuts
  BY <1>a, <1>b
<1>3. Lands!Start(r) \in Recording
  BY RecorderFacts DEF Lands!Start, Recording, Lands!Steps
<1>4. recorder' \in [Recorders -> Recording] /\ \A q \in Recorders : recorder'[q] = recorder[q] \/ Restarts(q)
  <2>. DEFINE start == Lands!Start(r)
  <2>1. start.step = "content" /\ start.left = needs[r] /\ start.at = None
    BY DEF Lands!Start
  <2>. HIDE DEF start
  <2>2. start \in Recording /\ recorder' = [recorder EXCEPT ![r] = start]
    BY <1>a, <1>3 DEF start
  <2>. QED
    BY <1>b, <2>1, <2>2 DEF Restarts
<1>5. prune' \subseteq Contents /\ raced' \subseteq Lands!Names
  BY <1>a, <1>b
<1>. QED
  BY <1>a, <1>b, <1>1, <1>2, <1>4, <1>5, NobodyThere, OneStep

\* Only a file in part is deleted, and nobody is writing it.
LEMMA DeleteKeeps ==
  ASSUME LandInv, Lands!Delete
  PROVE  LandInv'
<1>0. PICK n \in Lands!Names :
        /\ file[n] = "part"
        /\ \A r \in Recorders : ~(recorder[r].at = n /\ ~Lands!At(r, "refused"))
        /\ file' = [file EXCEPT ![n] = None] /\ loose' = Lands!Without(n) /\ Lands!HandOver(n, None)
        /\ recorder' = [r \in Recorders |-> IF Lands!At(r, "refused") /\ recorder[r].at = n
                                            THEN Lands!Start(r) ELSE recorder[r]]
  BY DEF Lands!Delete
<1>a. needs' = needs /\ prune' = prune /\ raced' = raced /\ faults' = faults
  BY DEF Lands!Delete
<1>b. /\ Lands!TypeOK /\ recorder \in [Recorders -> Recording] /\ raced \subseteq Lands!Names
      /\ faults \in [stops : Nat, cuts : Nat, prunes : Nat] /\ prune \subseteq Contents
      /\ None \in Lands!State
  BY Types, Naming DEF LandInv, Lands!TypeOK
<1>1. Touches(n) /\ Memory' /\ file'[n] = None /\ DOMAIN loose' = DOMAIN loose \ {n}
  BY <1>0, <1>a, <1>b, Hands
<1>2. Spared(n)
  BY <1>0, Naming DEF Spared, Given
<1>3. \A q \in Recorders : Lands!Start(q) \in Recording
  BY RecorderFacts DEF Lands!Start, Recording, Lands!Steps
<1>4. recorder' \in [Recorders -> Recording] /\ \A q \in Recorders : recorder'[q] = recorder[q] \/ Restarts(q)
  BY <1>0, <1>b, <1>3 DEF Restarts, Lands!Start
<1>5. \A q \in Recorders : Writing(q) => recorder[q].at # n
  BY <1>0 DEF Writing, Lands!At
<1>6. \A p \in Payloads : file'[p] = "part" => file[p] = "part"
  BY <1>0, <1>1, Naming, Elsewhere
<1>7. prune' \subseteq Contents /\ raced' \subseteq Lands!Names
  BY <1>a, <1>b
<1>8. CASE n \notin Recorders
  <2>1. n \in Contents
    BY <1>8, Naming
  <2>. QED
    BY <1>a, <1>b, <1>1, <1>2, <1>4, <1>5, <1>6, <1>7, <1>8, <2>1, NobodyThere, OneStep
<1>9. CASE n \in Recorders
  <2>1. CASE Restarts(n)
    <3>1. InOrder(n)' /\ Follows(n)' /\ Writes(n)' /\ Ends(n)'
      BY <1>9, <1>a, <2>1, Restarted
    <3>2. ~Writing(n)' /\ recorder'[n].step # "refused"
      BY <2>1 DEF Restarts, Writing
    <3>. QED
      BY <1>0, <1>a, <1>b, <1>1, <1>2, <1>4, <1>5, <1>6, <1>7, <1>9, <3>1, <3>2, OneStep
  <2>2. CASE recorder'[n] = recorder[n]
    <3>1. InOrder(n)'
      BY <1>9, <1>a, <2>2, RecorderFacts DEF InOrder
    <3>2. recorder[n].step # "named" => \A c \in Calm(n)' : c \notin recorder[n].left => Given(c)'
      BY <1>9, <1>1, <1>2, BehindStays
    <3>3. recorder[n].step = "revision" => \A c \in Calm(n)' : Settled(drive', c, Len(drive') - 1)
      BY <1>9, <1>1, <1>2, Settling
    <3>4. ~(Writing(n) /\ recorder[n].at = n) /\ (Writing(n)' <=> Writing(n))
      BY <1>5, <1>9, <2>2 DEF Writing
    <3>5. Follows(n)'
      BY <2>2, <3>2, <3>3, <3>4 DEF Follows
    <3>6. Writes(n)'
      <4>. SUFFICES ASSUME Writing(n), recorder[n].at \notin raced
                    PROVE  /\ recorder[n].at \in DOMAIN loose'
                           /\ file'[recorder[n].at] = IF recorder[n].step = "fill" THEN "part" ELSE "whole"
        BY <1>a, <2>2 DEF Writes, Writing
      <4>1. /\ recorder[n].at \in DOMAIN loose
            /\ file[recorder[n].at] = IF recorder[n].step = "fill" THEN "part" ELSE "whole"
        BY <1>9, RecorderFacts DEF Writes
      <4>2. recorder[n].at \in Lands!Names /\ recorder[n].at # n
        BY <1>5, <1>9, <1>b, <4>1, MemoryType DEF Memory
      <4>. QED
        BY <1>1, <4>1, <4>2, Elsewhere
    <3>7. recorder[n].step \in {"filed", "named"} => n \in raced
      <4>1. ASSUME recorder[n].step = "filed", n \notin raced
            PROVE  FALSE
        BY <1>0, <1>9, <4>1, RecorderFacts, Naming DEF Ends, Given
      <4>2. ASSUME recorder[n].step = "named", n \notin raced
            PROVE  FALSE
        <5>1. n \notin DOMAIN loose /\ Settled(drive, n, 1)
          BY <1>9, <4>2, RecorderFacts DEF Ends
        <5>2. Len(drive) \in Nat /\ Len(drive) >= 2 /\ Len(drive) \in 2 .. Len(drive)
          BY <1>b, Types
        <5>3. drive[Len(drive)].has[n] = "whole"
          BY <5>1, <5>2 DEF Settled
        <5>. QED
          BY <1>0, <1>b, <5>1, <5>3, MemoryType, Types, Naming DEF Memory
      <4>. QED
        BY <4>1, <4>2
    <3>8. Ends(n)'
      BY <1>a, <2>2, <3>7 DEF Ends
    <3>. QED
      BY <1>0, <1>a, <1>b, <1>1, <1>2, <1>4, <1>5, <1>6, <1>7, <1>9, <2>2, <3>1, <3>4, <3>5, <3>6, <3>8, OneStep
  <2>. QED
    BY <1>4, <1>9, <2>1, <2>2
<1>. QED
  BY <1>8, <1>9

\* What was handed over, the drive's last set has.
LEMMA InTheEnd ==
  ASSUME Lands!TypeOK, NEW n \in Lands!Names
  PROVE  /\ Len(drive) \in Nat /\ Len(drive) >= 2
         /\ n \notin DOMAIN loose => file[n] = drive[Len(drive)].has[n]
         /\ \A j \in 1 .. Len(drive) : Settled(drive, n, j) => drive[Len(drive)].has[n] = "whole"
<1>1. Len(drive) \in Nat /\ Len(drive) >= 2 /\ Lands!Last = drive[Len(drive)]
  BY Types
<1>2. ASSUME NEW j \in 1 .. Len(drive), Settled(drive, n, j)
      PROVE  drive[Len(drive)].has[n] = "whole"
  <2>1. CASE j = Len(drive)
    BY <1>2, <2>1 DEF Settled
  <2>2. CASE j # Len(drive)
    <3>1. Len(drive) \in j + 1 .. Len(drive)
      BY <1>1, <2>2
    <3>. QED
      BY <1>2, <3>1 DEF Settled
  <2>. QED
    BY <2>1, <2>2
<1>. QED
  BY <1>1, <1>2, MemoryType DEF Memory

\* The bookmark's write settles all that was handed over.
LEMMA BookmarkKeeps ==
  ASSUME LandInv, NEW r \in Recorders, Lands!Bookmark(r)
  PROVE  LandInv'
<1>. DEFINE h == Lands!Last.has
<1>a. /\ recorder[r].step = "filed" /\ drive' = Lands!Landed(h) /\ loose' = [n \in DOMAIN loose |-> 2]
      /\ Lands!Go(r, "named", {}, None)
      /\ file' = file /\ needs' = needs /\ prune' = prune /\ faults' = faults /\ raced' = raced
  BY DEF Lands!Bookmark, Lands!At, Lands!Drained
<1>b. /\ Lands!TypeOK /\ Len(drive) \in Nat /\ Len(drive) >= 2 /\ h = drive[Len(drive)].has
      /\ Apart /\ Torn /\ Len(drive) \in 1 .. Len(drive)
  BY Types DEF LandInv
<1>c. h \in [Lands!Names -> Lands!State]
  BY <1>b, Types
<1>. HIDE DEF h
<1>1. /\ drive' \in Drives /\ Len(drive') = 2 /\ drive'[1].has = h /\ drive'[2].has = h
      /\ drive'[1].new = {} /\ drive'[2].new = {} /\ Lands!Last' = drive'[2]
  BY <1>a, <1>c, AllLanded
<1>2. DOMAIN loose' = DOMAIN loose /\ \A n \in DOMAIN loose : loose'[n] = 2
  BY <1>a
<1>3. Memory'
  <2>1. \A n \in Lands!Names \ DOMAIN loose : file[n] = h[n]
    BY <1>b, InTheEnd
  <2>. QED
    BY <1>a, <1>b, <1>1, <1>2, <2>1, MemoryType DEF Memory
<1>4. /\ recorder' \in [Recorders -> Recording]
      /\ recorder'[r].step = "named" /\ recorder'[r].left = {} /\ recorder'[r].at = None
      /\ \A q \in Recorders : q # r => recorder'[q] = recorder[q]
  BY <1>a, <1>b, Gone DEF Lands!Steps
<1>5. \A c \in Lands!Names : h[c] = "whole" => Settled(drive', c, 1)
  <2>1. \A i \in 2 .. Len(drive') : i = 2
    BY <1>1
  <2>. QED
    BY <1>1, <2>1 DEF Settled
<1>6. \A c \in Lands!Names : (Given(c)' <=> Given(c)) /\ (Given(c) => Settled(drive', c, 1))
  BY <1>a, <1>b, <1>2, <1>5, InTheEnd DEF Given
<1>7. \A q \in Recorders : Calm(q)' = Calm(q) /\ Calm(q) \subseteq Lands!Names
  BY <1>a, <1>b, Types, Naming DEF Calm
<1>8. ASSUME NEW q \in Recorders
      PROVE  InOrder(q)' /\ Follows(q)' /\ Writes(q)' /\ Ends(q)' /\ Before(q)'
  <2>0. /\ InOrder(q) /\ Follows(q) /\ Writes(q) /\ Ends(q) /\ Before(q) /\ q \in Lands!Names
        /\ r \in Lands!Names /\ r # None
    BY RecorderFacts
  <2>1. InOrder(q)'
    <3>1. CASE q = r
      BY <1>4, <2>0, <3>1 DEF InOrder
    <3>2. CASE q # r
      BY <1>a, <1>4, <2>0, <3>2 DEF InOrder
    <3>. QED
      BY <3>1, <3>2
  <2>2. Writes(q)'
    <3>1. CASE q = r
      BY <1>4, <3>1 DEF Writes, Writing
    <3>2. CASE q # r
      BY <1>a, <1>2, <1>4, <2>0, <3>2 DEF Writes, Writing
    <3>. QED
      BY <3>1, <3>2
  <2>3. Follows(q)'
    <3>1. CASE q = r
      BY <1>4, <2>0, <3>1 DEF Follows, Writing
    <3>2. CASE q # r
      <4>1. recorder[q].step # "named" => \A c \in Calm(q)' \ recorder[q].left : Given(c)'
        BY <1>6, <1>7, <2>0 DEF Follows
      <4>2. ASSUME recorder[q].step = "revision" \/ (Writing(q) /\ recorder[q].at = q), NEW c \in Calm(q)'
            PROVE  Settled(drive', c, Len(drive') - 1)
        <5>1. recorder[q].left = {} /\ recorder[q].step # "named"
          BY <2>0, <4>2 DEF InOrder, Writing
        <5>2. Given(c) /\ c \in Lands!Names
          BY <1>7, <2>0, <4>2, <5>1 DEF Follows
        <5>. QED
          BY <1>1, <1>6, <5>2
      <4>. QED
        BY <1>4, <3>2, <4>1, <4>2 DEF Follows, Writing
    <3>. QED
      BY <3>1, <3>2
  <2>4. Ends(q)'
    <3>1. CASE q = r
      <4>1. q \notin raced => Given(q)
        BY <1>a, <2>0, <3>1 DEF Ends
      <4>. QED
        BY <1>a, <1>2, <1>4, <1>6, <2>0, <3>1, <4>1 DEF Ends, Given
    <3>2. CASE q # r
      <4>1. q \notin raced /\ recorder[q].step = "named" => q \notin DOMAIN loose' /\ Settled(drive', q, 1)
        BY <1>b, <1>2, <1>5, <2>0, InTheEnd DEF Ends
      <4>2. q \notin raced /\ recorder[q].step = "filed" => Given(q)'
        BY <1>6, <2>0 DEF Ends
      <4>. QED
        BY <1>a, <1>4, <3>2, <4>1, <4>2 DEF Ends
    <3>. QED
      BY <3>1, <3>2
  <2>5. Before(q)'
    <3>. SUFFICES ASSUME NEW c \in Calm(q)', q \in DOMAIN loose' \/ h[q] = "whole"
                  PROVE  Given(c)' /\ Settled(drive', c, 1)
      <4>1. \A i \in 1 .. Len(drive') : drive'[i].has = h /\ (i = 1 \/ i - 1 = 1)
        BY <1>1
      <4>2. q \in DOMAIN loose' => loose'[q] - 1 = 1
        BY <1>2
      <4>. QED
        BY <4>1, <4>2 DEF Before
    <3>1. Given(c)
      BY <1>b, <1>2, <1>7, <2>0 DEF Before
    <3>. QED
      BY <1>6, <1>7, <3>1
  <2>. QED
    BY <2>1, <2>2, <2>3, <2>4, <2>5
<1>9. Apart'
  BY <1>a, <1>b, <1>4 DEF Apart, Writing
<1>10. Torn'
  <2>1. CutBefore' <=> CutBefore
    BY <1>a DEF CutBefore
  <2>. QED
    BY <1>a, <1>b, <1>4, <2>1 DEF Torn
<1>11. Lands!TypeOK'
  <2>1. prune' \subseteq Contents /\ raced' \subseteq Lands!Names /\ faults' \in [stops : Nat, cuts : Nat, prunes : Nat]
    BY <1>a, RecorderFacts
  <2>. QED
    BY <1>a, <1>b, <1>3, <1>4, <2>1, TypesKept
<1>. QED
  BY <1>8, <1>9, <1>10, <1>11 DEF LandInv

\* A cut keeps what had settled before the set it reached, so the content before its revision.
LEMMA CutKeeps ==
  ASSUME LandInv, Lands!Cut
  PROVE  LandInv'
<1>. DEFINE before(k) == drive[k - 1].has
            after(k) == drive[k].has
            Reached(n, k) == n \in DOMAIN loose /\ loose[n] <= k
            Left(n, k) == Lands!Survives(before(k)[n], after(k)[n])
                          \cup (IF Reached(n, k) THEN Lands!Survives(before(k)[n], file[n]) ELSE {})
<1>0. PICK k \in 2 .. Len(drive), kept \in [Lands!Names -> Lands!State] :
        /\ \A n \in Lands!Names :
             kept[n] \in (IF Reached(n, k) \/ n \in drive[k].new THEN Left(n, k) ELSE {before(k)[n]})
        /\ file' = kept /\ drive' = Lands!Landed(kept)
  BY DEF Lands!Cut
<1>a. /\ faults.cuts > 0 /\ loose' = <<>> /\ prune' = {} /\ needs' = needs /\ raced' = raced
      /\ recorder' = [r \in Recorders |-> IF Lands!At(r, "named") THEN recorder[r] ELSE Lands!Start(r)]
      /\ faults' = [faults EXCEPT !.cuts = @ - 1]
  BY DEF Lands!Cut
<1>b. /\ Lands!TypeOK /\ Len(drive) \in Nat /\ Len(drive) >= 2 /\ Torn
      /\ recorder \in [Recorders -> Recording]
      /\ faults \in [stops : Nat, cuts : Nat, prunes : Nat] /\ raced \subseteq Lands!Names
  BY Types DEF LandInv, Lands!TypeOK
<1>1. /\ drive' \in Drives /\ Len(drive') = 2 /\ drive'[1].has = kept /\ drive'[2].has = kept
      /\ drive'[1].new = {} /\ drive'[2].new = {} /\ Lands!Last' = drive'[2]
  BY <1>0, AllLanded
<1>2. DOMAIN loose' = {}
  BY <1>a
<1>3. Memory'
  BY <1>0, <1>1, <1>2 DEF Memory
<1>4. \A q \in Recorders : Lands!Start(q) \in Recording
  BY RecorderFacts DEF Lands!Start, Recording, Lands!Steps
<1>5. /\ recorder' \in [Recorders -> Recording]
      /\ \A q \in Recorders : \/ recorder[q].step = "named" /\ recorder'[q] = recorder[q]
                              \/ Restarts(q)
  BY <1>a, <1>b, <1>4 DEF Restarts, Lands!Start, Lands!At
<1>6. \A c \in Lands!Names : kept[c] = "whole" => Given(c)' /\ Settled(drive', c, 1)
  <2>1. \A i \in 2 .. Len(drive') : i = 2
    BY <1>1
  <2>. QED
    BY <1>0, <1>1, <1>2, <2>1 DEF Settled, Given
\* What had landed before the set that the cut reached, and was not touched since, is there.
<1>7. ASSUME NEW c \in Lands!Names, c \notin DOMAIN loose, NEW j \in 1 .. k - 1, Settled(drive, c, j)
      PROVE  kept[c] = "whole"
  <2>1. j \in 1 .. Len(drive) /\ k - 1 \in j .. Len(drive) /\ k \in k - 1 + 1 .. Len(drive)
    BY <1>b
  <2>2. Settled(drive, c, k - 1)
    BY <1>b, <1>7, <2>1, SettledLater
  <2>3. c \notin drive[k].new /\ before(k)[c] = "whole"
    BY <2>1, <2>2 DEF Settled
  <2>. QED
    BY <1>0, <1>7, <2>3
<1>8. ASSUME NEW q \in Recorders, NEW c \in Calm(q)', kept[q] = "whole"
      PROVE  kept[c] = "whole"
  <2>0. c \in Calm(q) /\ q \in Lands!Names /\ c \in Lands!Names /\ Before(q)
    BY <1>a, <1>8, RecorderFacts, Naming DEF Calm
  <2>1. k \in 1 .. Len(drive) /\ k - 1 \in 1 .. Len(drive) /\ k # 1 /\ k \in Nat
    BY <1>b
  <2>2. CASE before(k)[q] = "whole"
    <3>1. Given(c) /\ Settled(drive, c, IF k - 1 = 1 THEN 1 ELSE k - 1 - 1)
      BY <2>0, <2>1, <2>2 DEF Before
    <3>2. (IF k - 1 = 1 THEN 1 ELSE k - 1 - 1) \in 1 .. k - 1
      BY <2>1
    <3>. QED
      BY <1>7, <2>0, <3>1, <3>2 DEF Given
  <2>3. CASE after(k)[q] = "whole"
    <3>1. Given(c) /\ Settled(drive, c, k - 1)
      BY <2>0, <2>1, <2>3 DEF Before
    <3>2. k - 1 \in 1 .. k - 1
      BY <2>1
    <3>. QED
      BY <1>7, <2>0, <3>1, <3>2 DEF Given
  <2>4. CASE Reached(q, k)
    <3>1. Given(c) /\ Settled(drive, c, loose[q] - 1)
      BY <2>0, <2>4 DEF Before
    <3>2. loose[q] - 1 \in 1 .. k - 1
      BY <1>b, <2>1, <2>4, MemoryType DEF Memory
    <3>. QED
      BY <1>7, <2>0, <3>1, <3>2 DEF Given
  <2>5. before(k)[q] = "whole" \/ after(k)[q] = "whole" \/ Reached(q, k)
    <3>1. kept[q] \in Lands!Survives(before(k)[q], after(k)[q]) \/ kept[q] = before(k)[q] \/ Reached(q, k)
      BY <1>0, <2>0
    <3>. QED
      BY <1>8, <3>1, Naming DEF Lands!Survives
  <2>. QED
    BY <2>2, <2>3, <2>4, <2>5
<1>9. ASSUME NEW q \in Recorders
      PROVE  InOrder(q)' /\ Follows(q)' /\ Writes(q)' /\ Ends(q)' /\ Before(q)'
  <2>1. Before(q)'
    <3>1. \A i \in 1 .. Len(drive') : drive'[i].has = kept /\ (i = 1 \/ i - 1 = 1)
      BY <1>1
    <3>2. \A c \in Calm(q)' : c \in Lands!Names
      BY <1>a, <1>b, Types, Naming DEF Calm
    <3>. QED
      BY <1>2, <1>6, <1>8, <3>1, <3>2 DEF Before
  <2>2. CASE Restarts(q)
    BY <1>a, <2>1, <2>2, Restarted
  <2>3. CASE recorder[q].step = "named" /\ recorder'[q] = recorder[q]
    <3>0. InOrder(q) /\ Ends(q) /\ q \in Lands!Names
      BY RecorderFacts
    <3>1. InOrder(q)' /\ Follows(q)' /\ Writes(q)'
      BY <1>a, <2>3, <3>0 DEF InOrder, Follows, Writes, Writing
    <3>2. q \notin raced => q \notin DOMAIN loose /\ Settled(drive, q, 1)
      BY <2>3, <3>0 DEF Ends
    <3>3. 1 \in 1 .. k - 1
      BY <1>b
    <3>4. q \notin raced => Settled(drive', q, 1)
      BY <1>6, <1>7, <3>0, <3>2, <3>3
    <3>. QED
      BY <1>a, <1>2, <2>1, <2>3, <3>1, <3>4 DEF Ends
  <2>. QED
    BY <1>5, <2>2, <2>3
<1>10. Apart'
  BY <1>5 DEF Apart, Writing, Restarts
<1>11. Torn'
  <2>1. PICK f \in Faults : f.cuts >= faults.cuts
    BY <1>b DEF Torn
  <2>2. f.cuts \in Nat
    BY <2>1, JobsAssumption
  <2>3. faults'.cuts = faults.cuts - 1 /\ faults.cuts \in Nat
    BY <1>a, <1>b
  <2>4. f.cuts > faults'.cuts /\ f.cuts >= faults'.cuts
    BY <2>1, <2>2, <2>3
  <2>. QED
    BY <2>4 DEF Torn, CutBefore
<1>12. Lands!TypeOK'
  <2>1. prune' \subseteq Contents /\ raced' \subseteq Lands!Names /\ faults' \in [stops : Nat, cuts : Nat, prunes : Nat]
    BY <1>a, <1>b
  <2>. QED
    BY <1>a, <1>b, <1>3, <1>5, <2>1, TypesKept
<1>. QED
  BY <1>9, <1>10, <1>11, <1>12 DEF LandInv

\* A store is empty at first, and nobody has begun.
LEMMA LandAtFirst ==
  Lands!Init => LandInv
<1>. SUFFICES ASSUME Lands!Init
              PROVE  LandInv
  OBVIOUS
<1>0. /\ needs \in Jobs /\ file = [n \in Lands!Names |-> None] /\ drive = Lands!Landed(file) /\ loose = <<>>
      /\ recorder = [r \in Recorders |-> [step |-> "content", left |-> needs[r], at |-> None]]
      /\ prune = {} /\ raced = {} /\ faults \in Faults
  BY DEF Lands!Init
<1>1. needs \in [Recorders -> SUBSET Contents] /\ faults \in [stops : Nat, cuts : Nat, prunes : Nat]
      /\ file \in [Lands!Names -> Lands!State]
  BY <1>0, JobsAssumption, Naming DEF Contents
<1>. DEFINE set == Lands!Set(file, {})
<1>2. set \in [has : [Lands!Names -> Lands!State], new : SUBSET Lands!Names] /\ set.has = file /\ set.new = {}
  BY <1>1 DEF Lands!Set
<1>. HIDE DEF set
<1>3. drive = <<set, set>>
  BY <1>0 DEF Lands!Landed, set
<1>4. /\ drive \in Seq([has : [Lands!Names -> Lands!State], new : SUBSET Lands!Names]) /\ Len(drive) = 2
      /\ \A i \in 1 .. Len(drive) : drive[i].has = file /\ drive[i].new = {}
  BY <1>2, <1>3
<1>5. DOMAIN loose = {}
  BY <1>0
<1>6. Lands!Last.has = file
  BY <1>4 DEF Lands!Last
<1>7. recorder \in [Recorders -> Recording]
  <2>1. \A r \in Recorders : [step |-> "content", left |-> needs[r], at |-> None] \in Recording
    BY <1>1 DEF Recording, Lands!Steps
  <2>. QED
    BY <1>0, <2>1
<1>8. Lands!TypeOK
  BY <1>0, <1>1, <1>4, <1>5, <1>6, <1>7, Naming DEF Lands!TypeOK, Recording
<1>9. Apart
  BY <1>0 DEF Apart, Writing
<1>10. Torn
  BY <1>0, <1>1, Naming DEF Torn
<1>11. ASSUME NEW r \in Recorders
       PROVE  InOrder(r) /\ Follows(r) /\ Writes(r) /\ Ends(r) /\ Before(r)
  <2>1. /\ recorder[r].step = "content" /\ recorder[r].left = needs[r] /\ recorder[r].at = None
        /\ r # None /\ r \in Lands!Names /\ None # "whole"
    BY <1>0, Naming
  <2>2. \A i \in 1 .. Len(drive) : drive[i].has[r] # "whole"
    BY <1>0, <1>4, <2>1
  <2>. QED
    BY <1>5, <2>1, <2>2 DEF InOrder, Follows, Writes, Writing, Ends, Before, Calm
<1>. QED
  BY <1>8, <1>9, <1>10, <1>11 DEF LandInv

\* Every step keeps it.
LEMMA LandStep ==
  LandInv /\ [Lands!Next]_landsVars => LandInv'
<1>. SUFFICES ASSUME LandInv, [Lands!Next]_landsVars
              PROVE  LandInv'
  OBVIOUS
<1>1. ASSUME NEW r \in Recorders, Lands!Record(r) \/ Lands!Stop(r)
      PROVE  LandInv'
  BY <1>1, HoldKeeps, CreateKeeps, FillKeeps, StageKeeps, RenameKeeps, PushKeeps, BarrierKeeps, BookmarkKeeps,
     StopKeeps DEF Lands!Record
<1>2. CASE UNCHANGED landsVars
  BY <1>2 DEF landsVars, LandInv, Lands!TypeOK, Apart, Torn, CutBefore, InOrder, Follows, Writes, Ends, Before, Writing,
     Calm, Given, Lands!Last
<1>. QED
  BY <1>1, <1>2, PlanKeeps, RemoveKeeps, CutKeeps, DeleteKeeps DEF Lands!Next

\* What is before its revision is there when the revision can be read.
LEMMA LandIsSafe ==
  LandInv => /\ Lands!TypeOK /\ Lands!OnlyRacesLoseContent
             /\ Lands!NamedIsDurable /\ Lands!PayloadsDoNotMeet
<1>. SUFFICES ASSUME LandInv
              PROVE  /\ Lands!TypeOK /\ Lands!OnlyRacesLoseContent
                     /\ Lands!NamedIsDurable /\ Lands!PayloadsDoNotMeet
  OBVIOUS
<1>1. ASSUME NEW r \in Recorders, file[r] = "whole", NEW c \in needs[r] \ raced
      PROVE  file[c] = "whole"
  <2>0. Lands!TypeOK /\ Before(r) /\ r \in Lands!Names /\ c \in Calm(r)
    BY <1>1, RecorderFacts DEF Calm
  <2>1. CASE r \in DOMAIN loose
    BY <2>0, <2>1 DEF Before, Given
  <2>2. CASE r \notin DOMAIN loose
    <3>1. drive[Len(drive)].has[r] = "whole" /\ Len(drive) \in 1 .. Len(drive)
      BY <1>1, <2>0, <2>2, InTheEnd
    <3>. QED
      BY <2>0, <3>1 DEF Before, Given
  <2>. QED
    BY <2>1, <2>2
<1>2. ASSUME NEW r \in Recorders, r \notin raced, recorder[r].step = "named"
      PROVE  file[r] = "whole"
  <2>1. Lands!TypeOK /\ r \in Lands!Names /\ r \notin DOMAIN loose /\ Settled(drive, r, 1)
    BY <1>2, RecorderFacts DEF Ends
  <2>2. 1 \in 1 .. Len(drive)
    BY <2>1, InTheEnd
  <2>. QED
    BY <2>1, <2>2, InTheEnd
<1>. QED
  BY <1>1, <1>2 DEF LandInv, Torn, CutBefore, Lands!OnlyRacesLoseContent, Lands!NamedIsDurable,
     Lands!PayloadsDoNotMeet, Lands!Filed, Lands!At

-----------------------------------------------------------------------------
(* Nothing goes by halves.                                                   *)

\* The one invariant where documents are forgotten, the other where they land.
HalvesInv ==
  /\ TypeOK
  /\ part = "forgetting" => ThoroughInv
  /\ part = "landing" => LandInv

\* Where a step of one component is taken, the other's variables stand still.
LEMMA HalvesStep ==
  ASSUME Alone
  PROVE  HalvesInv /\ [MCNext]_<<part, vars, landsVars>> => HalvesInv'
<1>. SUFFICES ASSUME HalvesInv, [MCNext]_<<part, vars, landsVars>>
              PROVE  HalvesInv'
  OBVIOUS
<1>1. part' = part
  BY DEF MCNext
<1>a. TypeOK'
  <2>1. CASE [Next]_vars
    BY <2>1, TypeInvariance DEF HalvesInv, Next
  <2>2. CASE [Unsynced]_vars
    BY <2>2, TypeInvariance DEF HalvesInv, Unsynced
  <2>. QED
    BY <2>1, <2>2 DEF MCNext
<1>2. CASE part = "forgetting"
  <2>1. [Unsynced]_vars
    BY <1>2 DEF MCNext
  <2>. DEFINE kinds == {"record", "forget", "receive"}
  <2>2. "sync" \notin kinds /\ [Acts(kinds, Step)]_vars
    BY <2>1 DEF Unsynced
  <2>. HIDE DEF kinds
  <2>3. ThoroughInv'
    BY <1>2, <2>2, Thoroughness DEF HalvesInv
  <2>. QED
    BY <1>1, <1>a, <1>2, <2>3 DEF HalvesInv
<1>3. CASE part = "landing"
  <2>1. [Lands!Next]_landsVars
    BY <1>3 DEF MCNext
  <2>. QED
    BY <1>1, <1>a, <1>3, <2>1, LandStep DEF HalvesInv
<1>. QED
  BY <1>1, <1>a, <1>2, <1>3 DEF HalvesInv

\* Where one command runs at a time and no sync copies files in, stopped
\* anywhere, a forget that is done has destroyed every original with a quote.
\* And however many record, stop, lose the power and prune, with sets of any
\* number on their way to the drive: a revision that can be read finds all that
\* it names but what somebody raced for, a revision with a bookmark outlives
\* every cut, and without a cut nobody meets another's payload in part.
THEOREM HalvesNever ==
  ASSUME Alone
  PROVE  MCSpec => []NothingGoesByHalves
<1>1. MCInit => HalvesInv
  BY Initially, ThoroughAtFirst, LandAtFirst DEF IInv, MCInit, HalvesInv
<1>2. HalvesInv /\ [MCNext]_<<part, vars, landsVars>> => HalvesInv'
  BY HalvesStep
<1>3. HalvesInv => NothingGoesByHalves
  BY ThoroughIsGone, LandIsSafe DEF HalvesInv, NothingGoesByHalves
<1>. QED
  BY <1>1, <1>2, <1>3, PTL DEF MCSpec
=============================================================================
