---- MODULE Stating ----
(* Head statements of historica-minisign: one key, used in several copies   *)
(* of a store, states the heads a copy has under a rising count, and each   *)
(* copy remembers the highest it has witnessed. Histories are amended,      *)
(* pruned and received meanwhile, and a copy may be put back as it was,     *)
(* which what it has witnessed is there to show. A statement stands for its *)
(* digest, and a signature for the statement it was made over.              *)
EXTENDS Naturals, FiniteSets, FiniteSetsExt, SequencesExt, Functions

CONSTANTS Copies, Procs,
          Acts,     \* the kinds of command in the run
          MaxActs,  \* bound: commands begun
          MaxStops, \* bound: commands stopped partway
          MaxRevs,  \* bound: revisions written
          MaxDays   \* bound: days the clock counts

VARIABLES rev,      \* every revision written: what it stands on and what it supersedes
          held,     \* the revisions each copy holds
          doc, sig, \* claims/heads/: each copy's statements and signatures, by name
          seen,     \* trust/seen/: the statement each copy has witnessed
          revoked,  \* when each copy says the key was revoked
          backup,   \* what each copy may be put back to
          job, now, acts, stops,
          lost,     \* the revisions a copy, or one it received from, was put back to before
          back,     \* copies put back since they last witnessed
          blind,    \* a statement was begun without sight of a higher or an equal one
          glossed,  \* a statement was begun in a copy found at fault
          crossed   \* two commands ran in one copy at once

vars == <<rev, held, doc, sig, seen, revoked, backup, job, now, acts, stops, lost, back, blind, glossed, crossed>>
claims == <<doc, sig>>
history == <<lost, back, blind, glossed, crossed>>
bounds == <<now, acts, stops>>

Idle == [at |-> "idle"]
None == [counter |-> 0, heads |-> {}, when |-> 0]
Never == MaxDays + 1
Within(c) == {p \in Procs : job[p] # Idle /\ job[p].in = c}

----
(* The history a copy holds.                                                *)

Superseded(K) == UNION {rev[r].over : r \in K}
Parents(K) == UNION {rev[r].on : r \in K}
Childless(K) == K \ Parents(K)

\* What prune may take once it has taken these: superseded, stood on by nothing
\* left, and naming nothing left that would be without its successor.
Free(K, taken) ==
  {x \in K \cap Superseded(K) : x \notin Parents(K \ taken) /\ rev[x].over \cap K \subseteq taken}

\* What is left when no more may be taken. Taking a revision never stops
\* another's being taken, so the order is nothing to the end.
Kept(K) == {x \in K : \E taken \in SUBSET K : Free(K, taken) \subseteq taken /\ x \notin taken}

\* The revisions that came to stand for r: whatever is closed under succession
\* and holds r holds them.
Became(r) ==
  {s \in DOMAIN rev : \A R \in SUBSET DOMAIN rev :
     r \in R /\ (\A t \in DOMAIN rev : rev[t].over \cap R # {} => t \in R) => s \in R}

----
(* Verifying.                                                               *)

Verified(c, n) == n \in DOMAIN sig[c] /\ sig[c][n] = doc[c][n]
Stated(c) == {doc[c][n] : n \in {m \in DOMAIN doc[c] : Verified(c, m)}}
CountsHere(c) == {s \in Stated(c) : s.when < revoked[c]}
Top(c) == Max({0} \cup {s.counter : s \in CountsHere(c)})
Latest(c) == {s \in CountsHere(c) : s.counter = Top(c)}

Equivocated(c) ==
  \/ \E s, t \in CountsHere(c) : s # t /\ s.counter = t.counter
  \/ seen[c] # None /\ Top(c) = seen[c].counter /\ seen[c] \notin Latest(c)

Withheld_Unexcused(c) == (UNION {s.heads : s \in Latest(c)}) \ held[c]

\* A head prune may have taken is one a held revision supersedes.
Withheld(c) == (UNION {s.heads : s \in Latest(c)}) \ (held[c] \cup Superseded(held[c]))

RolledBack_WhereAnyIsLeft(c) == CountsHere(c) # {} /\ Top(c) < seen[c].counter

RolledBack_AtTheSame(c) == seen[c] # None /\ Top(c) <= seen[c].counter

RolledBack(c) == seen[c] # None /\ Top(c) < seen[c].counter

Faulted(c) == Equivocated(c) \/ Withheld(c) # {} \/ RolledBack(c)
Unbacked(c) == {n \in DOMAIN doc[c] : ~Verified(c, n)}
Ok(c) == ~Faulted(c) /\ Unbacked(c) = {} /\ DOMAIN sig[c] \subseteq DOMAIN doc[c]

Highest_InTheStore(c) == Max({0} \cup {s.counter : s \in Stated(c)})

\* What a new statement must exceed, whoever's word this copy takes.
Highest(c) == Max({0, seen[c].counter} \cup {s.counter : s \in Stated(c)})

----
(* Commands.                                                                *)

\* What a command that states, and one that witnesses, carry with them.
Making(at, c, s, to) == [at |-> at, does |-> "state", in |-> c, statement |-> s, to |-> to]
Witnessing(c, s) == [at |-> "record", does |-> "witness", in |-> c, statement |-> s]

\* A file written in a folder, and the files of another laid under a folder's own.
With(f, n, x) == [m \in DOMAIN f \cup {n} |-> IF m = n THEN x ELSE f[m]]
Under(f, g) == [n \in DOMAIN f \cup DOMAIN g |-> IF n \in DOMAIN f THEN f[n] ELSE g[n]]

Has(kind) == kind \in Acts /\ acts < MaxActs
Done == acts' = acts + 1 /\ UNCHANGED <<now, stops>>
Cross(c) == crossed' = (crossed \/ Within(c) # {})
Start(p, c, begun) ==
  /\ job[p] = Idle
  /\ job' = [job EXCEPT ![p] = begun]
  /\ Cross(c)
  /\ Done
Finish(p) == job' = [job EXCEPT ![p] = Idle]

Write(c, on, over) ==
  /\ Len(rev) < MaxRevs
  /\ rev' = Append(rev, [on |-> on, over |-> over])
  /\ held' = [held EXCEPT ![c] = @ \cup {Len(rev) + 1}]
  /\ Done /\ Cross(c)
  /\ UNCHANGED <<claims, seen, revoked, backup, job, lost, back, blind, glossed>>

Record(c) ==
  /\ Has("record")
  /\ \E tip \in Childless(held[c]) \ Superseded(held[c]) : Write(c, {tip}, {})

Amend(c) ==
  /\ Has("amend")
  /\ \E tip \in Childless(held[c]) \ Superseded(held[c]) : Write(c, rev[tip].on, {tip})

Prune(c) ==
  /\ Has("prune")
  /\ held' = [held EXCEPT ![c] = Kept(@)]
  /\ held' # held
  /\ Done /\ Cross(c)
  /\ UNCHANGED <<rev, claims, seen, revoked, backup, job, lost, back, blind, glossed>>

\* Revisions by what they are, statements and signatures by their names.
Receive(c, d) ==
  /\ Has("receive") /\ c # d
  /\ held' = [held EXCEPT ![c] = @ \cup held[d]]
  /\ doc' = [doc EXCEPT ![c] = Under(@, doc[d])]
  /\ sig' = [sig EXCEPT ![c] = Under(@, sig[d])]
  /\ lost' = [lost EXCEPT ![c] = @ \cup lost[d]]
  /\ Done /\ crossed' = (crossed \/ Within(c) \cup Within(d) # {})
  /\ UNCHANGED <<rev, seen, revoked, backup, job, back, blind, glossed>>

Statement(c) == [counter |-> Highest(c) + 1, heads |-> Childless(held[c]), when |-> now]

\* A statement is filed under its count, and beside another of that count
\* under its digest too.
Stem(c, s) ==
  <<s.counter, IF \E n \in DOMAIN doc[c] : doc[c][n] # s /\ doc[c][n].counter = s.counter THEN s ELSE None>>

\* The statements there are or are coming to be, with the highest of copies put
\* back, and the highest count that a copy has sight of.
Ahead ==
  (UNION {Stated(d) : d \in Copies}) \cup {backup[d].top : d \in Copies}
    \cup {job[q].statement : q \in {r \in Procs : job[r] # Idle /\ job[r].does = "state"}}
InSight(c) == Max({seen[c].counter} \cup {s.counter : s \in Stated(c)})

\* `state': every head, at one more than the highest count in sight.
State(p, c) ==
  /\ Has("state")
  /\ held[c] # {}
  /\ LET s == Statement(c) IN Start(p, c, Making("document", c, s, Stem(c, s)))
  /\ blind' = (blind \/ \E s \in Ahead : s.counter > InSight(c))
  /\ glossed' = (glossed \/ Faulted(c))
  /\ UNCHANGED <<rev, held, claims, seen, revoked, backup, lost, back>>

WriteStatement(p) ==
  /\ job[p].at = "document"
  /\ LET j == job[p] IN
       doc' = IF j.to \in DOMAIN doc[j.in] THEN doc ELSE [doc EXCEPT ![j.in] = With(@, j.to, j.statement)]
  /\ job' = [job EXCEPT ![p] = Making("signature", @.in, @.statement, @.to)]
  /\ UNCHANGED <<rev, held, sig, seen, revoked, backup, bounds, history>>

WriteSignature(p) ==
  /\ job[p].at = "signature"
  /\ LET j == job[p] IN
       sig' = IF j.to \in DOMAIN sig[j.in] THEN sig ELSE [sig EXCEPT ![j.in] = With(@, j.to, j.statement)]
  /\ Finish(p)
  /\ UNCHANGED <<rev, held, doc, seen, revoked, backup, bounds, history>>

Raises_Whatever(c) == Latest(c) # {}

\* A store found at fault, or showing nothing newer, raises nothing.
Raises(c) == ~Faulted(c) /\ Latest(c) # {} /\ Top(c) > seen[c].counter

\* `witness': what the report found, and then the record.
Witness(p, c) ==
  /\ Has("witness")
  /\ Raises(c)
  /\ \E s \in Latest(c) : Start(p, c, Witnessing(c, s))
  /\ UNCHANGED <<rev, held, claims, seen, revoked, backup, lost, back, blind, glossed>>

WriteRecord(p) ==
  /\ job[p].at = "record"
  /\ seen' = [seen EXCEPT ![job[p].in] = job[p].statement]
  /\ back' = back \ {job[p].in}
  /\ Finish(p)
  /\ UNCHANGED <<rev, held, claims, revoked, backup, bounds, lost, blind, glossed, crossed>>

\* `trust revoke --as-of': only ever earlier.
Revoke(c, when) ==
  /\ Has("revoke")
  /\ when < revoked[c]
  /\ revoked' = [revoked EXCEPT ![c] = when]
  /\ Done
  /\ UNCHANGED <<rev, held, claims, seen, backup, job, history>>

\* A person copies the store away, and puts it back. What the copy believes
\* and has witnessed are not the store's, and stay as they are.
Copy(c) ==
  /\ Has("backup")
  /\ Within(c) = {}
  /\ backup' = [backup EXCEPT ![c] = [held |-> held[c], doc |-> doc[c], sig |-> sig[c], top |-> @.top]]
  /\ Done
  /\ UNCHANGED <<rev, held, claims, seen, revoked, job, history>>

Highmost(S) == CHOOSE s \in S : \A t \in S : t.counter <= s.counter

\* `top' remembers the highest statement a copy ever put back had made.
Restore(c) ==
  /\ Has("restore")
  /\ Within(c) = {} /\ <<held[c], doc[c]>> # <<backup[c].held, backup[c].doc>>
  /\ held' = [held EXCEPT ![c] = backup[c].held]
  /\ doc' = [doc EXCEPT ![c] = backup[c].doc]
  /\ sig' = [sig EXCEPT ![c] = backup[c].sig]
  /\ lost' = [lost EXCEPT ![c] = @ \cup held[c]]
  /\ back' = back \cup {c}
  /\ backup' = [backup EXCEPT ![c] =
                  [held |-> @.held, doc |-> @.doc, sig |-> @.sig, top |-> Highmost(Stated(c) \cup {@.top})]]
  /\ Done
  /\ UNCHANGED <<rev, seen, revoked, job, blind, glossed, crossed>>

Tick ==
  /\ now < MaxDays
  /\ now' = now + 1
  /\ UNCHANGED <<rev, held, claims, seen, revoked, backup, job, acts, stops, history>>

Stop(p) ==
  /\ job[p] # Idle /\ stops < MaxStops
  /\ stops' = stops + 1
  /\ Finish(p)
  /\ UNCHANGED <<rev, held, claims, seen, revoked, backup, now, acts, history>>

Init ==
  /\ rev = <<[on |-> {}, over |-> {}]>>
  /\ held = [c \in Copies |-> {1}]
  /\ doc = [c \in Copies |-> <<>>] /\ sig = [c \in Copies |-> <<>>]
  /\ seen = [c \in Copies |-> None]
  /\ revoked = [c \in Copies |-> Never]
  /\ backup = [c \in Copies |-> [held |-> {1}, doc |-> <<>>, sig |-> <<>>, top |-> None]]
  /\ job = [p \in Procs |-> Idle]
  /\ now = 1 /\ acts = 0 /\ stops = 0
  /\ lost = [c \in Copies |-> {}] /\ back = {} /\ blind = FALSE /\ glossed = FALSE /\ crossed = FALSE

Next ==
  \/ \E c \in Copies : Record(c) \/ Amend(c) \/ Prune(c) \/ Copy(c) \/ Restore(c)
  \/ \E c, d \in Copies : Receive(c, d)
  \/ \E p \in Procs, c \in Copies : State(p, c) \/ Witness(p, c)
  \/ \E p \in Procs : WriteStatement(p) \/ WriteSignature(p) \/ WriteRecord(p) \/ Stop(p)
  \/ \E c \in Copies, w \in 1..MaxDays : Revoke(c, w)
  \/ Tick

Spec == Init /\ [][Next]_vars

----
TypeOK ==
  /\ \A r \in DOMAIN rev : rev[r].on \cup rev[r].over \subseteq 1..(r - 1)
  /\ \A c \in Copies : /\ held[c] \subseteq DOMAIN rev /\ Parents(held[c]) \subseteq held[c]
                       /\ revoked[c] \in 1..Never
                       /\ \A s \in Range(doc[c]) : s.counter > 0 /\ s.heads # {}

\* What decision 0005 says of a pruned head: the store holds the revision that
\* replaced it, so that a head called withheld is one taken away some other way.
\* It fails: the code asks only after the revision that replaced it first.
WithheldIsLost == \A c \in Copies : Withheld(c) \subseteq lost[c]

\* What the code keeps of it. A head called withheld was taken by something other
\* than prune, or it is one called so wrongly: it was replaced, what replaced it
\* was replaced in its turn, and the copy pruned both.
WithheldIsLostOrTwiceReplaced ==
  \A c \in Copies : \A h \in Withheld(c) \ lost[c] :
    \E r \in DOMAIN rev \ held[c] : h \in rev[r].over /\ \E s \in held[c] : s \in Became(r)

\* A copy is called rolled back only where it was put back, a revocation
\* reached behind what it had witnessed, or it never was given the statement.
RolledBackIsEarned ==
  \A c \in Copies : RolledBack(c) => c \in back \/ seen[c].when >= revoked[c] \/ crossed

\* One key states two things at one count only from a copy that could not see
\* the other: never out of one copy, whatever it lost since it witnessed.
EquivocatesOnlyBlind == (\E c \in Copies : Equivocated(c)) => blind \/ crossed

\* A store that verifies holds, as it was or as what became of it, every head
\* of what this copy has witnessed: nothing witnessed is quietly missing, until
\* the key itself states heads without it.
WhatWasWitnessedIsHere ==
  \A c \in Copies : Ok(c) /\ ~blind /\ ~glossed /\ ~crossed =>
    \A h \in seen[c].heads : Became(h) \cap held[c] # {}

\* A record only goes up, unless two witnesses run at once.
SeenOnlyRises == [][\A c \in Copies : seen'[c].counter >= seen[c].counter \/ crossed]_vars

\* What seen.rs says of a record: it is never lowered.
NeverLowered == [][\A c \in Copies : seen'[c].counter >= seen[c].counter]_vars
====
