------------------------------ MODULE MCClaims -------------------------------
(* The claims that keys sign of revisions, and the statements a copy makes  *)
(* of itself. Each behaviour is of one component, and the others' variables *)
(* stand still.                                                             *)
EXTENDS TLC, Naturals

CONSTANTS
  Parts,      \* the components this run takes
  Procs, MaxStops, MaxDays,
  \* Vouching's copies, the keys that sign in them, its commands and its bound
  Sites, Keys, Roles, Nobody, Vouchings, MaxVouchings,
  \* Stating's copies, its commands and its bounds
  Copies, Statings, MaxStatings, MaxRevs

ASSUME NobodyAssumption == Nobody \notin Keys
ASSUME BoundsAssumption ==
  MaxStops \in Nat /\ MaxDays \in Nat \ {0} /\ MaxVouchings \in Nat /\ MaxStatings \in Nat /\ MaxRevs \in Nat

\* Processes are interchangeable, and so are keys and copies.
Alike == Permutations(Procs) \cup Permutations(Keys) \cup Permutations(Copies)

VARIABLES
  part,   \* which component this behaviour is of
  holds, document, signature, trust, doing, now, tries, halts, told, cut, rev,
  held, doc, sig, seen, revoked, backup, job, today, works, stops, lost, back,
  blind, glossed, crossed

Vouches == INSTANCE Vouching
  WITH Copies <- Sites, Acts <- Vouchings, MaxActs <- MaxVouchings,
       job <- doing, acts <- tries, stops <- halts, doc <- document, sig <- signature
States == INSTANCE Stating
  WITH Acts <- Statings, MaxActs <- MaxStatings, now <- today, acts <- works

vouchesVars == <<holds, document, signature, trust, doing, now, tries, halts,
                 told, cut>>
statesVars == <<rev, held, doc, sig, seen, revoked, backup, job, today, works,
                stops, lost, back, blind, glossed, crossed>>

MCInit ==
  /\ part \in Parts
  /\ Vouches!Init /\ (part # "vouching" => holds = Sites)
  /\ States!Init

MCNext ==
  /\ part' = part
  /\ \/ /\ part = "vouching" /\ Vouches!Next
        /\ UNCHANGED statesVars
     \/ /\ part = "stating" /\ States!Next
        /\ UNCHANGED vouchesVars

MCSpec == MCInit /\ [][MCNext]_<<part, vouchesVars, statesVars>>
------------------------------------------------------------------------------
\* A claim counts for the one who asks as `verify` says it does, and a person
\* loses a vouch only by having cut their own copies across (src/minisign).
VouchesAreRead ==
  part = "vouching" => Vouches!TypeOK /\ Vouches!RuleAgreesWithVerify /\ Vouches!OnlyTheCutAcrossLoseAVouch

\* A copy says rolled back or equivocated of a statement only with cause, and
\* what it witnessed is in its store. It says withheld of a head that was lost,
\* and also, which it should not, of one that was replaced twice and then pruned:
\* WithheldIsLost is the promise, and fails (src/minisign/src/verify.rs).
StatementsAreJudged ==
  part = "stating" =>
    /\ States!TypeOK /\ States!WithheldIsLostOrTwiceReplaced /\ States!RolledBackIsEarned
    /\ States!EquivocatesOnlyBlind /\ States!WhatWasWitnessedIsHere
\* A revocation is not put off, unless two are compared before either is written,
\* and what a copy has seen only rises, unless two commands ran in it at once
\* (src/minisign/src/trust.rs, seen.rs).
TrustOnlyTightens == Vouches!RevocationStands /\ States!SeenOnlyRises
==============================================================================
