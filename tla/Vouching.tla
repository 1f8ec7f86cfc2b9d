---- MODULE Vouching ----
(* historica-minisign: claims filed beside a history, each with a signature *)
(* in a file of its own, and the keys a copy believes. Copies of one store  *)
(* are signed in, arranged and received from one another; two commands may  *)
(* run in one copy at once, and either may be stopped between two files. A  *)
(* claim is the record it states and stands for its own digest; a signature *)
(* is the claim whose bytes it was made over, by the key that claim names.  *)
EXTENDS Naturals, Sequences, FiniteSets, FiniteSetsExt, SequencesExt, Functions

CONSTANTS Copies,   \* copies of the store
          Procs,    \* commands that may be running at once
          Keys, Roles, Nobody,
          Acts,     \* the kinds of command in the run
          MaxActs,  \* bound: commands begun
          MaxStops, \* bound: commands stopped partway
          MaxDays   \* bound: days the clock counts

VARIABLES holds,    \* the copies that hold the revision vouched for
          doc, sig, \* claims/: the files of each copy, by name
          trust,    \* trust/: when each entry says its key was revoked, by label
          job,      \* the command each process is in
          now, acts, stops,
          told,     \* claims a copy's person was told are signed, or has seen verify
          cut       \* copies where a command was stopped, or crossed another

vars == <<holds, doc, sig, trust, job, now, acts, stops, told, cut>>
history == <<told, cut>>
bounds == <<acts, stops>>
claims == <<doc, sig>>

Claim == [role : Roles, key : Keys, when : 1..MaxDays]
NoClaim == [role |-> "", key |-> Nobody, when |-> 0]
Idle == [at |-> "idle"]
Never == MaxDays + 1     \* an entry that states no revocation

Within(c) == {p \in Procs : job[p] # Idle /\ job[p].in = c}
Labels == Keys \X {1, 2} \* an entry is known by its file's name

----
(* Names. A name is the stem of the revision and the role, with as much of  *)
(* the key and the claim's own digest as tells it from its neighbours.      *)

\* Without the revision the stem is the claim's own day and what it names.
Base(c, claim) ==
  IF c \in holds THEN <<"at", claim.role, 0>> ELSE <<"absent", claim.role, claim.when>>
Plain(b) == <<b, Nobody, NoClaim>>
ByKey(b, claim) == <<b, claim.key, NoClaim>>
ByDigest(b, claim) == <<b, claim.key, claim>>
ByHand == <<<<"hand", "", 0>>, Nobody, NoClaim>>

\* The stem each of a set of claims would have with all of them in hand.
StemOf(c, all, claim) ==
  LET b == Base(c, claim)
      sharing == {x \in all : Base(c, x) = b}
  IN  IF sharing = {claim} THEN Plain(b)
      ELSE IF {x \in sharing : x.key = claim.key} = {claim} THEN ByKey(b, claim)
      ELSE ByDigest(b, claim)

StemFor_Plain(c, existing, claim) == Plain(Base(c, claim))

\* The stem a claim takes as it is written: those there keep theirs.
StemFor(c, existing, claim) ==
  LET b == Base(c, claim)
      sharing == {x \in existing \ {claim} : Base(c, x) = b}
  IN  IF sharing = {} THEN Plain(b)
      ELSE IF \A x \in sharing : x.key # claim.key THEN ByKey(b, claim)
      ELSE ByDigest(b, claim)

\* The order names sort in: a suffix follows a space, which sorts before the
\* dot that ends a plain name; a claim is no older than what it vouches for,
\* and a name a person typed has no date to sort by.
Place(n) == CASE n[1][1] = "hand"   -> 5
              [] n[1][1] = "absent" -> 4
              [] n[2] = Nobody      -> 3
              [] n[3] = NoClaim     -> 2
              [] OTHER              -> 1
First(names) == CHOOSE n \in names : \A m \in names : Place(n) <= Place(m)

----
(* Verifying. *)

Verified(c, n) == n \in DOMAIN sig[c] /\ sig[c][n] = doc[c][n]
Signed(c) == {doc[c][n] : n \in {m \in DOMAIN doc[c] : Verified(c, m)}}

\* The files counted: of those holding one claim, the first.
Counted(c) == {First({m \in DOMAIN doc[c] : doc[c][m] = claim}) : claim \in Range(doc[c])}

Errors(c) ==
     {<<"unsigned", n>> : n \in Counted(c) \ DOMAIN sig[c]}
\cup {<<"refused", n>> : n \in {m \in Counted(c) \cap DOMAIN sig[c] : ~Verified(c, m)}}
\cup {<<"orphaned", n>> : n \in DOMAIN sig[c] \ DOMAIN doc[c]}

Entries(c, k) == {l \in DOMAIN trust[c] : l[1] = k}

\* Where two entries hold one key, a revocation in either wins.
SpeaksFor(c, k, when) == Entries(c, k) # {} /\ \A l \in Entries(c, k) : when < trust[c][l]
CountsHere(c, n) == Verified(c, n) /\ SpeaksFor(c, doc[c][n].key, doc[c][n].when)

----
(* The rule made from claims and keys, for a copy to choose its heads by.   *)

RevokedAt_AsTheFirstSays(c, k) == trust[c][CHOOSE l \in Entries(c, k) : \A m \in Entries(c, k) : l[2] <= m[2]]

RevokedAt(c, k) == Min({trust[c][l] : l \in Entries(c, k)})
Admits(c, n) ==
  /\ Verified(c, n)
  /\ Entries(c, doc[c][n].key) # {}
  /\ doc[c][n].when < RevokedAt(c, doc[c][n].key)
Admitted(c) == {doc[c][n] : n \in {m \in DOMAIN doc[c] : Admits(c, m)}}

----
(* Commands. *)

\* What a command that writes a claim, and one that arranges, carry with them.
Writing(at, c, claim, to) == [at |-> at, in |-> c, claim |-> claim, to |-> to]
Arranging(at, c, todo) == [at |-> at, in |-> c, todo |-> todo]
\* What one that revokes does: the entry, what it last read there, what to write.
Revoking(at, c, l, read, becomes) == [at |-> at, in |-> c, label |-> l, read |-> read, becomes |-> becomes]

\* A file written in a folder, and the files of another laid under a folder's own.
With(f, n, x) == [m \in DOMAIN f \cup {n} |-> IF m = n THEN x ELSE f[m]]
Under(f, g) == [n \in DOMAIN f \cup DOMAIN g |-> IF n \in DOMAIN f THEN f[n] ELSE g[n]]

Has(kind) == kind \in Acts /\ acts < MaxActs
Start(p, c, begun) ==
  /\ job[p] = Idle
  /\ job' = [job EXCEPT ![p] = begun]
  /\ acts' = acts + 1
  /\ cut' = IF Within(c) = {} THEN cut ELSE cut \cup {c}
Finish(p) == job' = [job EXCEPT ![p] = Idle]
Step(p, next) == job' = [job EXCEPT ![p] = next]
Put(files, c, n, claim) == [files EXCEPT ![c] = With(@, n, claim)]
Take_Emptying(files, c, n) == [files EXCEPT ![c] = With(@, n, NoClaim)]

\* A file taken away takes its bytes with it.
Take(files, c, n) == [files EXCEPT ![c] = Restrict(@, DOMAIN @ \ {n})]

\* `sign`: a claim already here under any name is left as it is.
Sign(p, c, k, role) ==
  /\ Has("sign") /\ c \in holds
  /\ LET claim == [role |-> role, key |-> k, when |-> now]
     IN  /\ claim \notin Range(doc[c])
         /\ Start(p, c, Writing("claim", c, claim, StemFor(c, Range(doc[c]), claim)))
  /\ UNCHANGED <<holds, claims, trust, now, stops, told>>

WriteClaim(p) ==
  /\ job[p].at = "claim"
  /\ LET j == job[p] IN
       /\ doc' = IF j.to \in DOMAIN doc[j.in] THEN doc ELSE Put(doc, j.in, j.to, j.claim)
       /\ Step(p, Writing("signature", j.in, j.claim, j.to))
  /\ UNCHANGED <<holds, sig, trust, now, bounds, history>>

WriteSignature(p) ==
  /\ job[p].at = "signature"
  /\ LET j == job[p] IN
       /\ sig' = IF j.to \in DOMAIN sig[j.in] THEN sig ELSE Put(sig, j.in, j.to, j.claim)
       /\ told' = [told EXCEPT ![j.in] = @ \cup {j.claim}]
  /\ Finish(p)
  /\ UNCHANGED <<holds, doc, trust, now, bounds, cut>>

\* A claim somebody wrote into the folder and signed with minisign.
WriteByHand(c, k, role) ==
  /\ Has("hand")
  /\ ByHand \notin DOMAIN doc[c] \cup DOMAIN sig[c]
  /\ LET claim == [role |-> role, key |-> k, when |-> now]
     IN  /\ doc' = Put(doc, c, ByHand, claim)
         /\ sig' = Put(sig, c, ByHand, claim)
         /\ told' = [told EXCEPT ![c] = @ \cup {claim}]
  /\ acts' = acts + 1
  /\ cut' = IF Within(c) = {} THEN cut ELSE cut \cup {c}
  /\ UNCHANGED <<holds, trust, job, now, stops>>

\* `arrange': what is to move and what is to go, in the order of the names.
Moves(c) ==
  LET misfiled == {n \in Counted(c) : n # StemOf(c, Range(doc[c]), doc[c][n])}
      spare == DOMAIN doc[c] \ Counted(c)
  IN  [n \in misfiled \cup spare |->
         IF n \in misfiled THEN <<"move", n, StemOf(c, Range(doc[c]), doc[c][n])>>
         ELSE <<"drop", n, First({m \in DOMAIN doc[c] : doc[c][m] = doc[c][n]})>>]

Arrange(p, c) ==
  /\ Has("arrange")
  /\ LET moves == Moves(c)
     IN  /\ moves # <<>>
         /\ \E order \in SetToSeqs(DOMAIN moves) :
              /\ \A i, j \in DOMAIN order : i < j => Place(order[i]) <= Place(order[j])
              /\ Start(p, c, Arranging("next", c, [i \in DOMAIN order |-> moves[order[i]]]))
  /\ UNCHANGED <<holds, claims, trust, now, stops, told>>

Rest(p) == Arranging("next", job[p].in, Tail(job[p].todo))
Doing(p, what) == job[p].at = "next" /\ job[p].todo # <<>> /\ Head(job[p].todo)[1] = what

\* A name that is taken is left.
Look(p) ==
  /\ Doing(p, "move")
  /\ LET c == job[p].in   to == Head(job[p].todo)[3]
     IN  Step(p, IF to \in DOMAIN doc[c] THEN Rest(p) ELSE Arranging("move", c, job[p].todo))
  /\ UNCHANGED <<holds, claims, trust, now, bounds, history>>

MoveClaim(p) ==
  /\ job[p].at = "move"
  /\ LET c == job[p].in   from == Head(job[p].todo)[2]   to == Head(job[p].todo)[3]
     IN  IF from \notin DOMAIN doc[c] THEN Finish(p) /\ doc' = doc
         ELSE doc' = Put(Take(doc, c, from), c, to, doc[c][from]) /\ Step(p, Arranging("follow", c, job[p].todo))
  /\ UNCHANGED <<holds, sig, trust, now, bounds, history>>

MoveSignature_Never(p) ==
  /\ job[p].at = "follow"
  /\ sig' = sig
  /\ Step(p, Rest(p))
  /\ UNCHANGED <<holds, doc, trust, now, bounds, history>>

\* The signature goes with the claim it signs.
MoveSignature(p) ==
  /\ job[p].at = "follow"
  /\ LET c == job[p].in   from == Head(job[p].todo)[2]   to == Head(job[p].todo)[3]
     IN  sig' = IF from \in DOMAIN sig[c] THEN Put(Take(sig, c, from), c, to, sig[c][from]) ELSE sig
  /\ Step(p, Rest(p))
  /\ UNCHANGED <<holds, doc, trust, now, bounds, history>>

\* `--prune': the bytes are compared again, and the signature goes first.
DropSignature(p) ==
  /\ Doing(p, "drop")
  /\ LET c == job[p].in   extra == Head(job[p].todo)[2]   of == Head(job[p].todo)[3]
     IN  IF {extra, of} \subseteq DOMAIN doc[c] /\ doc[c][extra] = doc[c][of]
         THEN sig' = Take(sig, c, extra) /\ Step(p, Arranging("drop", c, job[p].todo))
         ELSE sig' = sig /\ IF {extra, of} \subseteq DOMAIN doc[c] THEN Step(p, Rest(p)) ELSE Finish(p)
  /\ UNCHANGED <<holds, doc, trust, now, bounds, history>>

DropClaim(p) ==
  /\ job[p].at = "drop"
  /\ doc' = Take(doc, job[p].in, Head(job[p].todo)[2])
  /\ Step(p, Rest(p))
  /\ UNCHANGED <<holds, sig, trust, now, bounds, history>>

Arranged(p) ==
  /\ job[p].at = "next" /\ job[p].todo = <<>>
  /\ Finish(p)
  /\ UNCHANGED <<holds, claims, trust, now, bounds, history>>

\* Each file of claims/ whose name is free here.
Union(c, d) ==
  /\ c # d
  /\ doc' = [doc EXCEPT ![c] = Under(@, doc[d])]
  /\ sig' = [sig EXCEPT ![c] = Under(@, sig[d])]
  /\ told' = [told EXCEPT ![c] = @ \cup Signed(c)']
  /\ acts' = acts + 1
  /\ cut' = IF Within(c) \cup Within(d) = {} /\ d \notin cut THEN cut ELSE cut \cup {c}
  /\ UNCHANGED <<trust, job, now, stops>>

Receive(c, d) ==
  /\ Has("receive")
  /\ Union(c, d)
  /\ holds' = IF d \in holds THEN holds \cup {c} ELSE holds

\* Claims travel by file sync too, and the history only by receiving.
Sync(c, d) ==
  /\ Has("sync")
  /\ Union(c, d)
  /\ holds' = holds

----
(* Trust. *)

Believe(c, l) ==
  /\ Has("trust")
  /\ l \notin DOMAIN trust[c]
  /\ trust' = [trust EXCEPT ![c] = With(@, l, Never)]
  /\ acts' = acts + 1
  /\ UNCHANGED <<holds, claims, job, now, stops, history>>

Disbelieve(c, l) ==
  /\ Has("trust")
  /\ l \in DOMAIN trust[c]
  /\ trust' = [trust EXCEPT ![c] = Restrict(@, DOMAIN @ \ {l})]
  /\ acts' = acts + 1
  /\ UNCHANGED <<holds, claims, job, now, stops, history>>

\* `trust revoke': the entry is read, and the earlier of two moments kept.
Revoke(p, c, l, when) ==
  /\ Has("revoke")
  /\ l \in DOMAIN trust[c] /\ job[p] = Idle
  /\ Step(p, Revoking("revoke", c, l, trust[c][l], IF when < trust[c][l] THEN when ELSE trust[c][l]))
  /\ acts' = acts + 1
  /\ UNCHANGED <<holds, claims, trust, now, stops, history>>

Compare_WhetherThere(p) ==
  /\ job[p].at = "revoke"
  /\ LET c == job[p].in   l == job[p].label
     IN  IF l \in DOMAIN trust[c]
         THEN Step(p, Revoking("rewrite", c, l, trust[c][l], job[p].becomes)) ELSE Finish(p)
  /\ UNCHANGED <<holds, claims, trust, now, bounds, history>>

\* `write_if': nothing is written unless the file still holds what was read.
Compare(p) ==
  /\ job[p].at = "revoke"
  /\ LET c == job[p].in   l == job[p].label
     IN  IF l \in DOMAIN trust[c] /\ trust[c][l] = job[p].read
         THEN Step(p, Revoking("rewrite", c, l, trust[c][l], job[p].becomes)) ELSE Finish(p)
  /\ UNCHANGED <<holds, claims, trust, now, bounds, history>>

\* The write comes after the comparison, and nothing is locked between them.
Rewrite(p) ==
  /\ job[p].at = "rewrite"
  /\ trust' = [trust EXCEPT ![job[p].in] = With(@, job[p].label, job[p].becomes)]
  /\ Finish(p)
  /\ UNCHANGED <<holds, claims, now, bounds, history>>

----
Tick ==
  /\ now < MaxDays
  /\ now' = now + 1
  /\ UNCHANGED <<holds, claims, trust, job, bounds, history>>

Stop(p) ==
  /\ job[p] # Idle /\ stops < MaxStops
  /\ stops' = stops + 1
  /\ cut' = cut \cup {job[p].in}
  /\ Finish(p)
  /\ UNCHANGED <<holds, claims, trust, now, acts, told>>

Init ==
  /\ holds \in (SUBSET Copies) \ {{}}
  /\ doc = [c \in Copies |-> <<>>] /\ sig = [c \in Copies |-> <<>>]
  /\ trust = [c \in Copies |-> [l \in Keys \X {1} |-> Never]]
  /\ job = [p \in Procs |-> Idle]
  /\ now = 1 /\ acts = 0 /\ stops = 0
  /\ told = [c \in Copies |-> {}] /\ cut = {}

Next ==
  \/ \E p \in Procs, c \in Copies, k \in Keys, r \in Roles : Sign(p, c, k, r)
  \/ \E c \in Copies, k \in Keys, r \in Roles : WriteByHand(c, k, r)
  \/ \E p \in Procs : WriteClaim(p) \/ WriteSignature(p)
  \/ \E p \in Procs, c \in Copies : Arrange(p, c)
  \/ \E p \in Procs : Look(p) \/ MoveClaim(p) \/ MoveSignature(p) \/ DropSignature(p) \/ DropClaim(p) \/ Arranged(p)
  \/ \E c, d \in Copies : Receive(c, d) \/ Sync(c, d)
  \/ \E c \in Copies, l \in Labels : Believe(c, l) \/ Disbelieve(c, l)
  \/ \E p \in Procs, c \in Copies, l \in Labels, w \in 1..MaxDays : Revoke(p, c, l, w)
  \/ \E p \in Procs : Compare(p) \/ Rewrite(p) \/ Stop(p)
  \/ Tick

Spec == Init /\ [][Next]_vars

----
\* Files are claims under names the scheme or a person can give, and entries
\* state moments.
TypeOK ==
  /\ holds \subseteq Copies /\ cut \subseteq Copies
  /\ \A c \in Copies : /\ Range(doc[c]) \cup Range(sig[c]) \cup told[c] \subseteq Claim
                       /\ DOMAIN trust[c] \subseteq Labels
                       /\ Range(trust[c]) \subseteq 1..Never

\* A store verify finds nothing wrong with is followed exactly as far as verify
\* counts it: the two ways of reading one folder and one policy agree
\* (following.rs, verify.rs).
RuleAgreesWithVerify ==
  \A c \in Copies : Errors(c) = {} =>
    Admitted(c) = {doc[c][n] : n \in {m \in Counted(c) : CountsHere(c, m)}}

\* A claim a person was told is signed, or that has verified in a copy, goes on
\* verifying there, whatever is signed, arranged, pruned or received since:
\* only a command stopped partway, or crossing another, may cost it.
OnlyTheCutAcrossLoseAVouch ==
  \A c \in Copies : Within(c) = {} /\ c \notin cut => told[c] \subseteq Signed(c)

\* A command is writing an entry that another has written since it compared.
Overtaken(c, l) ==
  \E p \in Procs : /\ job[p].at = "rewrite" /\ job[p].in = c /\ job[p].label = l
                   /\ trust[c][l] # job[p].read

\* A revocation moves only earlier: an entry that stays believes its key no
\* longer than before, whatever was revoked while another command had read it
\* (trust.rs:revoke). It fails only between a comparison and its write, where the
\* later of two moments may be left.
RevocationStands ==
  [][\A c \in Copies : \A l \in DOMAIN trust[c] \cap DOMAIN trust'[c] :
       trust'[c][l] <= trust[c][l] \/ Overtaken(c, l)]_vars

\* What sign.rs says of a claim's path: two copies of a store union without a
\* conflict. A copy that has just received from another verifies every claim
\* the other does.
UnionLosesNoClaim ==
  [][\A c, d \in Copies : Receive(c, d) /\ c \notin cut' => Signed(d) \subseteq Signed(c)']_vars
====
