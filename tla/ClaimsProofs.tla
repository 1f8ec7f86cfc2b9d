---------------------------- MODULE ClaimsProofs ----------------------------
(***************************************************************************)
(* Theorems about claims and statements, however many copies, keys and     *)
(* commands there are and wherever a command stops: that a claim counts as *)
(* `verify` says and that only a command stopped partway, or crossing      *)
(* another, costs a vouch (Vouching), and that what a copy believes of a   *)
(* key, and has seen of its statements, only tightens (both).              *)
(***************************************************************************)
EXTENDS MCClaims, Sequences, FiniteSets, WellFoundedInduction, FiniteSetTheorems, TLAPS

(* What may be a claim's name: one of the stem, the key and the digest, or a *)
(* name a person typed.                                                      *)
Bases == ({"at"} \X Roles \X {0}) \cup ({"absent"} \X Roles \X (1..MaxDays)) \cup {<<"hand", "", 0>>}
Names == Bases \X (Keys \cup {Nobody}) \X (Vouches!Claim \cup {Vouches!NoClaim})

(* What a command is in the middle of.                                       *)
Writings   == [at : {"claim", "signature"}, in : Sites, claim : Vouches!Claim, to : Names]
Arrangings == [at : {"next", "move", "follow", "drop"}, in : Sites, todo : Seq({"move", "drop"} \X Names \X Names)]
Revokings  == [at : {"revoke", "rewrite"}, in : Sites, label : Vouches!Labels, read : 1..Vouches!Never,
               becomes : 1..Vouches!Never]
Doings     == {Vouches!Idle} \cup Writings \cup Arrangings \cup Revokings

(* Claims, or signatures, by name; and those of every copy.                  *)
Folder(f)     ==
  IsFiniteSet(DOMAIN f) /\ DOMAIN f \subseteq Names /\ \A n \in DOMAIN f : f[n] \in Vouches!Claim
Folders(each) == DOMAIN each = Sites /\ \A c \in Sites : Folder(each[c])

VouchTyped ==
  /\ holds \subseteq Sites /\ cut \subseteq Sites /\ now \in 1..MaxDays
  /\ Folders(document) /\ Folders(signature) /\ DOMAIN told = Sites /\ DOMAIN trust = Sites
  /\ \A c \in Sites :
       /\ told[c] \subseteq Vouches!Claim
       /\ DOMAIN trust[c] \subseteq Vouches!Labels
       /\ \A l \in DOMAIN trust[c] : trust[c][l] \in 1..Vouches!Never
  /\ doing \in [Procs -> Doings]
  /\ \A p \in Procs :
       /\ doing[p].at \in {"revoke", "rewrite"} => doing[p].becomes <= doing[p].read
       /\ doing[p].at \in {"move", "follow", "drop"} => doing[p].todo # <<>>

(* The commands that are writing or arranging the claims of a copy.          *)
Hands(c) == {p \in Procs : doing[p] \in Writings \cup Arrangings /\ doing[p].in = c}

(* A name says of its claim what is so of it.                                *)
Says(n, x) ==
  \/ n = Vouches!ByHand
  \/ /\ n[1] = <<"at", x.role, 0>> \/ n[1] = <<"absent", x.role, x.when>>
     /\ n[2] \in {Nobody, x.key} /\ n[3] \in {Vouches!NoClaim, x}

(* Every claim of a folder has its own signature, but at the names the step  *)
(* between them has not reached.                                             *)
Matched(docs, sigs, but) ==
  \A n \in (DOMAIN docs \cup DOMAIN sigs) \ but :
    n \in DOMAIN docs /\ n \in DOMAIN sigs /\ sigs[n] = docs[n]

(* What is left to arrange: claims that are there, each to a name that says  *)
(* what is so of it, and copies of a claim, each but for another of it.      *)
Orderly(docs, todo) ==
  /\ \A i \in 1..Len(todo) :
       /\ todo[i][1] = "move" => todo[i][2] \in DOMAIN docs /\ Says(todo[i][3], docs[todo[i][2]])
       /\ todo[i][1] = "drop" => todo[i][2] # todo[i][3]
  /\ \A i, j \in 1..Len(todo) : todo[i][2] = todo[j][2] => i = j

(* Where a command is between two files.                                     *)
Midway(docs, sigs, j) ==
  /\ j.at = "claim" => j.to \notin DOMAIN docs /\ Says(j.to, j.claim) /\ Matched(docs, sigs, {})
  /\ j.at = "signature" =>
       /\ j.to \in DOMAIN docs \ DOMAIN sigs /\ docs[j.to] = j.claim
       /\ Matched(docs, sigs, {j.to})
  /\ j.at = "next" => Orderly(docs, j.todo) /\ Matched(docs, sigs, {})
  /\ j.at = "move" =>
       /\ Orderly(docs, j.todo) /\ Matched(docs, sigs, {})
       /\ Head(j.todo)[1] = "move" /\ Head(j.todo)[3] \notin DOMAIN docs
  /\ j.at = "follow" =>
       LET from == Head(j.todo)[2]  to == Head(j.todo)[3] IN
       /\ Orderly(docs, Tail(j.todo)) /\ Matched(docs, sigs, {from, to})
       /\ to \in DOMAIN docs \ DOMAIN sigs /\ from \in DOMAIN sigs \ DOMAIN docs
       /\ sigs[from] = docs[to]
  /\ j.at = "drop" =>
       LET extra == Head(j.todo)[2]  of == Head(j.todo)[3] IN
       /\ Orderly(docs, j.todo) /\ Matched(docs, sigs, {extra})
       /\ {extra, of} \subseteq DOMAIN docs /\ extra \notin DOMAIN sigs
       /\ extra # of /\ docs[extra] = docs[of]

Filed(docs) == {docs[n] : n \in DOMAIN docs}

(* Names say what is so, and what a person was told is still there.          *)
Standing(docs, heard) == (\A n \in DOMAIN docs : Says(n, docs[n])) /\ heard \subseteq Filed(docs)

(* In a copy where no command was stopped or crossed another, what stands    *)
(* stands, and every claim is signed but where the one command that is       *)
(* writing there has yet to.                                                 *)
Uncut(c) ==
  /\ Standing(document[c], told[c])
  /\ \A p, q \in Hands(c) : p = q
  /\ \A p \in Hands(c) : Midway(document[c], signature[c], doing[p])
  /\ Hands(c) = {} => Matched(document[c], signature[c], {})

VouchInv == VouchTyped /\ \A c \in Sites \ cut : Uncut(c)
-----------------------------------------------------------------------------
(* Every name the scheme gives a claim is a name, and says what is so.       *)
LEMMA ClaimShape ==
  ASSUME NEW x \in Vouches!Claim
  PROVE  /\ x.role \in Roles /\ x.key \in Keys /\ x.when \in 1..MaxDays
         /\ x.key # Nobody /\ x # Vouches!NoClaim
<1>1. x.role \in Roles /\ x.key \in Keys /\ x.when \in 1..MaxDays
  BY DEF Vouches!Claim
<1>2. Vouches!NoClaim.key = Nobody
  BY DEF Vouches!NoClaim
<1>3. QED  BY <1>1, <1>2, NobodyAssumption

LEMMA BaseShape ==
  ASSUME NEW c, NEW x \in Vouches!Claim
  PROVE  /\ Vouches!Base(c, x) \in Bases
         /\ Vouches!Base(c, x) = <<"at", x.role, 0>> \/ Vouches!Base(c, x) = <<"absent", x.role, x.when>>
         /\ c \in holds => Vouches!Base(c, x) = <<"at", x.role, 0>>
<1>1. Vouches!Base(c, x) \in {<<"at", x.role, 0>>, <<"absent", x.role, x.when>>}
  BY DEF Vouches!Base
<1>2. <<"at", x.role, 0>> \in Bases /\ <<"absent", x.role, x.when>> \in Bases
  BY ClaimShape DEF Bases
<1>3. QED  BY <1>1, <1>2 DEF Vouches!Base

LEMMA StemShape ==
  ASSUME NEW c, NEW x \in Vouches!Claim, NEW n,
         n \in {Vouches!Plain(Vouches!Base(c, x)), Vouches!ByKey(Vouches!Base(c, x), x),
                Vouches!ByDigest(Vouches!Base(c, x), x)}
  PROVE  n \in Names /\ Says(n, x)
<1> DEFINE b == Vouches!Base(c, x)
<1>1. b \in Bases /\ (b = <<"at", x.role, 0>> \/ b = <<"absent", x.role, x.when>>)
  BY BaseShape
<1>2. x.key \in Keys
  BY ClaimShape
<1> HIDE DEF b
<1>3. n \in {<<b, Nobody, Vouches!NoClaim>>, <<b, x.key, Vouches!NoClaim>>, <<b, x.key, x>>}
  BY DEF Vouches!Plain, Vouches!ByKey, Vouches!ByDigest, b
<1>4. n \in Names
  BY <1>1, <1>2, <1>3 DEF Names
<1>5. n[1] = b /\ n[2] \in {Nobody, x.key} /\ n[3] \in {Vouches!NoClaim, x}
  BY <1>3
<1>6. QED  BY <1>1, <1>4, <1>5 DEF Says

LEMMA StemOfSays ==
  ASSUME NEW c, NEW all, NEW x \in Vouches!Claim
  PROVE  Vouches!StemOf(c, all, x) \in Names /\ Says(Vouches!StemOf(c, all, x), x)
<1>1. Vouches!StemOf(c, all, x) \in {Vouches!Plain(Vouches!Base(c, x)), Vouches!ByKey(Vouches!Base(c, x), x),
                                    Vouches!ByDigest(Vouches!Base(c, x), x)}
  BY DEF Vouches!StemOf
<1>2. QED  BY <1>1, StemShape

(* The name a claim is given as it is signed is taken by no other.           *)
LEMMA StemForIsFree ==
  ASSUME VouchTyped, NEW c \in Sites, c \in holds, NEW x \in Vouches!Claim, x \notin Filed(document[c]),
         \A n \in DOMAIN document[c] : Says(n, document[c][n]),
         NEW n, n = Vouches!StemFor(c, Filed(document[c]), x)
  PROVE  n \in Names /\ Says(n, x) /\ n \notin DOMAIN document[c]
<1> DEFINE b == Vouches!Base(c, x)
           sharing == {y \in Filed(document[c]) \ {x} : Vouches!Base(c, y) = b}
<1>1. n = IF sharing = {} THEN Vouches!Plain(b)
          ELSE IF \A y \in sharing : y.key # x.key THEN Vouches!ByKey(b, x) ELSE Vouches!ByDigest(b, x)
  BY DEF Vouches!StemFor
<1>2. n \in {Vouches!Plain(b), Vouches!ByKey(b, x), Vouches!ByDigest(b, x)}
  BY <1>1
<1>3. n \in Names /\ Says(n, x)
  BY <1>2, StemShape
<1>4. ASSUME n \in DOMAIN document[c] PROVE FALSE
  <2> DEFINE y == document[c][n]
  <2>1. y \in Vouches!Claim /\ y \in Filed(document[c]) /\ y # x /\ Says(n, y)
    BY <1>4 DEF VouchTyped, Folders, Folder, Filed
  <2>2. b = <<"at", x.role, 0>>
    BY BaseShape
  <2>3. n[1] = b
    BY <1>2 DEF Vouches!Plain, Vouches!ByKey, Vouches!ByDigest
  <2>4. n # Vouches!ByHand
    <3>1. n[1][1] = "at"
      BY <2>2, <2>3
    <3>2. Vouches!ByHand[1][1] = "hand"
      BY DEF Vouches!ByHand
    <3>3. QED  BY <3>1, <3>2
  <2>5. /\ n[1] = <<"at", y.role, 0>> \/ n[1] = <<"absent", y.role, y.when>>
        /\ n[2] \in {Nobody, y.key} /\ n[3] \in {Vouches!NoClaim, y}
    BY <2>1, <2>4 DEF Says
  <2>6. y.role = x.role
    BY <2>2, <2>3, <2>5
  <2>7. y \in sharing
    BY <2>1, <2>2, <2>6, BaseShape
  <2>8. n = Vouches!ByKey(b, x) \/ n = Vouches!ByDigest(b, x)
    BY <1>1, <2>7
  <2>9. n[2] = x.key
    BY <2>8 DEF Vouches!ByKey, Vouches!ByDigest
  <2>10. y.key = x.key
    BY <2>5, <2>9, ClaimShape
  <2>11. n = Vouches!ByDigest(b, x)
    BY <1>1, <2>7, <2>10
  <2>12. n[3] = x
    BY <2>11 DEF Vouches!ByDigest
  <2>13. QED  BY <2>1, <2>5, <2>12, ClaimShape
<1>5. QED  BY <1>3, <1>4
-----------------------------------------------------------------------------
(* Types.  What is written into a folder, taken from one, or laid under one, *)
(* leaves it a folder of claims by name.                                     *)
LEMMA WithStays ==
  ASSUME NEW f, Folder(f), NEW n \in Names, NEW x \in Vouches!Claim
  PROVE  Folder(Vouches!With(f, n, x))
<1>1. IsFiniteSet(DOMAIN f \cup {n})
  BY FS_AddElement DEF Folder
<1>2. QED  BY <1>1 DEF Folder, Vouches!With

LEMMA RestrictStays ==
  ASSUME NEW f, Folder(f), NEW D
  PROVE  Folder(Vouches!Restrict(f, DOMAIN f \ D))
<1>1. IsFiniteSet(DOMAIN f \ D)
  BY FS_Subset DEF Folder
<1>2. QED  BY <1>1 DEF Folder, Vouches!Restrict

LEMMA UnderStays ==
  ASSUME NEW f, Folder(f), NEW g, Folder(g)
  PROVE  Folder(Vouches!Under(f, g))
<1>1. IsFiniteSet(DOMAIN f \cup DOMAIN g)
  BY FS_Union DEF Folder
<1>2. QED  BY <1>1 DEF Folder, Vouches!Under

(* The job of a command is one of the kinds, told apart by where it is.      *)
LEMMA DoingShape ==
  ASSUME VouchTyped, NEW p \in Procs
  PROVE  /\ doing[p].at \in {"claim", "signature"} <=> doing[p] \in Writings
         /\ doing[p].at \in {"next", "move", "follow", "drop"} <=> doing[p] \in Arrangings
         /\ doing[p].at \in {"revoke", "rewrite"} <=> doing[p] \in Revokings
         /\ doing[p].at = "idle" <=> doing[p] = Vouches!Idle
<1>1. doing[p] \in Doings
  BY DEF VouchTyped
<1>2. \A j \in Writings : j.at \in {"claim", "signature"}
  BY DEF Writings
<1>3. \A j \in Arrangings : j.at \in {"next", "move", "follow", "drop"}
  BY DEF Arrangings
<1>4. \A j \in Revokings : j.at \in {"revoke", "rewrite"}
  BY DEF Revokings
<1>5. Vouches!Idle.at = "idle"
  BY DEF Vouches!Idle
<1>6. QED  BY <1>1, <1>2, <1>3, <1>4, <1>5 DEF Doings

LEMMA JobsStay ==
  ASSUME VouchTyped, NEW p \in Procs, NEW j \in Doings, doing' = [doing EXCEPT ![p] = j],
         j.at \in {"revoke", "rewrite"} => j.becomes <= j.read,
         j.at \in {"move", "follow", "drop"} => j.todo # <<>>
  PROVE  /\ doing' \in [Procs -> Doings]
         /\ \A q \in Procs :
              /\ doing'[q].at \in {"revoke", "rewrite"} => doing'[q].becomes <= doing'[q].read
              /\ doing'[q].at \in {"move", "follow", "drop"} => doing'[q].todo # <<>>
BY DEF VouchTyped

LEMMA IdleDoing == Vouches!Idle \in Doings /\ Vouches!Idle.at = "idle"
BY DEF Doings, Vouches!Idle

(* The head of what is left to arrange.                                      *)
LEMMA TodoShape ==
  ASSUME VouchTyped, NEW p \in Procs, doing[p].at \in {"next", "move", "follow", "drop"}
  PROVE  /\ doing[p].in \in Sites
         /\ doing[p].todo \in Seq({"move", "drop"} \X Names \X Names)
         /\ doing[p].at # "next" => doing[p].todo # <<>>
         /\ doing[p].todo # <<>> =>
              /\ Head(doing[p].todo)[1] \in {"move", "drop"}
              /\ Head(doing[p].todo)[2] \in Names /\ Head(doing[p].todo)[3] \in Names
              /\ Vouches!Rest(p) \in Arrangings /\ Vouches!Rest(p).at = "next"
              /\ \A at \in {"next", "move", "follow", "drop"} :
                   Vouches!Arranging(at, doing[p].in, doing[p].todo) \in Arrangings
<1>1. doing[p] \in Arrangings
  BY DoingShape
<1>2. doing[p].in \in Sites /\ doing[p].todo \in Seq({"move", "drop"} \X Names \X Names)
  BY <1>1 DEF Arrangings
<1>3. doing[p].at # "next" => doing[p].todo # <<>>
  BY DEF VouchTyped
<1>4. ASSUME doing[p].todo # <<>>
      PROVE  /\ Head(doing[p].todo) \in {"move", "drop"} \X Names \X Names
             /\ Tail(doing[p].todo) \in Seq({"move", "drop"} \X Names \X Names)
  BY <1>2, <1>4
<1>5. QED  BY <1>2, <1>3, <1>4 DEF Arrangings, Vouches!Rest, Vouches!Arranging

LEMMA FoldersPut ==
  ASSUME NEW each, Folders(each), NEW c \in Sites, NEW f, Folder(f)
  PROVE  Folders([each EXCEPT ![c] = f])
BY DEF Folders

LEMMA FolderPut ==
  ASSUME NEW each, Folders(each), NEW c \in Sites, NEW n \in Names, NEW x \in Vouches!Claim
  PROVE  Folders(Vouches!Put(each, c, n, x))
<1>1. Folder(each[c])
  BY DEF Folders
<1>2. Folder(Vouches!With(each[c], n, x))
  BY <1>1, WithStays
<1>3. QED  BY <1>2, FoldersPut DEF Vouches!Put

LEMMA FolderTaken ==
  ASSUME NEW each, Folders(each), NEW c \in Sites, NEW n
  PROVE  Folders(Vouches!Take(each, c, n))
<1>1. Folder(each[c])
  BY DEF Folders
<1>2. Folder(Vouches!Restrict(each[c], DOMAIN each[c] \ {n}))
  BY <1>1, RestrictStays
<1>3. QED  BY <1>2, FoldersPut DEF Vouches!Take

LEMMA TypedSign ==
  ASSUME VouchTyped, NEW p \in Procs, NEW c \in Sites, NEW k \in Keys, NEW r \in Roles, Vouches!Sign(p, c, k, r)
  PROVE  VouchTyped'
<1> DEFINE x == [role |-> r, key |-> k, when |-> now]
           n == Vouches!StemFor(c, Vouches!Range(document[c]), x)
           j == Vouches!Writing("claim", c, x, n)
<1>1. x \in Vouches!Claim
  BY DEF VouchTyped, Vouches!Claim
<1> HIDE DEF x
<1>2. n \in Names
  <2>1. n \in {Vouches!Plain(Vouches!Base(c, x)), Vouches!ByKey(Vouches!Base(c, x), x),
               Vouches!ByDigest(Vouches!Base(c, x), x)}
    BY DEF Vouches!StemFor
  <2>2. QED  BY <1>1, <2>1, StemShape
<1> HIDE DEF n
<1>3. j \in Writings /\ j.at = "claim"
  BY <1>1, <1>2 DEF Vouches!Writing, Writings
<1>4. doing' = [doing EXCEPT ![p] = j] /\ cut' \in {cut, cut \cup {c}}
  BY DEF Vouches!Sign, Vouches!Start, x, n
<1> HIDE DEF j
<1>5. j \in Doings
  BY <1>3 DEF Doings
<1>6. UNCHANGED <<holds, document, signature, trust, now, told>>
  BY DEF Vouches!Sign, Vouches!claims
<1>7. QED  BY <1>3, <1>4, <1>5, <1>6, JobsStay DEF VouchTyped

LEMMA TypedWriteClaim ==
  ASSUME VouchTyped, NEW p \in Procs, Vouches!WriteClaim(p)
  PROVE  VouchTyped'
<1>1. doing[p] \in Writings
  BY DoingShape DEF Vouches!WriteClaim
<1>2. doing[p].in \in Sites /\ doing[p].claim \in Vouches!Claim /\ doing[p].to \in Names
  BY <1>1 DEF Writings
<1> DEFINE j == Vouches!Writing("signature", doing[p].in, doing[p].claim, doing[p].to)
<1>3. j \in Doings /\ j.at = "signature"
  BY <1>2 DEF Vouches!Writing, Writings, Doings
<1>4. /\ doing' = [doing EXCEPT ![p] = j]
      /\ document' = document \/ document' = Vouches!Put(document, doing[p].in, doing[p].to, doing[p].claim)
      /\ UNCHANGED <<holds, signature, trust, now, told, cut>>
  BY DEF Vouches!WriteClaim, Vouches!Step, Vouches!history
<1> HIDE DEF j
<1>5. Folders(document')
  BY <1>2, <1>4, FolderPut DEF VouchTyped
<1>6. QED  BY <1>3, <1>4, <1>5, JobsStay DEF VouchTyped

LEMMA TypedWriteSignature ==
  ASSUME VouchTyped, NEW p \in Procs, Vouches!WriteSignature(p)
  PROVE  VouchTyped'
<1>1. doing[p] \in Writings
  BY DoingShape DEF Vouches!WriteSignature
<1>2. doing[p].in \in Sites /\ doing[p].claim \in Vouches!Claim /\ doing[p].to \in Names
  BY <1>1 DEF Writings
<1>3. /\ doing' = [doing EXCEPT ![p] = Vouches!Idle]
      /\ signature' = signature \/ signature' = Vouches!Put(signature, doing[p].in, doing[p].to, doing[p].claim)
      /\ told' = [told EXCEPT ![doing[p].in] = @ \cup {doing[p].claim}]
      /\ UNCHANGED <<holds, document, trust, now, cut>>
  BY DEF Vouches!WriteSignature, Vouches!Finish
<1>4. Folders(signature')
  BY <1>2, <1>3, FolderPut DEF VouchTyped
<1>5. DOMAIN told' = Sites /\ \A c \in Sites : told'[c] \subseteq Vouches!Claim
  BY <1>2, <1>3 DEF VouchTyped
<1>6. QED  BY <1>3, <1>4, <1>5, IdleDoing, JobsStay DEF VouchTyped

LEMMA TypedWriteByHand ==
  ASSUME VouchTyped, NEW c \in Sites, NEW k \in Keys, NEW r \in Roles, Vouches!WriteByHand(c, k, r)
  PROVE  VouchTyped'
<1> DEFINE x == [role |-> r, key |-> k, when |-> now]
<1>1. x \in Vouches!Claim
  BY DEF VouchTyped, Vouches!Claim
<1>2. Vouches!ByHand \in Names
  BY DEF Vouches!ByHand, Names, Bases
<1>3. /\ document' = Vouches!Put(document, c, Vouches!ByHand, x)
      /\ signature' = Vouches!Put(signature, c, Vouches!ByHand, x)
      /\ told' = [told EXCEPT ![c] = @ \cup {x}] /\ cut' \in {cut, cut \cup {c}}
      /\ UNCHANGED <<holds, trust, doing, now>>
  BY DEF Vouches!WriteByHand
<1> HIDE DEF x
<1>4. Folders(document') /\ Folders(signature')
  BY <1>1, <1>2, <1>3, FolderPut DEF VouchTyped
<1>5. DOMAIN told' = Sites /\ \A d \in Sites : told'[d] \subseteq Vouches!Claim
  BY <1>1, <1>3 DEF VouchTyped
<1>6. QED  BY <1>3, <1>4, <1>5 DEF VouchTyped

(* Of the files holding a claim, one is the first.                           *)
LEMMA FirstIsThere ==
  ASSUME NEW S, S # {}
  PROVE  Vouches!First(S) \in S
<1>1. \A n : Vouches!Place(n) \in Nat
  BY DEF Vouches!Place
<1>2. PICK n \in S : \A m \in S : Vouches!Place(n) <= Vouches!Place(m)
  <2> DEFINE P == {Vouches!Place(n) : n \in S}
             R == OpToRel(<, Nat)
  <2>1. P \subseteq Nat /\ P # {}
    BY <1>1
  <2>2. \E k \in P : \A m \in P : ~(<<m, k>> \in R)
    <3> HIDE DEF P, R
    <3>1. IsWellFoundedOn(R, Nat)
      BY NatLessThanWellFounded DEF R
    <3>2. QED  BY <2>1, <3>1, WFMin
  <2>3. PICK k \in P : \A m \in P : ~(m < k)
    BY <2>1, <2>2 DEF OpToRel
  <2>4. \A m \in P : k <= m
    BY <2>1, <2>3
  <2>5. PICK n \in S : k = Vouches!Place(n)
    BY <2>3
  <2>6. \A m \in S : Vouches!Place(m) \in P
    OBVIOUS
  <2>7. QED  BY <2>4, <2>5, <2>6
<1>3. QED  BY <1>2 DEF Vouches!First

(* What is counted is there, and what an arranging is to do.                 *)
LEMMA MovesShape ==
  ASSUME VouchTyped, NEW c \in Sites
  PROVE  /\ IsFiniteSet(DOMAIN Vouches!Moves(c)) /\ DOMAIN Vouches!Moves(c) \subseteq DOMAIN document[c]
         /\ \A n \in DOMAIN Vouches!Moves(c) :
              LET move == Vouches!Moves(c)[n] IN
              /\ move \in {"move", "drop"} \X Names \X Names /\ move[2] = n
              /\ move[1] = "move" => Says(move[3], document[c][n])
              /\ move[1] = "drop" => move[3] # n
<1> DEFINE alike(x) == {m \in DOMAIN document[c] : document[c][m] = x}
           misfiled == {n \in Vouches!Counted(c) :
                          n # Vouches!StemOf(c, Vouches!Range(document[c]), document[c][n])}
           spare == DOMAIN document[c] \ Vouches!Counted(c)
           moves == Vouches!Moves(c)
<1>1. Folder(document[c])
  BY DEF VouchTyped, Folders
<1>2. \A n \in DOMAIN document[c] : Vouches!First(alike(document[c][n])) \in alike(document[c][n])
  BY FirstIsThere
<1>3. Vouches!Counted(c) = {Vouches!First(alike(document[c][n])) : n \in DOMAIN document[c]}
  BY DEF Vouches!Counted, Vouches!Range
<1>4. Vouches!Counted(c) \subseteq DOMAIN document[c]
  BY <1>2, <1>3
<1>5. DOMAIN moves = misfiled \cup spare
  BY DEF Vouches!Moves
<1>6. DOMAIN moves \subseteq DOMAIN document[c]
  BY <1>4, <1>5
<1>7. IsFiniteSet(DOMAIN moves)
  BY <1>1, <1>6, FS_Subset DEF Folder
<1>8. ASSUME NEW n \in DOMAIN moves
      PROVE  /\ moves[n] \in {"move", "drop"} \X Names \X Names /\ moves[n][2] = n
             /\ moves[n][1] = "move" => Says(moves[n][3], document[c][n])
             /\ moves[n][1] = "drop" => moves[n][3] # n
  <2>1. n \in DOMAIN document[c] /\ n \in Names /\ document[c][n] \in Vouches!Claim
    BY <1>1, <1>6 DEF Folder
  <2>2. CASE n \in misfiled
    <3> DEFINE to == Vouches!StemOf(c, Vouches!Range(document[c]), document[c][n])
    <3>1. to \in Names /\ Says(to, document[c][n])
      BY <2>1, StemOfSays
    <3>2. moves[n] = <<"move", n, to>>
      BY <2>2 DEF Vouches!Moves
    <3> HIDE DEF to, moves
    <3>3. QED  BY <2>1, <3>1, <3>2
  <2>3. CASE n \notin misfiled
    <3> DEFINE of == Vouches!First(alike(document[c][n]))
    <3>1. n \in spare
      BY <1>5, <2>3
    <3>2. moves[n] = <<"drop", n, of>>
      BY <2>3, <3>1 DEF Vouches!Moves
    <3>3. of \in DOMAIN document[c] /\ of \in Vouches!Counted(c)
      BY <1>2, <1>3, <2>1
    <3>4. of \in Names /\ of # n
      BY <1>1, <3>1, <3>3 DEF Folder
    <3> HIDE DEF of, moves
    <3>5. QED  BY <2>1, <3>2, <3>4
  <2>4. QED  BY <2>2, <2>3
<1>9. QED  BY <1>6, <1>7, <1>8

(* The list of an arranging, in whichever order its names have.              *)
LEMMA ArrangeShape ==
  ASSUME VouchTyped, NEW p \in Procs, NEW c \in Sites, Vouches!Arrange(p, c)
  PROVE  \E todo \in Seq({"move", "drop"} \X Names \X Names) :
           /\ doing[p] = Vouches!Idle /\ doing' = [doing EXCEPT ![p] = Vouches!Arranging("next", c, todo)]
           /\ \A i \in 1..Len(todo) :
                /\ todo[i][2] \in DOMAIN document[c]
                /\ todo[i][1] = "move" => Says(todo[i][3], document[c][todo[i][2]])
                /\ todo[i][1] = "drop" => todo[i][2] # todo[i][3]
           /\ \A i, j \in 1..Len(todo) : todo[i][2] = todo[j][2] => i = j
<1> DEFINE moves == Vouches!Moves(c)
<1>1. PICK order \in Vouches!SetToSeqs(DOMAIN moves) :
        /\ doing[p] = Vouches!Idle
        /\ doing' = [doing EXCEPT ![p] = Vouches!Arranging("next", c, [i \in DOMAIN order |-> moves[order[i]]])]
  BY DEF Vouches!Arrange, Vouches!Start
<1>2. /\ DOMAIN moves \subseteq DOMAIN document[c]
      /\ \A n \in DOMAIN moves :
           /\ moves[n] \in {"move", "drop"} \X Names \X Names /\ moves[n][2] = n
           /\ moves[n][1] = "move" => Says(moves[n][3], document[c][n])
           /\ moves[n][1] = "drop" => moves[n][3] # n
  BY MovesShape
<1>3. Cardinality(DOMAIN moves) \in Nat
  BY MovesShape, FS_CardinalityType
<1> HIDE DEF moves
<1>4. /\ order \in [1..Cardinality(DOMAIN moves) -> DOMAIN moves]
      /\ \A i, j \in 1..Cardinality(DOMAIN moves) : i # j => order[i] # order[j]
  <2>1. Vouches!Cardinality(DOMAIN moves) = Cardinality(DOMAIN moves)
    BY DEF Vouches!Cardinality, Cardinality
  <2>2. QED  BY <2>1 DEF Vouches!SetToSeqs
<1> DEFINE todo == [i \in DOMAIN order |-> moves[order[i]]]
<1>5. todo \in [1..Cardinality(DOMAIN moves) -> {"move", "drop"} \X Names \X Names]
  BY <1>2, <1>4
<1>6. todo \in Seq({"move", "drop"} \X Names \X Names) /\ Len(todo) = Cardinality(DOMAIN moves)
  BY <1>3, <1>5
<1>7. \A i \in 1..Len(todo) : order[i] \in DOMAIN moves /\ todo[i] = moves[order[i]] /\ todo[i][2] = order[i]
  BY <1>2, <1>4, <1>6
<1> HIDE DEF todo
<1>8. /\ \A i \in 1..Len(todo) :
           /\ todo[i][2] \in DOMAIN document[c]
           /\ todo[i][1] = "move" => Says(todo[i][3], document[c][todo[i][2]])
           /\ todo[i][1] = "drop" => todo[i][2] # todo[i][3]
      /\ \A i, j \in 1..Len(todo) : todo[i][2] = todo[j][2] => i = j
  BY <1>2, <1>4, <1>6, <1>7
<1>9. QED  BY <1>1, <1>6, <1>8 DEF todo

LEMMA TypedArrange ==
  ASSUME VouchTyped, NEW p \in Procs, NEW c \in Sites, Vouches!Arrange(p, c)
  PROVE  VouchTyped'
<1>1. PICK todo \in Seq({"move", "drop"} \X Names \X Names) :
        doing' = [doing EXCEPT ![p] = Vouches!Arranging("next", c, todo)]
  BY ArrangeShape
<1> DEFINE j == Vouches!Arranging("next", c, todo)
<1>2. j \in Doings /\ j.at = "next"
  BY DEF Vouches!Arranging, Arrangings, Doings
<1>3. UNCHANGED <<holds, document, signature, trust, now, told>> /\ cut' \in {cut, cut \cup {c}}
  BY DEF Vouches!Arrange, Vouches!Start, Vouches!claims
<1> HIDE DEF j
<1>4. doing' = [doing EXCEPT ![p] = j]
  BY <1>1 DEF j
<1>5. QED  BY <1>2, <1>3, <1>4, JobsStay DEF VouchTyped

(* A step of an arranging leaves a command of the same kind, or an idle one. *)
LEMMA TypedArranging ==
  ASSUME VouchTyped, NEW p \in Procs, doing[p].at \in {"next", "move", "follow", "drop"},
         NEW j, doing' = [doing EXCEPT ![p] = j],
         \/ j = Vouches!Idle
         \/ doing[p].todo # <<>> /\ j = Vouches!Rest(p)
         \/ /\ doing[p].todo # <<>>
            /\ \E at \in {"next", "move", "follow", "drop"} : j = Vouches!Arranging(at, doing[p].in, doing[p].todo),
         Folders(document'), Folders(signature'), UNCHANGED <<holds, trust, now, told, cut>>
  PROVE  VouchTyped'
<1>1. /\ j \in Doings
      /\ j.at \in {"move", "follow", "drop"} => j.todo # <<>>
      /\ j.at \notin {"revoke", "rewrite"}
  <2>1. CASE j = Vouches!Idle
    BY <2>1, IdleDoing
  <2>2. CASE doing[p].todo # <<>> /\ j = Vouches!Rest(p)
    BY <2>2, TodoShape DEF Doings
  <2>3. CASE /\ doing[p].todo # <<>>
             /\ \E at \in {"next", "move", "follow", "drop"} : j = Vouches!Arranging(at, doing[p].in, doing[p].todo)
    <3>1. PICK at \in {"next", "move", "follow", "drop"} : j = Vouches!Arranging(at, doing[p].in, doing[p].todo)
      BY <2>3
    <3>2. j \in Arrangings /\ j.at = at /\ j.todo = doing[p].todo
      BY <2>3, <3>1, TodoShape DEF Vouches!Arranging
    <3>3. QED  BY <2>3, <3>2 DEF Doings
  <2>4. QED  BY <2>1, <2>2, <2>3
<1>2. QED  BY <1>1, JobsStay DEF VouchTyped

LEMMA TypedSteps ==
  ASSUME VouchTyped, NEW p \in Procs,
         \/ Vouches!Look(p) \/ Vouches!MoveClaim(p) \/ Vouches!MoveSignature(p)
         \/ Vouches!DropSignature(p) \/ Vouches!DropClaim(p) \/ Vouches!Arranged(p)
  PROVE  VouchTyped'
<1> DEFINE c == doing[p].in  todo == doing[p].todo  from == Head(todo)[2]  to == Head(todo)[3]
<1>1. doing[p].at \in {"next", "move", "follow", "drop"}
  BY DEF Vouches!Look, Vouches!MoveClaim, Vouches!MoveSignature, Vouches!DropSignature, Vouches!DropClaim,
         Vouches!Arranged, Vouches!Doing
<1>2. /\ c \in Sites
      /\ doing[p].at # "next" => todo # <<>>
      /\ todo # <<>> => from \in Names /\ to \in Names
  BY <1>1, TodoShape
<1>3. Folders(document) /\ Folders(signature)
  BY DEF VouchTyped
<1>4. CASE Vouches!Look(p)
  <2>1. /\ todo # <<>> /\ UNCHANGED <<holds, document, signature, trust, now, told, cut>>
        /\ doing' = [doing EXCEPT ![p] = IF to \in DOMAIN document[c] THEN Vouches!Rest(p)
                                         ELSE Vouches!Arranging("move", c, todo)]
    BY <1>4 DEF Vouches!Look, Vouches!Doing, Vouches!Step, Vouches!claims, Vouches!history
  <2>2. QED  BY <1>1, <1>3, <2>1, TypedArranging
<1>5. CASE Vouches!MoveClaim(p)
  <2>1. doing[p].at = "move" /\ UNCHANGED <<holds, signature, trust, now, told, cut>>
    BY <1>5 DEF Vouches!MoveClaim, Vouches!history
  <2>2. \/ document' = document /\ doing' = [doing EXCEPT ![p] = Vouches!Idle]
        \/ /\ from \in DOMAIN document[c]
           /\ document' = Vouches!Put(Vouches!Take(document, c, from), c, to, document[c][from])
           /\ doing' = [doing EXCEPT ![p] = Vouches!Arranging("follow", c, todo)]
    BY <1>5 DEF Vouches!MoveClaim, Vouches!Step, Vouches!Finish
  <2>3. ASSUME from \in DOMAIN document[c]
        PROVE  Folders(Vouches!Put(Vouches!Take(document, c, from), c, to, document[c][from]))
    <3>1. document[c][from] \in Vouches!Claim
      BY <1>2, <1>3, <2>3 DEF Folders, Folder
    <3>2. from \in Names /\ to \in Names
      BY <1>2, <2>1
    <3>3. Folders(Vouches!Take(document, c, from))
      BY <1>2, <1>3, FolderTaken
    <3>4. QED  BY <1>2, <3>1, <3>2, <3>3, FolderPut
  <2>4. Folders(document')
    BY <1>3, <2>2, <2>3
  <2>5. QED  BY <1>1, <1>2, <1>3, <2>1, <2>2, <2>4, TypedArranging
<1>6. CASE Vouches!MoveSignature(p)
  <2>1. doing[p].at = "follow" /\ UNCHANGED <<holds, document, trust, now, told, cut>>
    BY <1>6 DEF Vouches!MoveSignature, Vouches!history
  <2>2. doing' = [doing EXCEPT ![p] = Vouches!Rest(p)]
    BY <1>6 DEF Vouches!MoveSignature, Vouches!Step
  <2>3. \/ signature' = signature
        \/ /\ from \in DOMAIN signature[c]
           /\ signature' = Vouches!Put(Vouches!Take(signature, c, from), c, to, signature[c][from])
    BY <1>6 DEF Vouches!MoveSignature
  <2>4. ASSUME from \in DOMAIN signature[c]
        PROVE  Folders(Vouches!Put(Vouches!Take(signature, c, from), c, to, signature[c][from]))
    <3>1. signature[c][from] \in Vouches!Claim
      BY <1>2, <1>3, <2>4 DEF Folders, Folder
    <3>2. from \in Names /\ to \in Names
      BY <1>2, <2>1
    <3>3. Folders(Vouches!Take(signature, c, from))
      BY <1>2, <1>3, FolderTaken
    <3>4. QED  BY <1>2, <3>1, <3>2, <3>3, FolderPut
  <2>5. Folders(signature')
    BY <1>3, <2>3, <2>4
  <2>6. QED  BY <1>1, <1>2, <1>3, <2>1, <2>2, <2>5, TypedArranging
<1>7. CASE Vouches!DropSignature(p)
  <2>1. todo # <<>> /\ UNCHANGED <<holds, document, trust, now, told, cut>>
    BY <1>7 DEF Vouches!DropSignature, Vouches!Doing, Vouches!history
  <2>2. /\ signature' \in {signature, Vouches!Take(signature, c, from)}
        /\ \/ doing' = [doing EXCEPT ![p] = Vouches!Idle]
           \/ doing' = [doing EXCEPT ![p] = Vouches!Rest(p)]
           \/ doing' = [doing EXCEPT ![p] = Vouches!Arranging("drop", c, todo)]
    BY <1>7 DEF Vouches!DropSignature, Vouches!Step, Vouches!Finish
  <2>3. Folders(signature')
    BY <1>2, <1>3, <2>2, FolderTaken
  <2>4. QED  BY <1>1, <1>3, <2>1, <2>2, <2>3, TypedArranging
<1>8. CASE Vouches!DropClaim(p)
  <2>1. doing[p].at = "drop" /\ UNCHANGED <<holds, signature, trust, now, told, cut>>
    BY <1>8 DEF Vouches!DropClaim, Vouches!history
  <2>2. document' = Vouches!Take(document, c, from) /\ doing' = [doing EXCEPT ![p] = Vouches!Rest(p)]
    BY <1>8 DEF Vouches!DropClaim, Vouches!Step
  <2>3. Folders(document')
    BY <1>2, <1>3, <2>2, FolderTaken
  <2>4. QED  BY <1>1, <1>2, <1>3, <2>1, <2>2, <2>3, TypedArranging
<1>9. CASE Vouches!Arranged(p)
  <2>1. /\ doing' = [doing EXCEPT ![p] = Vouches!Idle]
        /\ UNCHANGED <<holds, document, signature, trust, now, told, cut>>
    BY <1>9 DEF Vouches!Arranged, Vouches!Finish, Vouches!claims, Vouches!history
  <2>2. QED  BY <1>1, <1>3, <2>1, TypedArranging
<1>10. QED  BY <1>4, <1>5, <1>6, <1>7, <1>8, <1>9

LEMMA TypedUnion ==
  ASSUME VouchTyped, NEW c \in Sites, NEW d \in Sites, Vouches!Receive(c, d) \/ Vouches!Sync(c, d)
  PROVE  VouchTyped'
<1>1. /\ document' = [document EXCEPT ![c] = Vouches!Under(@, document[d])]
      /\ signature' = [signature EXCEPT ![c] = Vouches!Under(@, signature[d])]
      /\ told' = [told EXCEPT ![c] = @ \cup Vouches!Signed(c)']
      /\ cut' \in {cut, cut \cup {c}} /\ holds' \in {holds, holds \cup {c}}
      /\ UNCHANGED <<trust, doing, now>>
  BY DEF Vouches!Receive, Vouches!Sync, Vouches!Union
<1>2. Folders(document) /\ Folders(signature)
  BY DEF VouchTyped
<1>3. Folder(Vouches!Under(document[c], document[d])) /\ Folder(Vouches!Under(signature[c], signature[d]))
  <2>1. \A e \in Sites : Folder(document[e]) /\ Folder(signature[e])
    BY <1>2 DEF Folders
  <2>2. QED  BY <2>1, UnderStays
<1>4. Folders(document') /\ Folders(signature')
  BY <1>1, <1>2, <1>3, FoldersPut
<1>5. Vouches!Signed(c)' \subseteq Vouches!Claim
  BY <1>4 DEF Vouches!Signed, Folders, Folder
<1>6. DOMAIN told' = Sites /\ \A e \in Sites : told'[e] \subseteq Vouches!Claim
  BY <1>1, <1>5 DEF VouchTyped
<1>7. QED  BY <1>1, <1>4, <1>6 DEF VouchTyped

(* Steps of a person, of the trust commands, of the clock and of a stop.     *)
LEMMA NeverIsLast == MaxDays \in Nat /\ Vouches!Never = MaxDays + 1
BY BoundsAssumption DEF Vouches!Never

LEMMA TypedTrust ==
  ASSUME VouchTyped, NEW c \in Sites, NEW l \in Vouches!Labels, Vouches!Believe(c, l) \/ Vouches!Disbelieve(c, l)
  PROVE  VouchTyped'
<1>1. /\ \/ trust' = [trust EXCEPT ![c] = Vouches!With(@, l, Vouches!Never)]
         \/ trust' = [trust EXCEPT ![c] = Vouches!Restrict(@, DOMAIN @ \ {l})]
      /\ UNCHANGED <<holds, document, signature, doing, now, told, cut>>
  BY DEF Vouches!Believe, Vouches!Disbelieve, Vouches!claims, Vouches!history
<1>2. DOMAIN trust' = Sites
  BY <1>1 DEF VouchTyped
<1>3. ASSUME NEW e \in Sites
      PROVE  /\ DOMAIN trust'[e] \subseteq Vouches!Labels
             /\ \A m \in DOMAIN trust'[e] : trust'[e][m] \in 1..Vouches!Never
  <2>1. Vouches!Never \in 1..Vouches!Never
    BY NeverIsLast
  <2>2. trust'[e] \in {trust[e], Vouches!With(trust[e], l, Vouches!Never),
                       Vouches!Restrict(trust[e], DOMAIN trust[e] \ {l})}
    BY <1>1 DEF VouchTyped
  <2>3. QED  BY <2>1, <2>2 DEF VouchTyped, Vouches!With, Vouches!Restrict
<1>4. QED  BY <1>1, <1>2, <1>3 DEF VouchTyped

LEMMA TypedRevoke ==
  ASSUME VouchTyped, NEW p \in Procs, NEW c \in Sites, NEW l \in Vouches!Labels, NEW w \in 1..MaxDays,
         Vouches!Revoke(p, c, l, w)
  PROVE  VouchTyped'
<1> DEFINE j == [at |-> "revoke", in |-> c, label |-> l, read |-> trust[c][l],
                 becomes |-> IF w < trust[c][l] THEN w ELSE trust[c][l]]
<1>1. /\ l \in DOMAIN trust[c] /\ doing' = [doing EXCEPT ![p] = j]
      /\ UNCHANGED <<holds, document, signature, trust, now, told, cut>>
  BY DEF Vouches!Revoke, Vouches!Revoking, Vouches!Step, Vouches!claims, Vouches!history
<1>2. trust[c][l] \in 1..Vouches!Never /\ w \in 1..Vouches!Never
  BY <1>1, NeverIsLast DEF VouchTyped
<1>3. j \in Revokings /\ j.at = "revoke" /\ j.becomes <= j.read
  BY <1>2, NeverIsLast DEF Revokings
<1> HIDE DEF j
<1>4. QED  BY <1>1, <1>3, JobsStay DEF VouchTyped, Doings

LEMMA TypedCompare ==
  ASSUME VouchTyped, NEW p \in Procs, Vouches!Compare(p)
  PROVE  VouchTyped'
<1> DEFINE j == [at |-> "rewrite", in |-> doing[p].in, label |-> doing[p].label,
                 read |-> trust[doing[p].in][doing[p].label], becomes |-> doing[p].becomes]
<1>1. doing[p] \in Revokings /\ doing[p].becomes <= doing[p].read
  BY DoingShape DEF Vouches!Compare, VouchTyped
<1>2. /\ \/ doing' = [doing EXCEPT ![p] = Vouches!Idle]
         \/ /\ trust[doing[p].in][doing[p].label] = doing[p].read
            /\ doing' = [doing EXCEPT ![p] = j]
      /\ UNCHANGED <<holds, document, signature, trust, now, told, cut>>
  BY DEF Vouches!Compare, Vouches!Revoking, Vouches!Step, Vouches!Finish, Vouches!claims, Vouches!history
<1>3. CASE doing' = [doing EXCEPT ![p] = Vouches!Idle]
  BY <1>2, <1>3, IdleDoing, JobsStay DEF VouchTyped
<1>4. CASE /\ trust[doing[p].in][doing[p].label] = doing[p].read
           /\ doing' = [doing EXCEPT ![p] = j]
  <2>1. j \in Revokings /\ j.at = "rewrite" /\ j.becomes <= j.read
    BY <1>1, <1>4 DEF Revokings
  <2> HIDE DEF j
  <2>2. QED  BY <1>2, <1>4, <2>1, JobsStay DEF VouchTyped, Doings
<1>5. QED  BY <1>2, <1>3, <1>4

LEMMA TypedRewrite ==
  ASSUME VouchTyped, NEW p \in Procs, Vouches!Rewrite(p)
  PROVE  VouchTyped'
<1>1. doing[p] \in Revokings
  BY DoingShape DEF Vouches!Rewrite
<1>2. doing[p].in \in Sites /\ doing[p].label \in Vouches!Labels /\ doing[p].becomes \in 1..Vouches!Never
  BY <1>1 DEF Revokings
<1>3. /\ trust' = [trust EXCEPT ![doing[p].in] = Vouches!With(trust[doing[p].in], doing[p].label, doing[p].becomes)]
      /\ doing' = [doing EXCEPT ![p] = Vouches!Idle]
      /\ UNCHANGED <<holds, document, signature, now, told, cut>>
  BY DEF Vouches!Rewrite, Vouches!Finish, Vouches!claims, Vouches!history
<1>4. DOMAIN trust' = Sites
  BY <1>3 DEF VouchTyped
<1>5. \A e \in Sites : /\ DOMAIN trust'[e] \subseteq DOMAIN trust[e] \cup {doing[p].label}
                       /\ \A m \in DOMAIN trust'[e] :
                            trust'[e][m] = doing[p].becomes \/ (m \in DOMAIN trust[e] /\ trust'[e][m] = trust[e][m])
  BY <1>2, <1>3 DEF VouchTyped, Vouches!With
<1>6. \A e \in Sites : /\ DOMAIN trust'[e] \subseteq Vouches!Labels
                       /\ \A m \in DOMAIN trust'[e] : trust'[e][m] \in 1..Vouches!Never
  BY <1>2, <1>5 DEF VouchTyped
<1>7. QED  BY <1>3, <1>4, <1>6, IdleDoing, JobsStay DEF VouchTyped

LEMMA TypedStop ==
  ASSUME VouchTyped, NEW p \in Procs, Vouches!Stop(p)
  PROVE  VouchTyped'
<1>1. /\ doing[p] # Vouches!Idle /\ cut' = cut \cup {doing[p].in} /\ doing' = [doing EXCEPT ![p] = Vouches!Idle]
      /\ UNCHANGED <<holds, document, signature, trust, now, told>>
  BY DEF Vouches!Stop, Vouches!Finish, Vouches!claims
<1>2. doing[p].in \in Sites
  BY <1>1 DEF VouchTyped, Doings, Writings, Arrangings, Revokings
<1>3. QED  BY <1>1, <1>2, IdleDoing, JobsStay DEF VouchTyped

LEMMA TypedTick ==
  ASSUME VouchTyped, Vouches!Tick
  PROVE  VouchTyped'
BY BoundsAssumption DEF VouchTyped, Vouches!Tick, Vouches!claims, Vouches!bounds, Vouches!history

LEMMA VouchingTyped ==
  ASSUME VouchTyped, [Vouches!Next]_(Vouches!vars)
  PROVE  VouchTyped'
<1>1. CASE UNCHANGED Vouches!vars
  BY <1>1 DEF VouchTyped, Vouches!vars
<1>2. CASE Vouches!Next
  BY <1>2, TypedSign, TypedWriteByHand, TypedWriteClaim, TypedWriteSignature, TypedArrange, TypedSteps, TypedUnion,
     TypedTrust, TypedRevoke, TypedCompare, TypedRewrite, TypedStop, TypedTick DEF Vouches!Next
<1>3. QED  BY <1>1, <1>2
-----------------------------------------------------------------------------
(* Copies that are uncut.  A copy a step does not touch stays as it was.     *)
LEMMA HandsAfter ==
  ASSUME VouchTyped, NEW p \in Procs, NEW j, doing' = [doing EXCEPT ![p] = j], NEW c
  PROVE  \A q \in Procs :
           q \in Hands(c)' <=> IF q = p THEN j \in Writings \cup Arrangings /\ j.in = c ELSE q \in Hands(c)
BY DEF VouchTyped, Hands

LEMMA IdleHands == Vouches!Idle \notin Writings \cup Arrangings
<1>1. \A j \in Writings \cup Arrangings : j.at # "idle"
  BY DEF Writings, Arrangings
<1>2. QED  BY <1>1 DEF Vouches!Idle

LEMMA Untouched ==
  ASSUME NEW c, Uncut(c), document'[c] = document[c], signature'[c] = signature[c], told'[c] = told[c],
         Hands(c)' = Hands(c), \A p \in Hands(c) : doing'[p] = doing[p]
  PROVE  Uncut(c)'
BY DEF Uncut

(* The one that is writing in an uncut copy may leave it between two files,  *)
(* or done with.                                                             *)
LEMMA Worked ==
  ASSUME VouchTyped, NEW p \in Procs, NEW c, \A q \in Hands(c) : q = p,
         NEW j, doing' = [doing EXCEPT ![p] = j],
         \/ j \in Writings \cup Arrangings /\ j.in = c /\ Midway(document'[c], signature'[c], j)
         \/ j = Vouches!Idle /\ Matched(document'[c], signature'[c], {}),
         Standing(document'[c], told'[c])
  PROVE  Uncut(c)'
<1>1. \A q \in Hands(c)' : q \in Procs
  BY DEF Hands
<1>2. doing'[p] = j
  BY DEF VouchTyped
<1>3. \A q \in Hands(c)' : q = p
  BY <1>1, HandsAfter
<1>4. CASE j = Vouches!Idle
  <2>1. p \notin Hands(c)'
    BY <1>4, HandsAfter, IdleHands
  <2>2. Hands(c)' = {}
    BY <1>3, <2>1
  <2>3. Matched(document'[c], signature'[c], {})
    BY <1>4, IdleHands
  <2>4. QED  BY <2>2, <2>3 DEF Uncut
<1>5. CASE j # Vouches!Idle
  <2>1. p \in Hands(c)' /\ Midway(document'[c], signature'[c], doing'[p])
    BY <1>2, <1>5, HandsAfter
  <2>2. QED  BY <1>3, <2>1 DEF Uncut
<1>6. QED  BY <1>4, <1>5

(* A step of one command in its own copy leaves every other copy as it was.  *)
LEMMA WorkedElsewhere ==
  ASSUME VouchTyped, NEW p \in Procs, NEW c \in Sites, NEW j, doing' = [doing EXCEPT ![p] = j],
         doing[p] \in Writings \cup Arrangings => doing[p].in = c,
         j \in Writings \cup Arrangings => j.in = c,
         NEW d \in Sites, d # c, Uncut(d),
         document'[d] = document[d], signature'[d] = signature[d], told'[d] = told[d]
  PROVE  Uncut(d)'
<1>1. p \notin Hands(d)
  BY DEF Hands
<1>2. p \notin Hands(d)'
  BY HandsAfter
<1>3. \A q \in Procs : q \in Hands(d)' <=> q \in Hands(d)
  BY <1>1, <1>2, HandsAfter
<1>4. Hands(d) \subseteq Procs /\ Hands(d)' \subseteq Procs
  BY DEF Hands
<1>5. Hands(d)' = Hands(d)
  BY <1>3, <1>4
<1>6. \A q \in Hands(d) : doing'[q] = doing[q]
  BY <1>1, <1>4 DEF VouchTyped
<1>7. QED  BY <1>5, <1>6, Untouched

(* A command begins in a copy; were another within it, the copy is cut.      *)
LEMMA Began ==
  ASSUME VouchTyped, NEW p \in Procs, NEW c \in Sites, NEW j \in Writings \cup Arrangings, j.in = c,
         Vouches!Start(p, c, j), UNCHANGED <<document, signature, told>>,
         NEW d \in Sites \ cut', d \notin cut => Uncut(d),
         d = c /\ Matched(document[c], signature[c], {}) => Midway(document[c], signature[c], j)
  PROVE  Uncut(d)'
<1>1. /\ doing[p] = Vouches!Idle /\ doing' = [doing EXCEPT ![p] = j]
      /\ cut' = IF Vouches!Within(c) = {} THEN cut ELSE cut \cup {c}
  BY DEF Vouches!Start
<1>2. Uncut(d)
  BY <1>1
<1>3. CASE d # c
  BY <1>1, <1>2, <1>3, IdleHands, WorkedElsewhere
<1>4. CASE d = c
  <2>1. Vouches!Within(c) = {}
    BY <1>1, <1>4
  <2>2. Hands(c) = {}
    BY <2>1, IdleHands DEF Vouches!Within, Hands
  <2>3. Midway(document[c], signature[c], j) /\ Standing(document[c], told[c])
    BY <1>2, <1>4, <2>2 DEF Uncut
  <2>4. QED  BY <1>1, <1>4, <2>2, <2>3, Worked
<1>5. QED  BY <1>3, <1>4

(* So does any step of a command that leaves its own copy between two files, *)
(* or done with.                                                             *)
LEMMA Stepped ==
  ASSUME VouchTyped, NEW p \in Procs, NEW c \in Sites, doing[p] \in Writings \cup Arrangings, doing[p].in = c,
         NEW j, doing' = [doing EXCEPT ![p] = j],
         j = Vouches!Idle \/ (j \in Writings \cup Arrangings /\ j.in = c),
         \A d \in Sites \ {c} : document'[d] = document[d] /\ signature'[d] = signature[d] /\ told'[d] = told[d],
         Midway(document[c], signature[c], doing[p]) /\ Standing(document[c], told[c]) =>
           /\ j = Vouches!Idle => Matched(document'[c], signature'[c], {})
           /\ j # Vouches!Idle => Midway(document'[c], signature'[c], j)
           /\ Standing(document'[c], told'[c]),
         NEW d \in Sites, Uncut(d)
  PROVE  Uncut(d)'
<1>1. CASE d # c
  BY <1>1, IdleHands, WorkedElsewhere
<1>2. CASE d = c
  <2>1. p \in Hands(c)
    BY DEF Hands
  <2>2. Midway(document[c], signature[c], doing[p]) /\ Standing(document[c], told[c]) /\ \A q \in Hands(c) : q = p
    BY <1>2, <2>1 DEF Uncut
  <2>3. QED  BY <1>2, <2>2, Worked
<1>3. QED  BY <1>1, <1>2

LEMMA PutAt ==
  ASSUME NEW each, DOMAIN each = Sites, NEW c \in Sites, NEW n, NEW x
  PROVE  /\ DOMAIN Vouches!Put(each, c, n, x) = Sites
         /\ Vouches!Put(each, c, n, x)[c] = Vouches!With(each[c], n, x)
         /\ \A d \in Sites \ {c} : Vouches!Put(each, c, n, x)[d] = each[d]
BY DEF Vouches!Put

LEMMA TakenAt ==
  ASSUME NEW each, DOMAIN each = Sites, NEW c \in Sites, NEW n, NEW later, later = Vouches!Take(each, c, n)
  PROVE  /\ DOMAIN later[c] = DOMAIN each[c] \ {n} /\ \A m \in DOMAIN each[c] \ {n} : later[c][m] = each[c][m]
         /\ \A d \in Sites \ {c} : later[d] = each[d]
<1>1. later[c] = Vouches!Restrict(each[c], DOMAIN each[c] \ {n}) /\ \A d \in Sites \ {c} : later[d] = each[d]
  BY DEF Vouches!Take
<1>2. QED  BY <1>1 DEF Vouches!Restrict

LEMMA MovedAt ==
  ASSUME NEW each, DOMAIN each = Sites, NEW c \in Sites, NEW from \in DOMAIN each[c],
         NEW to, to \notin DOMAIN each[c], NEW later,
         later = Vouches!Put(Vouches!Take(each, c, from), c, to, each[c][from])
  PROVE  /\ DOMAIN later[c] = (DOMAIN each[c] \ {from}) \cup {to} /\ later[c][to] = each[c][from]
         /\ \A m \in DOMAIN each[c] \ {from} : later[c][m] = each[c][m]
         /\ \A d \in Sites \ {c} : later[d] = each[d]
<1>1. PICK taken : taken = Vouches!Take(each, c, from)
  OBVIOUS
<1>2. DOMAIN taken = Sites
  BY <1>1 DEF Vouches!Take
<1>3. later = [taken EXCEPT ![c] = Vouches!With(taken[c], to, each[c][from])]
  BY <1>1 DEF Vouches!Put
<1>4. later[c] = Vouches!With(taken[c], to, each[c][from]) /\ \A d \in Sites \ {c} : later[d] = taken[d]
  BY <1>2, <1>3
<1>5. /\ DOMAIN taken[c] = DOMAIN each[c] \ {from} /\ \A m \in DOMAIN each[c] \ {from} : taken[c][m] = each[c][m]
      /\ \A d \in Sites \ {c} : taken[d] = each[d]
  BY <1>1, TakenAt
<1>6. QED  BY <1>4, <1>5 DEF Vouches!With

(* What is left to arrange stays so while its files stand.                   *)
LEMMA OrderlyStill ==
  ASSUME NEW docs, NEW todo, Orderly(docs, todo), NEW others,
         \A i \in 1..Len(todo) :
           todo[i][2] \in DOMAIN docs => todo[i][2] \in DOMAIN others /\ others[todo[i][2]] = docs[todo[i][2]]
  PROVE  Orderly(others, todo)
BY DEF Orderly

LEMMA TailStays ==
  ASSUME NEW S, NEW todo \in Seq(S), todo # <<>>, NEW docs, Orderly(docs, todo)
  PROVE  /\ Orderly(docs, Tail(todo))
         /\ Head(todo)[1] = "move" =>
              Head(todo)[2] \in DOMAIN docs /\ Says(Head(todo)[3], docs[Head(todo)[2]])
         /\ Head(todo)[1] = "drop" => Head(todo)[2] # Head(todo)[3]
         /\ \A i \in 1..Len(Tail(todo)) : Tail(todo)[i][2] # Head(todo)[2]
<1>1. /\ Head(todo) = todo[1] /\ Len(todo) \in Nat \ {0} /\ Len(Tail(todo)) = Len(todo) - 1
      /\ \A i \in 1..Len(Tail(todo)) : Tail(todo)[i] = todo[i + 1]
  OBVIOUS
<1> DEFINE rest == Tail(todo)
<1>2. 1 \in 1..Len(todo) /\ \A i \in 1..Len(rest) : i + 1 \in 1..Len(todo) /\ i + 1 # 1 /\ rest[i] = todo[i + 1]
  BY <1>1
<1> HIDE DEF rest
<1>3. \A i, j \in 1..Len(rest) : rest[i][2] = rest[j][2] => i = j
  <2> SUFFICES ASSUME NEW i \in 1..Len(rest), NEW j \in 1..Len(rest), rest[i][2] = rest[j][2] PROVE i = j
    OBVIOUS
  <2>1. i + 1 = j + 1
    BY <1>2 DEF Orderly
  <2>2. QED  BY <2>1
<1>4. \A i \in 1..Len(rest) : rest[i][2] # todo[1][2]
  BY <1>2 DEF Orderly
<1>5. ASSUME NEW i \in 1..Len(rest)
      PROVE  /\ rest[i][1] = "move" => rest[i][2] \in DOMAIN docs /\ Says(rest[i][3], docs[rest[i][2]])
             /\ rest[i][1] = "drop" => rest[i][2] # rest[i][3]
  <2>1. i + 1 \in 1..Len(todo) /\ rest[i] = todo[i + 1]
    BY <1>2
  <2> DEFINE k == i + 1
  <2> HIDE DEF k
  <2>2. k \in 1..Len(todo) /\ rest[i] = todo[k]
    BY <2>1 DEF k
  <2>3. QED  BY <2>2 DEF Orderly
<1>6. Orderly(docs, rest)
  BY <1>3, <1>5 DEF Orderly
<1>7. QED  BY <1>1, <1>2, <1>4, <1>6 DEF Orderly, rest

(* Each command, step by step.                                               *)
LEMMA SignedUncut ==
  ASSUME VouchTyped, NEW p \in Procs, NEW c \in Sites, NEW k \in Keys, NEW r \in Roles, Vouches!Sign(p, c, k, r),
         NEW d \in Sites \ cut', d \notin cut => Uncut(d)
  PROVE  Uncut(d)'
<1> DEFINE x == [role |-> r, key |-> k, when |-> now]
           n == Vouches!StemFor(c, Vouches!Range(document[c]), x)
           j == Vouches!Writing("claim", c, x, n)
<1>1. x \in Vouches!Claim
  BY DEF VouchTyped, Vouches!Claim
<1>2. c \in holds /\ x \notin Vouches!Range(document[c]) /\ Vouches!Start(p, c, j)
  BY DEF Vouches!Sign
<1>3. UNCHANGED <<document, signature, told>>
  BY DEF Vouches!Sign, Vouches!claims
<1> HIDE DEF x
<1>4. Vouches!Range(document[c]) = Filed(document[c])
  BY DEF Vouches!Range, Filed
<1>5. n \in Names
  <2>1. n \in {Vouches!Plain(Vouches!Base(c, x)), Vouches!ByKey(Vouches!Base(c, x), x),
               Vouches!ByDigest(Vouches!Base(c, x), x)}
    BY DEF Vouches!StemFor
  <2>2. QED  BY <1>1, <2>1, StemShape
<1>6. j \in Writings /\ j.in = c /\ j.at = "claim" /\ j.claim = x /\ j.to = n
  BY <1>1, <1>5 DEF Vouches!Writing, Writings
<1>7. cut \subseteq cut'
  BY <1>2 DEF Vouches!Start
<1>8. ASSUME d = c, Matched(document[c], signature[c], {})
      PROVE  Midway(document[c], signature[c], j)
  <2>1. \A m \in DOMAIN document[c] : Says(m, document[c][m])
    BY <1>7, <1>8 DEF Uncut, Standing
  <2>2. Says(n, x) /\ n \notin DOMAIN document[c]
    BY <1>1, <1>2, <1>4, <2>1, StemForIsFree
  <2> HIDE DEF n, j
  <2>3. QED  BY <1>6, <1>8, <2>2 DEF Midway
<1> HIDE DEF n, j
<1>9. QED  BY <1>2, <1>3, <1>6, <1>8, Began

LEMMA WrittenClaimUncut ==
  ASSUME VouchTyped, NEW p \in Procs, Vouches!WriteClaim(p), NEW d \in Sites, Uncut(d)
  PROVE  Uncut(d)'
<1> DEFINE c == doing[p].in  n == doing[p].to  x == doing[p].claim
           j == Vouches!Writing("signature", c, x, n)
<1>1. doing[p].at = "claim" /\ doing[p] \in Writings
  BY DoingShape DEF Vouches!WriteClaim
<1>2. c \in Sites /\ x \in Vouches!Claim /\ n \in Names
  BY <1>1 DEF Writings
<1>3. /\ document' = IF n \in DOMAIN document[c] THEN document ELSE Vouches!Put(document, c, n, x)
      /\ doing' = [doing EXCEPT ![p] = j] /\ UNCHANGED <<signature, told>>
  BY DEF Vouches!WriteClaim, Vouches!Step, Vouches!history
<1>4. j \in Writings /\ j.in = c /\ j.at = "signature" /\ j.claim = x /\ j.to = n
  BY <1>2 DEF Vouches!Writing, Writings
<1>5. DOMAIN document = Sites
  BY DEF VouchTyped, Folders
<1>6. \A e \in Sites \ {c} : document'[e] = document[e]
  BY <1>2, <1>3, <1>5, PutAt
<1>7. ASSUME Midway(document[c], signature[c], doing[p]), Standing(document[c], told[c])
      PROVE  Midway(document'[c], signature'[c], j) /\ Standing(document'[c], told'[c])
  <2>1. n \notin DOMAIN document[c] /\ Says(n, x) /\ Matched(document[c], signature[c], {})
    BY <1>1, <1>7 DEF Midway
  <2>2. document'[c] = Vouches!With(document[c], n, x) /\ signature'[c] = signature[c] /\ told'[c] = told[c]
    BY <1>2, <1>3, <1>5, <2>1, PutAt
  <2> DEFINE docs == document[c]  sigs == signature[c]  heard == told[c]  after == document'[c]
  <2>3. /\ DOMAIN after = DOMAIN docs \cup {n} /\ after[n] = x
        /\ \A m \in DOMAIN docs : after[m] = docs[m]
    BY <2>1, <2>2 DEF Vouches!With
  <2> HIDE DEF docs, sigs, heard, after
  <2>4. n \notin DOMAIN docs /\ Matched(docs, sigs, {}) /\ Standing(docs, heard)
    BY <1>7, <2>1 DEF docs, sigs, heard
  <2>5. n \in DOMAIN after \ DOMAIN sigs /\ after[n] = x /\ Matched(after, sigs, {n})
    BY <2>3, <2>4 DEF Matched
  <2>6. Standing(after, heard)
    BY <2>1, <2>3, <2>4 DEF Standing, Filed
  <2>7. Midway(after, sigs, j)
    BY <1>4, <2>5 DEF Midway
  <2>8. QED  BY <2>2, <2>6, <2>7 DEF after, sigs, heard
<1> HIDE DEF j
<1>8. j # Vouches!Idle
  BY <1>4, IdleHands
<1>9. QED  BY <1>1, <1>2, <1>3, <1>4, <1>6, <1>7, <1>8, Stepped

LEMMA WrittenSignatureUncut ==
  ASSUME VouchTyped, NEW p \in Procs, Vouches!WriteSignature(p), NEW d \in Sites, Uncut(d)
  PROVE  Uncut(d)'
<1> DEFINE c == doing[p].in  n == doing[p].to  x == doing[p].claim
<1>1. doing[p].at = "signature" /\ doing[p] \in Writings
  BY DoingShape DEF Vouches!WriteSignature
<1>2. c \in Sites /\ x \in Vouches!Claim /\ n \in Names
  BY <1>1 DEF Writings
<1>3. /\ signature' = IF n \in DOMAIN signature[c] THEN signature ELSE Vouches!Put(signature, c, n, x)
      /\ told' = [told EXCEPT ![c] = @ \cup {x}]
      /\ doing' = [doing EXCEPT ![p] = Vouches!Idle] /\ UNCHANGED document
  BY DEF Vouches!WriteSignature, Vouches!Finish
<1>4. DOMAIN signature = Sites /\ DOMAIN told = Sites
  BY DEF VouchTyped, Folders
<1>5. \A e \in Sites \ {c} : signature'[e] = signature[e] /\ told'[e] = told[e]
  BY <1>2, <1>3, <1>4, PutAt
<1>6. ASSUME Midway(document[c], signature[c], doing[p]), Standing(document[c], told[c])
      PROVE  Matched(document'[c], signature'[c], {}) /\ Standing(document'[c], told'[c])
  <2>1. /\ n \in DOMAIN document[c] \ DOMAIN signature[c] /\ document[c][n] = x
        /\ Matched(document[c], signature[c], {n})
    BY <1>1, <1>6 DEF Midway
  <2>2. /\ signature'[c] = Vouches!With(signature[c], n, x) /\ document'[c] = document[c]
        /\ told'[c] = told[c] \cup {x}
    BY <1>2, <1>3, <1>4, <2>1, PutAt
  <2> DEFINE docs == document[c]  sigs == signature[c]  heard == told[c]  after == signature'[c]
  <2>3. /\ DOMAIN after = DOMAIN sigs \cup {n} /\ after[n] = x
        /\ \A m \in DOMAIN sigs : after[m] = sigs[m]
    BY <2>1, <2>2 DEF Vouches!With
  <2> HIDE DEF docs, sigs, heard, after
  <2>4. n \in DOMAIN docs \ DOMAIN sigs /\ docs[n] = x /\ Matched(docs, sigs, {n}) /\ Standing(docs, heard)
    BY <1>6, <2>1 DEF docs, sigs, heard
  <2>5. Matched(docs, after, {})
    BY <2>3, <2>4 DEF Matched
  <2>6. Standing(docs, heard \cup {x})
    BY <2>4 DEF Standing, Filed
  <2>7. QED  BY <2>2, <2>5, <2>6 DEF after, docs, heard
<1>7. \A e \in Sites \ {c} : document'[e] = document[e] /\ signature'[e] = signature[e] /\ told'[e] = told[e]
  BY <1>3, <1>5
<1>8. QED  BY <1>1, <1>2, <1>3, <1>6, <1>7, Stepped

LEMMA ByHandUncut ==
  ASSUME VouchTyped, NEW c \in Sites, NEW k \in Keys, NEW r \in Roles, Vouches!WriteByHand(c, k, r),
         NEW d \in Sites \ cut', d \notin cut => Uncut(d)
  PROVE  Uncut(d)'
<1> DEFINE x == [role |-> r, key |-> k, when |-> now]  n == Vouches!ByHand
<1>1. /\ n \notin DOMAIN document[c] \cup DOMAIN signature[c]
      /\ document' = Vouches!Put(document, c, n, x) /\ signature' = Vouches!Put(signature, c, n, x)
      /\ told' = [told EXCEPT ![c] = @ \cup {x}]
      /\ cut' = IF Vouches!Within(c) = {} THEN cut ELSE cut \cup {c}
      /\ doing' = doing
  BY DEF Vouches!WriteByHand
<1> HIDE DEF x, n
<1>2. DOMAIN document = Sites /\ DOMAIN signature = Sites /\ DOMAIN told = Sites
  BY DEF VouchTyped, Folders
<1>3. Uncut(d) /\ Hands(d)' = Hands(d)
  BY <1>1 DEF Hands
<1>4. CASE d # c
  <2>1. document'[d] = document[d] /\ signature'[d] = signature[d] /\ told'[d] = told[d]
    BY <1>1, <1>2, <1>4, PutAt
  <2>2. QED  BY <1>1, <1>3, <2>1, Untouched
<1>5. CASE d = c
  <2>1. Vouches!Within(c) = {}
    BY <1>1, <1>5
  <2>2. Hands(c) = {}
    BY <2>1, IdleHands DEF Vouches!Within, Hands
  <2>3. /\ document'[c] = Vouches!With(document[c], n, x) /\ signature'[c] = Vouches!With(signature[c], n, x)
        /\ told'[c] = told[c] \cup {x}
    BY <1>1, <1>2, PutAt
  <2> DEFINE docs == document[c]  sigs == signature[c]  heard == told[c]
             after == document'[c]  later == signature'[c]
  <2>4. /\ DOMAIN after = DOMAIN docs \cup {n} /\ after[n] = x /\ \A m \in DOMAIN docs : after[m] = docs[m]
        /\ DOMAIN later = DOMAIN sigs \cup {n} /\ later[n] = x /\ \A m \in DOMAIN sigs : later[m] = sigs[m]
    BY <1>1, <2>3 DEF Vouches!With
  <2>5. Matched(docs, sigs, {}) /\ Standing(docs, heard)
    BY <1>3, <1>5, <2>2 DEF Uncut
  <2>6. Says(n, x)
    BY DEF Says, n
  <2> HIDE DEF docs, sigs, heard, after, later
  <2>7. Matched(after, later, {})
    BY <2>4, <2>5 DEF Matched
  <2>8. Standing(after, heard \cup {x})
    BY <2>4, <2>5, <2>6 DEF Standing, Filed
  <2>9. Standing(document'[c], told'[c]) /\ Matched(document'[c], signature'[c], {})
    BY <2>3, <2>7, <2>8 DEF after, later, heard
  <2>10. QED  BY <1>3, <1>5, <2>2, <2>9 DEF Uncut
<1>6. QED  BY <1>4, <1>5

LEMMA ArrangeUncut ==
  ASSUME VouchTyped, NEW p \in Procs, NEW c \in Sites, Vouches!Arrange(p, c),
         NEW d \in Sites \ cut', d \notin cut => Uncut(d)
  PROVE  Uncut(d)'
<1>1. PICK todo \in Seq({"move", "drop"} \X Names \X Names) :
        /\ doing[p] = Vouches!Idle /\ doing' = [doing EXCEPT ![p] = Vouches!Arranging("next", c, todo)]
        /\ \A i \in 1..Len(todo) :
             /\ todo[i][2] \in DOMAIN document[c]
             /\ todo[i][1] = "move" => Says(todo[i][3], document[c][todo[i][2]])
             /\ todo[i][1] = "drop" => todo[i][2] # todo[i][3]
        /\ \A i, j \in 1..Len(todo) : todo[i][2] = todo[j][2] => i = j
  BY ArrangeShape
<1> DEFINE j == Vouches!Arranging("next", c, todo)
<1>2. j \in Arrangings /\ j.in = c /\ j.at = "next" /\ j.todo = todo
  BY DEF Vouches!Arranging, Arrangings
<1>3. /\ UNCHANGED <<document, signature, told>>
      /\ Vouches!Start(p, c, j)
  BY <1>1 DEF Vouches!Arrange, Vouches!Start, Vouches!claims
<1> HIDE DEF j
<1>4. Matched(document[c], signature[c], {}) => Midway(document[c], signature[c], j)
  <2>1. Orderly(document[c], todo)
    BY <1>1 DEF Orderly
  <2>2. QED  BY <1>2, <2>1 DEF Midway
<1>5. QED  BY <1>2, <1>3, <1>4, Began

(* The next step of an arranging.                                            *)
LEMMA ArrangingIs ==
  ASSUME NEW c \in Sites, NEW rest \in Seq({"move", "drop"} \X Names \X Names),
         NEW at \in {"next", "move", "follow", "drop"}, NEW j, j = Vouches!Arranging(at, c, rest)
  PROVE  j \in Arrangings /\ j # Vouches!Idle /\ j.in = c /\ j.at = at /\ j.todo = rest
<1>1. j \in Arrangings /\ j.in = c /\ j.at = at /\ j.todo = rest
  BY DEF Vouches!Arranging, Arrangings
<1>2. QED  BY <1>1, IdleHands

LEMMA RestIs ==
  ASSUME NEW p, doing[p] \in Arrangings, doing[p].todo # <<>>, NEW j, j = Vouches!Rest(p)
  PROVE  j \in Arrangings /\ j # Vouches!Idle /\ j.in = doing[p].in /\ j.at = "next" /\ j.todo = Tail(doing[p].todo)
<1> DEFINE rest == Tail(doing[p].todo)
<1>1. doing[p].in \in Sites /\ rest \in Seq({"move", "drop"} \X Names \X Names)
  BY DEF Arrangings
<1>2. j = Vouches!Arranging("next", doing[p].in, rest)
  BY DEF Vouches!Rest
<1> HIDE DEF rest
<1>3. j \in Arrangings /\ j # Vouches!Idle /\ j.in = doing[p].in /\ j.at = "next" /\ j.todo = rest
  BY <1>1, <1>2, ArrangingIs
<1>4. QED  BY <1>3 DEF rest

LEMMA LookUncut ==
  ASSUME VouchTyped, NEW p \in Procs, Vouches!Look(p), NEW d \in Sites, Uncut(d)
  PROVE  Uncut(d)'
<1> DEFINE c == doing[p].in  todo == doing[p].todo
           j == IF Head(todo)[3] \in DOMAIN document[c] THEN Vouches!Rest(p) ELSE Vouches!Arranging("move", c, todo)
<1>1. /\ doing[p].at = "next" /\ todo # <<>> /\ Head(todo)[1] = "move"
      /\ doing' = [doing EXCEPT ![p] = j] /\ UNCHANGED <<document, signature, told>>
  BY DEF Vouches!Look, Vouches!Doing, Vouches!Step, Vouches!claims, Vouches!history
<1>2. doing[p] \in Arrangings
  BY <1>1, DoingShape
<1>3. c \in Sites /\ todo \in Seq({"move", "drop"} \X Names \X Names)
  BY <1>2 DEF Arrangings
<1>4. /\ j \in Arrangings /\ j # Vouches!Idle /\ j.in = c
      /\ \/ j.at = "next" /\ j.todo = Tail(todo)
         \/ j.at = "move" /\ j.todo = todo /\ Head(todo)[3] \notin DOMAIN document[c]
  BY <1>1, <1>2, <1>3, ArrangingIs, RestIs
<1> HIDE DEF j
<1>5. ASSUME Midway(document[c], signature[c], doing[p]) PROVE Midway(document[c], signature[c], j)
  <2>1. Orderly(document[c], todo) /\ Matched(document[c], signature[c], {})
    BY <1>1, <1>5 DEF Midway
  <2>2. Orderly(document[c], Tail(todo))
    BY <1>1, <1>3, <2>1, TailStays
  <2>3. QED  BY <1>1, <1>4, <2>1, <2>2 DEF Midway
<1>6. QED  BY <1>1, <1>2, <1>3, <1>4, <1>5, Stepped

LEMMA ArrangedUncut ==
  ASSUME VouchTyped, NEW p \in Procs, Vouches!Arranged(p), NEW d \in Sites, Uncut(d)
  PROVE  Uncut(d)'
<1> DEFINE c == doing[p].in
<1>1. /\ doing[p].at = "next" /\ doing' = [doing EXCEPT ![p] = Vouches!Idle]
      /\ UNCHANGED <<document, signature, told>>
  BY DEF Vouches!Arranged, Vouches!Finish, Vouches!claims, Vouches!history
<1>2. doing[p] \in Arrangings
  BY <1>1, DoingShape
<1>3. c \in Sites
  BY <1>2 DEF Arrangings
<1>4. Midway(document[c], signature[c], doing[p]) => Matched(document[c], signature[c], {})
  BY <1>1 DEF Midway
<1>5. QED  BY <1>1, <1>2, <1>3, <1>4, Stepped

LEMMA MovedClaimUncut ==
  ASSUME VouchTyped, NEW p \in Procs, Vouches!MoveClaim(p), NEW d \in Sites, Uncut(d)
  PROVE  Uncut(d)'
<1> DEFINE c == doing[p].in  todo == doing[p].todo  from == Head(todo)[2]  to == Head(todo)[3]
           j == Vouches!Arranging("follow", c, todo)
<1>1. doing[p].at = "move" /\ doing[p] \in Arrangings
  BY DoingShape DEF Vouches!MoveClaim
<1>2. c \in Sites /\ todo \in Seq({"move", "drop"} \X Names \X Names) /\ todo # <<>>
  BY <1>1 DEF Arrangings, VouchTyped
<1>3. /\ IF from \notin DOMAIN document[c]
         THEN doing' = [doing EXCEPT ![p] = Vouches!Idle] /\ document' = document
         ELSE /\ document' = Vouches!Put(Vouches!Take(document, c, from), c, to, document[c][from])
              /\ doing' = [doing EXCEPT ![p] = j]
      /\ UNCHANGED <<signature, told>>
  BY DEF Vouches!MoveClaim, Vouches!Finish, Vouches!Step, Vouches!history
<1>4. j \in Arrangings /\ j # Vouches!Idle /\ j.in = c /\ j.at = "follow" /\ j.todo = todo
  BY <1>2, ArrangingIs
<1> HIDE DEF j
<1>5. CASE from \notin DOMAIN document[c]
  <2>1. Midway(document[c], signature[c], doing[p]) => Matched(document[c], signature[c], {})
    BY <1>1 DEF Midway
  <2>2. doing' = [doing EXCEPT ![p] = Vouches!Idle] /\ UNCHANGED <<document, signature, told>>
    BY <1>3, <1>5
  <2>3. QED  BY <1>1, <1>2, <2>1, <2>2, Stepped
<1>6. CASE from \in DOMAIN document[c]
  <2>1. /\ document' = Vouches!Put(Vouches!Take(document, c, from), c, to, document[c][from])
        /\ doing' = [doing EXCEPT ![p] = j] /\ UNCHANGED <<signature, told>>
    BY <1>3, <1>6
  <2>2. DOMAIN document = Sites
    BY DEF VouchTyped, Folders
  <2>3. \A e \in Sites \ {c} : document'[e] = document[e]
    BY <1>2, <2>1, <2>2 DEF Vouches!Put, Vouches!Take
  <2> DEFINE docs == document[c]  sigs == signature[c]  heard == told[c]  after == document'[c]
             rest == Tail(todo)
  <2>4. ASSUME Midway(docs, sigs, doing[p]), Standing(docs, heard)
        PROVE  Midway(after, sigs, j) /\ Standing(after, heard)
    <3>1. Orderly(docs, todo) /\ Matched(docs, sigs, {}) /\ Head(todo)[1] = "move" /\ to \notin DOMAIN docs
      BY <1>1, <2>4 DEF Midway
    <3>2. /\ Orderly(docs, rest) /\ Says(to, docs[from])
          /\ \A i \in 1..Len(rest) : rest[i][2] # from
      BY <1>2, <3>1, TailStays
    <3> HIDE DEF from, to
    <3>3. /\ DOMAIN after = (DOMAIN docs \ {from}) \cup {to} /\ after[to] = docs[from]
          /\ \A m \in DOMAIN docs \ {from} : after[m] = docs[m]
      BY <1>2, <1>6, <2>1, <2>2, <3>1, MovedAt
    <3>4. from \in DOMAIN docs
      BY <1>6
    <3> HIDE DEF docs, sigs, heard, after, from, to, todo, rest
    <3>5. Orderly(after, rest)
      <4>1. \A i \in 1..Len(rest) :
              rest[i][2] \in DOMAIN docs => rest[i][2] \in DOMAIN after /\ after[rest[i][2]] = docs[rest[i][2]]
        BY <3>2, <3>3
      <4>2. QED  BY <3>2, <4>1, OrderlyStill
    <3>6. /\ Matched(after, sigs, {from, to}) /\ to \in DOMAIN after \ DOMAIN sigs
          /\ from \in DOMAIN sigs \ DOMAIN after /\ sigs[from] = after[to]
      BY <3>1, <3>3, <3>4 DEF Matched
    <3>7. Standing(after, heard)
      BY <2>4, <3>2, <3>3, <3>4 DEF Standing, Filed
    <3>8. Midway(after, sigs, j)
      BY <1>4, <3>5, <3>6 DEF Midway, from, to, rest
    <3>9. QED  BY <3>7, <3>8
  <2>5. QED  BY <1>1, <1>2, <1>4, <2>1, <2>3, <2>4, Stepped
<1>7. QED  BY <1>5, <1>6

LEMMA MovedSignatureUncut ==
  ASSUME VouchTyped, NEW p \in Procs, Vouches!MoveSignature(p), NEW d \in Sites, Uncut(d)
  PROVE  Uncut(d)'
<1> DEFINE c == doing[p].in  todo == doing[p].todo  from == Head(todo)[2]  to == Head(todo)[3]  j == Vouches!Rest(p)
<1>1. doing[p].at = "follow" /\ doing[p] \in Arrangings
  BY DoingShape DEF Vouches!MoveSignature
<1>2. c \in Sites /\ todo \in Seq({"move", "drop"} \X Names \X Names) /\ todo # <<>>
  BY <1>1 DEF Arrangings, VouchTyped
<1>3. /\ signature' = IF from \in DOMAIN signature[c]
                      THEN Vouches!Put(Vouches!Take(signature, c, from), c, to, signature[c][from]) ELSE signature
      /\ doing' = [doing EXCEPT ![p] = j] /\ UNCHANGED <<document, told>>
  BY DEF Vouches!MoveSignature, Vouches!Step, Vouches!history
<1>4. j \in Arrangings /\ j # Vouches!Idle /\ j.in = c /\ j.at = "next" /\ j.todo = Tail(todo)
  BY <1>1, <1>2, RestIs
<1> HIDE DEF j
<1>5. DOMAIN signature = Sites
  BY DEF VouchTyped, Folders
<1>6. \A e \in Sites \ {c} : signature'[e] = signature[e]
  BY <1>2, <1>3, <1>5 DEF Vouches!Put, Vouches!Take
<1> DEFINE docs == document[c]  sigs == signature[c]  after == signature'[c]
<1>7. ASSUME Midway(docs, sigs, doing[p])
      PROVE  Midway(docs, after, j)
  <2>1. /\ Orderly(docs, Tail(todo)) /\ Matched(docs, sigs, {from, to})
        /\ to \in DOMAIN docs \ DOMAIN sigs /\ from \in DOMAIN sigs \ DOMAIN docs /\ sigs[from] = docs[to]
    BY <1>1, <1>7 DEF Midway
  <2>2. to \notin DOMAIN sigs /\ signature' = Vouches!Put(Vouches!Take(signature, c, from), c, to, signature[c][from])
    BY <1>3, <2>1
  <2> HIDE DEF from, to
  <2>3. /\ DOMAIN after = (DOMAIN sigs \ {from}) \cup {to} /\ after[to] = sigs[from]
        /\ \A m \in DOMAIN sigs \ {from} : after[m] = sigs[m]
    BY <1>2, <1>5, <2>1, <2>2, MovedAt
  <2> HIDE DEF docs, sigs, after, from, to, todo
  <2>4. Matched(docs, after, {})
    BY <2>1, <2>3 DEF Matched
  <2>5. QED  BY <1>4, <2>1, <2>4 DEF Midway, todo
<1>8. QED  BY <1>1, <1>2, <1>3, <1>4, <1>6, <1>7, Stepped

LEMMA DroppedSignatureUncut ==
  ASSUME VouchTyped, NEW p \in Procs, Vouches!DropSignature(p), NEW d \in Sites, Uncut(d)
  PROVE  Uncut(d)'
<1> DEFINE c == doing[p].in  todo == doing[p].todo  extra == Head(todo)[2]  of == Head(todo)[3]
           still == {extra, of} \subseteq DOMAIN document[c] /\ document[c][extra] = document[c][of]
           next == IF {extra, of} \subseteq DOMAIN document[c] THEN Vouches!Rest(p) ELSE Vouches!Idle
           j == Vouches!Arranging("drop", c, todo)
<1>1. doing[p].at = "next" /\ todo # <<>> /\ Head(todo)[1] = "drop" /\ doing[p] \in Arrangings
  BY DoingShape DEF Vouches!DropSignature, Vouches!Doing
<1>2. c \in Sites /\ todo \in Seq({"move", "drop"} \X Names \X Names)
  BY <1>1 DEF Arrangings
<1>3. /\ IF still THEN signature' = Vouches!Take(signature, c, extra) /\ doing' = [doing EXCEPT ![p] = j]
         ELSE signature' = signature /\ doing' = [doing EXCEPT ![p] = next]
      /\ UNCHANGED <<document, told>>
  BY DEF Vouches!DropSignature, Vouches!Finish, Vouches!Step, Vouches!history
<1>4. j \in Arrangings /\ j # Vouches!Idle /\ j.in = c /\ j.at = "drop" /\ j.todo = todo
  BY <1>2, ArrangingIs
<1>5. \/ next = Vouches!Idle
      \/ next \in Arrangings /\ next # Vouches!Idle /\ next.in = c /\ next.at = "next" /\ next.todo = Tail(todo)
  BY <1>1, RestIs
<1> HIDE DEF j, next
<1> DEFINE docs == document[c]  sigs == signature[c]  after == signature'[c]
<1>6. ASSUME Midway(docs, sigs, doing[p])
      PROVE  /\ Orderly(docs, todo) /\ Orderly(docs, Tail(todo)) /\ Matched(docs, sigs, {})
             /\ extra # of
  <2>1. Orderly(docs, todo) /\ Matched(docs, sigs, {})
    BY <1>1, <1>6 DEF Midway
  <2>2. QED  BY <1>1, <1>2, <2>1, TailStays
<1>7. CASE ~still
  <2>1. Midway(docs, sigs, doing[p]) =>
          /\ next = Vouches!Idle => Matched(docs, sigs, {})
          /\ next # Vouches!Idle => Midway(docs, sigs, next)
    BY <1>5, <1>6 DEF Midway
  <2>2. doing' = [doing EXCEPT ![p] = next] /\ UNCHANGED <<document, signature, told>>
    BY <1>3, <1>7
  <2>3. next = Vouches!Idle \/ (next \in Writings \cup Arrangings /\ next.in = c)
    BY <1>5
  <2> HIDE DEF still
  <2>4. QED  BY <1>1, <1>2, <2>1, <2>2, <2>3, Stepped
<1>8. CASE still
  <2>1. signature' = Vouches!Take(signature, c, extra) /\ doing' = [doing EXCEPT ![p] = j]
    BY <1>3, <1>8
  <2>2. DOMAIN signature = Sites
    BY DEF VouchTyped, Folders
  <2>3. /\ \A e \in Sites \ {c} : signature'[e] = signature[e]
        /\ DOMAIN after = DOMAIN sigs \ {extra} /\ \A m \in DOMAIN sigs \ {extra} : after[m] = sigs[m]
    BY <1>2, <2>1, <2>2, TakenAt
  <2>4. ASSUME Midway(docs, sigs, doing[p]) PROVE Midway(docs, after, j)
    <3>1. Orderly(docs, todo) /\ Matched(docs, sigs, {}) /\ extra # of
      BY <1>6, <2>4
    <3>2. {extra, of} \subseteq DOMAIN docs /\ docs[extra] = docs[of]
      BY <1>8
    <3> HIDE DEF docs, sigs, after, extra, of, todo
    <3>3. Matched(docs, after, {extra}) /\ extra \notin DOMAIN after
      BY <2>3, <3>1 DEF Matched
    <3>4. QED  BY <1>4, <3>1, <3>2, <3>3 DEF Midway, extra, of
  <2>5. QED  BY <1>1, <1>2, <1>3, <1>4, <2>1, <2>3, <2>4, Stepped
<1>9. QED  BY <1>7, <1>8

LEMMA DroppedClaimUncut ==
  ASSUME VouchTyped, NEW p \in Procs, Vouches!DropClaim(p), NEW d \in Sites, Uncut(d)
  PROVE  Uncut(d)'
<1> DEFINE c == doing[p].in  todo == doing[p].todo  extra == Head(todo)[2]  of == Head(todo)[3]  j == Vouches!Rest(p)
<1>1. doing[p].at = "drop" /\ doing[p] \in Arrangings
  BY DoingShape DEF Vouches!DropClaim
<1>2. c \in Sites /\ todo \in Seq({"move", "drop"} \X Names \X Names) /\ todo # <<>>
  BY <1>1 DEF Arrangings, VouchTyped
<1>3. /\ document' = Vouches!Take(document, c, extra)
      /\ doing' = [doing EXCEPT ![p] = j] /\ UNCHANGED <<signature, told>>
  BY DEF Vouches!DropClaim, Vouches!Step, Vouches!history
<1>4. j \in Arrangings /\ j # Vouches!Idle /\ j.in = c /\ j.at = "next" /\ j.todo = Tail(todo)
  BY <1>1, <1>2, RestIs
<1> HIDE DEF j
<1>5. DOMAIN document = Sites
  BY DEF VouchTyped, Folders
<1> DEFINE docs == document[c]  sigs == signature[c]  heard == told[c]  after == document'[c]
<1>6. /\ \A e \in Sites \ {c} : document'[e] = document[e]
      /\ DOMAIN after = DOMAIN docs \ {extra} /\ \A m \in DOMAIN docs \ {extra} : after[m] = docs[m]
  BY <1>2, <1>3, <1>5, TakenAt
<1>7. ASSUME Midway(docs, sigs, doing[p]), Standing(docs, heard)
      PROVE  Midway(after, sigs, j) /\ Standing(after, heard)
  <2>1. /\ Orderly(docs, todo) /\ Matched(docs, sigs, {extra})
        /\ {extra, of} \subseteq DOMAIN docs /\ extra \notin DOMAIN sigs
        /\ extra # of /\ docs[extra] = docs[of]
    BY <1>1, <1>7 DEF Midway
  <2> DEFINE rest == Tail(todo)
  <2>2. Orderly(docs, rest) /\ \A i \in 1..Len(rest) : rest[i][2] # extra
    BY <1>2, <2>1, TailStays
  <2> HIDE DEF docs, sigs, heard, after, extra, of, todo, rest
  <2>3. Matched(after, sigs, {})
    BY <1>6, <2>1 DEF Matched
  <2>4. Standing(after, heard)
    BY <1>6, <1>7, <2>1 DEF Standing, Filed
  <2>5. Orderly(after, rest)
    BY <1>6, <2>2, OrderlyStill
  <2>6. QED  BY <1>4, <2>3, <2>4, <2>5 DEF Midway, rest
<1>8. QED  BY <1>1, <1>2, <1>3, <1>4, <1>6, <1>7, Stepped

(* What another copy has, laid under what is here, is signed if both were.   *)
LEMMA UnionMatched ==
  ASSUME NEW docs, NEW sigs, Matched(docs, sigs, {}), NEW theirs, NEW signed, Matched(theirs, signed, {}),
         \A n \in DOMAIN docs : Says(n, docs[n]), \A n \in DOMAIN theirs : Says(n, theirs[n]),
         NEW after, after = Vouches!Under(docs, theirs), NEW later, later = Vouches!Under(sigs, signed)
  PROVE  /\ Matched(after, later, {}) /\ \A n \in DOMAIN after : Says(n, after[n])
         /\ Filed(docs) \subseteq Filed(after)
<1>1. /\ DOMAIN docs = DOMAIN sigs /\ \A n \in DOMAIN docs : sigs[n] = docs[n]
      /\ DOMAIN theirs = DOMAIN signed /\ \A n \in DOMAIN theirs : signed[n] = theirs[n]
  BY DEF Matched
<1>2. /\ DOMAIN after = DOMAIN docs \cup DOMAIN theirs
      /\ \A n \in DOMAIN after : after[n] = IF n \in DOMAIN docs THEN docs[n] ELSE theirs[n]
      /\ DOMAIN later = DOMAIN docs \cup DOMAIN theirs
      /\ \A n \in DOMAIN after : later[n] = IF n \in DOMAIN docs THEN sigs[n] ELSE signed[n]
  BY <1>1 DEF Vouches!Under
<1>3. \A n \in DOMAIN after : later[n] = after[n]
  BY <1>1, <1>2
<1>4. Matched(after, later, {})
  BY <1>2, <1>3 DEF Matched
<1>5. \A n \in DOMAIN after : Says(n, after[n])
  BY <1>2
<1>6. Filed(docs) \subseteq Filed(after)
  BY <1>2 DEF Filed
<1>7. QED  BY <1>4, <1>5, <1>6

LEMMA UnionUncut ==
  ASSUME VouchTyped, NEW c \in Sites, NEW d \in Sites, Vouches!Union(c, d),
         NEW e \in Sites \ cut', \A b \in Sites \ cut : Uncut(b)
  PROVE  Uncut(e)'
<1>1. /\ document' = [document EXCEPT ![c] = Vouches!Under(document[c], document[d])]
      /\ signature' = [signature EXCEPT ![c] = Vouches!Under(signature[c], signature[d])]
      /\ told' = [told EXCEPT ![c] = told[c] \cup Vouches!Signed(c)']
      /\ cut' = IF Vouches!Within(c) \cup Vouches!Within(d) = {} /\ d \notin cut THEN cut ELSE cut \cup {c}
      /\ doing' = doing
  BY DEF Vouches!Union
<1>2. DOMAIN document = Sites /\ DOMAIN signature = Sites /\ DOMAIN told = Sites
  BY DEF VouchTyped, Folders
<1>3. Uncut(e) /\ Hands(e)' = Hands(e)
  BY <1>1 DEF Hands
<1>4. CASE e # c
  <2>1. document'[e] = document[e] /\ signature'[e] = signature[e] /\ told'[e] = told[e]
    BY <1>1, <1>2, <1>4
  <2>2. QED  BY <1>1, <1>3, <2>1, Untouched
<1>5. CASE e = c
  <2>1. Vouches!Within(c) = {} /\ Vouches!Within(d) = {} /\ c \notin cut /\ d \notin cut
    BY <1>1, <1>5
  <2>2. Hands(c) = {} /\ Hands(d) = {}
    BY <2>1, IdleHands DEF Vouches!Within, Hands
  <2>3. /\ Matched(document[c], signature[c], {}) /\ Standing(document[c], told[c])
        /\ Matched(document[d], signature[d], {}) /\ Standing(document[d], told[d])
    BY <2>1, <2>2 DEF Uncut
  <2>4. /\ document'[c] = Vouches!Under(document[c], document[d])
        /\ signature'[c] = Vouches!Under(signature[c], signature[d])
        /\ told'[c] = told[c] \cup Vouches!Signed(c)'
    BY <1>1, <1>2
  <2>5. /\ Matched(document'[c], signature'[c], {}) /\ \A n \in DOMAIN document'[c] : Says(n, document'[c][n])
        /\ Filed(document[c]) \subseteq Filed(document'[c])
    BY <2>3, <2>4, UnionMatched DEF Standing
  <2>6. Vouches!Signed(c)' \subseteq Filed(document'[c])
    BY DEF Vouches!Signed, Filed
  <2>7. Standing(document'[c], told'[c])
    BY <2>3, <2>4, <2>5, <2>6 DEF Standing
  <2>8. QED  BY <1>3, <1>5, <2>2, <2>5, <2>7 DEF Uncut
<1>6. QED  BY <1>4, <1>5

(* The trust commands and the clock write no claim.                          *)
LEMMA OthersUncut ==
  ASSUME VouchTyped, UNCHANGED <<document, signature, told, cut>>, NEW d \in Sites, Uncut(d),
         \/ doing' = doing
         \/ \E p \in Procs, j \in {Vouches!Idle} \cup Revokings :
              doing[p] \notin Writings \cup Arrangings /\ doing' = [doing EXCEPT ![p] = j]
  PROVE  Uncut(d)'
<1>1. CASE doing' = doing
  <2>1. Hands(d)' = Hands(d)
    BY <1>1 DEF Hands
  <2>2. QED  BY <1>1, <2>1, Untouched
<1>2. CASE \E p \in Procs, j \in {Vouches!Idle} \cup Revokings :
             doing[p] \notin Writings \cup Arrangings /\ doing' = [doing EXCEPT ![p] = j]
  <2>1. PICK p \in Procs, j \in {Vouches!Idle} \cup Revokings :
               doing[p] \notin Writings \cup Arrangings /\ doing' = [doing EXCEPT ![p] = j]
    BY <1>2
  <2>2. j \notin Writings \cup Arrangings
    <3>1. \A i \in Revokings : i.at \in {"revoke", "rewrite"}
      BY DEF Revokings
    <3>2. \A i \in Writings \cup Arrangings : i.at \notin {"revoke", "rewrite"}
      BY DEF Writings, Arrangings
    <3>3. QED  BY <3>1, <3>2, IdleHands
  <2>3. p \notin Hands(d)
    BY <2>1 DEF Hands
  <2>4. \A q \in Procs : q \in Hands(d)' <=> q \in Hands(d)
    BY <2>1, <2>2, <2>3, HandsAfter
  <2>5. Hands(d) \subseteq Procs /\ Hands(d)' \subseteq Procs
    BY DEF Hands
  <2>6. Hands(d)' = Hands(d)
    BY <2>4, <2>5
  <2>7. \A q \in Hands(d) : doing'[q] = doing[q]
    BY <2>1, <2>3, <2>5 DEF VouchTyped
  <2>8. QED  BY <2>6, <2>7, Untouched
<1>3. QED  BY <1>1, <1>2

LEMMA TrustUncut ==
  ASSUME VouchTyped, NEW d \in Sites, Uncut(d),
         \/ \E c \in Sites, l \in Vouches!Labels : Vouches!Believe(c, l) \/ Vouches!Disbelieve(c, l)
         \/ \E p \in Procs, c \in Sites, l \in Vouches!Labels, w \in 1..MaxDays : Vouches!Revoke(p, c, l, w)
         \/ \E p \in Procs : Vouches!Compare(p) \/ Vouches!Rewrite(p)
         \/ Vouches!Tick
  PROVE  Uncut(d)'
<1>1. CASE \/ \E c \in Sites, l \in Vouches!Labels : Vouches!Believe(c, l) \/ Vouches!Disbelieve(c, l)
           \/ Vouches!Tick
  <2>1. UNCHANGED <<document, signature, told, cut, doing>>
    BY <1>1 DEF Vouches!Believe, Vouches!Disbelieve, Vouches!Tick, Vouches!claims, Vouches!history
  <2>2. QED  BY <2>1, OthersUncut
<1>2. CASE \E p \in Procs, c \in Sites, l \in Vouches!Labels, w \in 1..MaxDays : Vouches!Revoke(p, c, l, w)
  <2>1. PICK p \in Procs, c \in Sites, l \in Vouches!Labels, w \in 1..MaxDays : Vouches!Revoke(p, c, l, w)
    BY <1>2
  <2> DEFINE j == [at |-> "revoke", in |-> c, label |-> l, read |-> trust[c][l],
                   becomes |-> IF w < trust[c][l] THEN w ELSE trust[c][l]]
  <2>2. /\ l \in DOMAIN trust[c] /\ doing[p] = Vouches!Idle /\ doing' = [doing EXCEPT ![p] = j]
        /\ UNCHANGED <<document, signature, told, cut>>
    BY <2>1 DEF Vouches!Revoke, Vouches!Revoking, Vouches!Step, Vouches!claims, Vouches!history
  <2>3. trust[c][l] \in 1..Vouches!Never /\ w \in 1..Vouches!Never
    BY <2>2, NeverIsLast DEF VouchTyped
  <2>4. j \in Revokings
    BY <2>3 DEF Revokings
  <2> HIDE DEF j
  <2>5. QED  BY <2>2, <2>4, IdleHands, OthersUncut
<1>3. CASE \E p \in Procs : Vouches!Compare(p) \/ Vouches!Rewrite(p)
  <2>1. PICK p \in Procs : Vouches!Compare(p) \/ Vouches!Rewrite(p)
    BY <1>3
  <2> DEFINE j == [at |-> "rewrite", in |-> doing[p].in, label |-> doing[p].label,
                   read |-> trust[doing[p].in][doing[p].label], becomes |-> doing[p].becomes]
  <2>2. /\ doing[p].at \in {"revoke", "rewrite"}
        /\ \/ doing' = [doing EXCEPT ![p] = Vouches!Idle]
           \/ /\ trust[doing[p].in][doing[p].label] = doing[p].read
              /\ doing' = [doing EXCEPT ![p] = j]
        /\ UNCHANGED <<document, signature, told, cut>>
    BY <2>1 DEF Vouches!Compare, Vouches!Revoking, Vouches!Step, Vouches!Rewrite, Vouches!Finish, Vouches!claims,
                Vouches!history
  <2>5. trust[doing[p].in][doing[p].label] = doing[p].read => j \in Revokings
    BY <2>2, DoingShape DEF Revokings
  <2> HIDE DEF j
  <2>3. \A i \in Writings \cup Arrangings : i.at \notin {"revoke", "rewrite"}
    BY DEF Writings, Arrangings
  <2>4. QED  BY <2>2, <2>3, <2>5, OthersUncut
<1>4. QED  BY <1>1, <1>2, <1>3

LEMMA StoppedUncut ==
  ASSUME VouchTyped, NEW p \in Procs, Vouches!Stop(p), NEW d \in Sites \ cut', \A b \in Sites \ cut : Uncut(b)
  PROVE  Uncut(d)'
<1>1. /\ doing[p] # Vouches!Idle /\ cut' = cut \cup {doing[p].in} /\ doing' = [doing EXCEPT ![p] = Vouches!Idle]
      /\ UNCHANGED <<document, signature, told>>
  BY DEF Vouches!Stop, Vouches!Finish, Vouches!claims
<1>2. doing[p].in \in Sites
  BY <1>1 DEF VouchTyped, Doings, Writings, Arrangings, Revokings
<1>3. d # doing[p].in /\ Uncut(d)
  BY <1>1
<1>4. QED  BY <1>1, <1>2, <1>3, IdleHands, WorkedElsewhere

(* What a step of the claims keeps.                                          *)
LEMMA CutOnlyGrows ==
  ASSUME Vouches!Next
  PROVE  cut \subseteq cut'
BY DEF Vouches!Next, Vouches!Sign, Vouches!Start, Vouches!WriteByHand, Vouches!WriteClaim, Vouches!WriteSignature,
       Vouches!Arrange, Vouches!Look, Vouches!MoveClaim, Vouches!MoveSignature, Vouches!DropSignature,
       Vouches!DropClaim, Vouches!Arranged, Vouches!Receive, Vouches!Sync, Vouches!Union, Vouches!Believe,
       Vouches!Disbelieve, Vouches!Revoke, Vouches!Compare, Vouches!Rewrite, Vouches!Stop, Vouches!Tick, Vouches!history

LEMMA VouchingHolds ==
  ASSUME VouchInv, [Vouches!Next]_(Vouches!vars)
  PROVE  VouchInv'
<1> USE DEF VouchInv
<1>1. VouchTyped'
  BY VouchingTyped
<1>2. CASE UNCHANGED Vouches!vars
  <2>1. UNCHANGED <<document, signature, told, cut, doing>>
    BY <1>2 DEF Vouches!vars
  <2>2. QED  BY <1>1, <2>1, OthersUncut
<1>3. CASE Vouches!Next
  <2> SUFFICES ASSUME NEW d \in Sites \ cut' PROVE Uncut(d)'
    BY <1>1
  <2>1. d \notin cut /\ Uncut(d)
    BY <1>3, CutOnlyGrows
  <2>2. CASE \E p \in Procs, c \in Sites, k \in Keys, r \in Roles : Vouches!Sign(p, c, k, r)
    BY <2>1, <2>2, SignedUncut
  <2>3. CASE \E c \in Sites, k \in Keys, r \in Roles : Vouches!WriteByHand(c, k, r)
    BY <2>1, <2>3, ByHandUncut
  <2>4. CASE \E p \in Procs : Vouches!WriteClaim(p) \/ Vouches!WriteSignature(p)
    BY <2>1, <2>4, WrittenClaimUncut, WrittenSignatureUncut
  <2>5. CASE \E p \in Procs, c \in Sites : Vouches!Arrange(p, c)
    BY <2>1, <2>5, ArrangeUncut
  <2>6. CASE \E p \in Procs : \/ Vouches!Look(p) \/ Vouches!MoveClaim(p) \/ Vouches!MoveSignature(p)
                              \/ Vouches!DropSignature(p) \/ Vouches!DropClaim(p) \/ Vouches!Arranged(p)
    BY <2>1, <2>6, LookUncut, MovedClaimUncut, MovedSignatureUncut, DroppedSignatureUncut, DroppedClaimUncut,
       ArrangedUncut
  <2>7. CASE \E b, c \in Sites : Vouches!Receive(b, c) \/ Vouches!Sync(b, c)
    BY <2>7, UnionUncut DEF Vouches!Receive, Vouches!Sync
  <2>8. CASE \/ \E c \in Sites, l \in Vouches!Labels : Vouches!Believe(c, l) \/ Vouches!Disbelieve(c, l)
             \/ \E p \in Procs, c \in Sites, l \in Vouches!Labels, w \in 1..MaxDays : Vouches!Revoke(p, c, l, w)
             \/ \E p \in Procs : Vouches!Compare(p) \/ Vouches!Rewrite(p)
             \/ Vouches!Tick
    BY <2>1, <2>8, TrustUncut
  <2>9. CASE \E p \in Procs : Vouches!Stop(p)
    BY <2>9, StoppedUncut
  <2>10. QED  BY <1>3, <2>2, <2>3, <2>4, <2>5, <2>6, <2>7, <2>8, <2>9 DEF Vouches!Next
<1>4. QED  BY <1>2, <1>3

LEMMA VouchingBegins ==
  ASSUME Vouches!Init
  PROVE  VouchInv
<1>1. /\ holds \subseteq Sites /\ document = [c \in Sites |-> <<>>] /\ signature = [c \in Sites |-> <<>>]
      /\ trust = [c \in Sites |-> [l \in Keys \X {1} |-> Vouches!Never]]
      /\ doing = [p \in Procs |-> Vouches!Idle] /\ now = 1 /\ told = [c \in Sites |-> {}] /\ cut = {}
  BY DEF Vouches!Init
<1>2. Folder(<<>>) /\ DOMAIN <<>> = {}
  <2>1. DOMAIN <<>> = {}
    OBVIOUS
  <2>2. QED  BY <2>1, FS_EmptySet DEF Folder
<1>3. \A c \in Sites : document[c] = <<>> /\ signature[c] = <<>> /\ told[c] = {}
  BY <1>1
<1>4. VouchTyped
  <2>1. Folders(document) /\ Folders(signature)
    BY <1>1, <1>2 DEF Folders
  <2>2. \A c \in Sites : DOMAIN trust[c] \subseteq Vouches!Labels /\ \A l \in DOMAIN trust[c] : trust[c][l] \in 1..Vouches!Never
    BY <1>1, NeverIsLast DEF Vouches!Labels
  <2>3. doing \in [Procs -> Doings] /\ \A p \in Procs : doing[p].at = "idle"
    BY <1>1, IdleDoing
  <2>4. now \in 1..MaxDays
    BY <1>1, BoundsAssumption
  <2>5. QED  BY <1>1, <2>1, <2>2, <2>3, <2>4 DEF VouchTyped
<1>5. ASSUME NEW c \in Sites PROVE Uncut(c)
  <2>1. Hands(c) = {}
    BY <1>1, IdleHands DEF Hands
  <2>2. Matched(document[c], signature[c], {}) /\ Standing(document[c], told[c])
    BY <1>2, <1>3 DEF Matched, Standing, Filed
  <2>3. QED  BY <2>1, <2>2 DEF Uncut
<1>6. QED  BY <1>4, <1>5 DEF VouchInv
-----------------------------------------------------------------------------
(* The rule and `verify`.  The least of some revocations is one of them.     *)
LEMMA LeastIsThere ==
  ASSUME NEW S, S \subseteq Nat, S # {}
  PROVE  Vouches!Min(S) \in S /\ \A n \in S : Vouches!Min(S) <= n
<1> DEFINE R == OpToRel(<, Nat)
<1>1. \E k \in S : \A m \in S : ~(<<m, k>> \in R)
  <2> HIDE DEF R
  <2>1. IsWellFoundedOn(R, Nat)
    BY NatLessThanWellFounded DEF R
  <2>2. QED  BY <2>1, WFMin
<1>2. PICK k \in S : \A m \in S : ~(m < k)
  BY <1>1 DEF OpToRel
<1>3. \A m \in S : k <= m
  BY <1>2
<1>4. QED  BY <1>3 DEF Vouches!Min

LEMMA AdmitsAsItCounts ==
  ASSUME VouchTyped, NEW c \in Sites, NEW n \in DOMAIN document[c]
  PROVE  Vouches!Admits(c, n) <=> Vouches!CountsHere(c, n)
<1> DEFINE x == document[c][n]
           kept == Vouches!Entries(c, x.key)
           moments == {trust[c][l] : l \in kept}
<1>1. kept \subseteq DOMAIN trust[c]
  BY DEF Vouches!Entries
<1>2. moments \subseteq Nat
  BY <1>1, NeverIsLast DEF VouchTyped
<1>3. x.when \in Nat
  <2>1. x \in Vouches!Claim
    BY DEF VouchTyped, Folders, Folder
  <2>2. QED  BY <2>1, ClaimShape
<1>4. ASSUME kept # {}
      PROVE  x.when < Vouches!RevokedAt(c, x.key) <=> \A l \in kept : x.when < trust[c][l]
  <2>1. moments # {}
    BY <1>4
  <2>2. Vouches!RevokedAt(c, x.key) = Vouches!Min(moments)
    BY DEF Vouches!RevokedAt
  <2>3. Vouches!Min(moments) \in moments /\ \A m \in moments : Vouches!Min(moments) <= m
    BY <1>2, <2>1, LeastIsThere
  <2> HIDE DEF x
  <2>4. QED  BY <1>2, <1>3, <2>2, <2>3
<1>5. QED  BY <1>4 DEF Vouches!Admits, Vouches!CountsHere, Vouches!SpeaksFor

LEMMA RuleAgrees ==
  ASSUME VouchTyped
  PROVE  Vouches!RuleAgreesWithVerify
<1> SUFFICES ASSUME NEW c \in Sites, Vouches!Errors(c) = {}
             PROVE  Vouches!Admitted(c) =
                      {document[c][n] : n \in {m \in Vouches!Counted(c) : Vouches!CountsHere(c, m)}}
  BY DEF Vouches!RuleAgreesWithVerify
<1> DEFINE alike(x) == {m \in DOMAIN document[c] : document[c][m] = x}
<1>1. \A n \in DOMAIN document[c] : Vouches!First(alike(document[c][n])) \in alike(document[c][n])
  BY FirstIsThere
<1>2. Vouches!Counted(c) = {Vouches!First(alike(document[c][n])) : n \in DOMAIN document[c]}
  BY DEF Vouches!Counted, Vouches!Range
<1>3. Vouches!Counted(c) \subseteq DOMAIN document[c]
  BY <1>1, <1>2
<1>4. \A n \in Vouches!Counted(c) : Vouches!Verified(c, n)
  <2>1. \A n \in Vouches!Counted(c) : n \in DOMAIN signature[c]
    BY DEF Vouches!Errors
  <2>2. QED  BY <2>1 DEF Vouches!Errors
<1>5. ASSUME NEW n \in DOMAIN document[c], Vouches!Admits(c, n)
      PROVE  \E m \in Vouches!Counted(c) : Vouches!CountsHere(c, m) /\ document[c][m] = document[c][n]
  <2> DEFINE m == Vouches!First(alike(document[c][n]))
  <2>1. m \in Vouches!Counted(c) /\ document[c][m] = document[c][n]
    BY <1>1, <1>2
  <2>2. Vouches!CountsHere(c, n)
    BY <1>5, AdmitsAsItCounts
  <2> HIDE DEF m
  <2>3. Vouches!CountsHere(c, m)
    BY <1>4, <2>1, <2>2 DEF Vouches!CountsHere
  <2>4. QED  BY <2>1, <2>3
<1>6. \A n \in Vouches!Counted(c) : Vouches!CountsHere(c, n) => Vouches!Admits(c, n)
  BY <1>3, AdmitsAsItCounts
<1> HIDE DEF alike
<1>7. Vouches!Admitted(c) = {document[c][n] : n \in {m \in DOMAIN document[c] : Vouches!Admits(c, m)}}
  BY DEF Vouches!Admitted
<1>8. QED  BY <1>3, <1>5, <1>6, <1>7

LEMMA OnlyTheCut ==
  ASSUME VouchInv
  PROVE  Vouches!OnlyTheCutAcrossLoseAVouch
<1> SUFFICES ASSUME NEW c \in Sites, Vouches!Within(c) = {}, c \notin cut
             PROVE  told[c] \subseteq Vouches!Signed(c)
  BY DEF Vouches!OnlyTheCutAcrossLoseAVouch
<1>1. Uncut(c)
  BY DEF VouchInv
<1>2. Hands(c) = {}
  BY IdleHands DEF Vouches!Within, Hands
<1>3. Matched(document[c], signature[c], {}) /\ told[c] \subseteq Filed(document[c])
  BY <1>1, <1>2 DEF Uncut, Standing
<1>4. \A n \in DOMAIN document[c] : Vouches!Verified(c, n)
  BY <1>3 DEF Matched, Vouches!Verified
<1>5. QED  BY <1>3, <1>4 DEF Vouches!Signed, Filed

LEMMA VouchesTyped ==
  ASSUME VouchTyped
  PROVE  Vouches!TypeOK
BY DEF VouchTyped, Folders, Folder, Vouches!TypeOK, Vouches!Range

(* However many copies and commands there are, the rule admits the claims    *)
(* that `verify` counts, and what a person was told is signed goes on        *)
(* verifying but where a command was cut across (verify.rs, following.rs).   *)
THEOREM VouchesInvariance == MCSpec => []VouchInv
<1>1. MCInit => VouchInv
  BY VouchingBegins DEF MCInit
<1>2. VouchInv /\ [MCNext]_<<part, vouchesVars, statesVars>> => VouchInv'
  <2> SUFFICES ASSUME VouchInv, [MCNext]_<<part, vouchesVars, statesVars>> PROVE VouchInv'
    OBVIOUS
  <2>1. [Vouches!Next]_(Vouches!vars)
    BY DEF MCNext, vouchesVars, Vouches!vars
  <2>2. QED  BY <2>1, VouchingHolds
<1>3. QED  BY <1>1, <1>2, PTL DEF MCSpec

THEOREM VouchesAreCounted == MCSpec => []VouchesAreRead
<1>1. VouchInv => VouchesAreRead
  BY VouchesTyped, RuleAgrees, OnlyTheCut DEF VouchInv, VouchesAreRead
<1>2. QED  BY <1>1, VouchesInvariance, PTL

LEMMA RevokedStays ==
  ASSUME VouchInv, [Vouches!Next]_(Vouches!vars), NEW c \in Sites, NEW l \in DOMAIN trust[c] \cap DOMAIN trust'[c]
  PROVE  trust'[c][l] <= trust[c][l] \/ Vouches!Overtaken(c, l)
<1> USE DEF VouchInv
<1>1. DOMAIN trust = Sites /\ trust[c][l] \in 1..Vouches!Never
  BY DEF VouchTyped
<1>2. trust[c][l] <= trust[c][l]
  BY <1>1, NeverIsLast
<1>3. CASE trust' = trust
  BY <1>2, <1>3
<1>4. CASE \E b \in Sites, m \in Vouches!Labels : Vouches!Believe(b, m) \/ Vouches!Disbelieve(b, m)
  <2>1. PICK b \in Sites, m \in Vouches!Labels : Vouches!Believe(b, m) \/ Vouches!Disbelieve(b, m)
    BY <1>4
  <2>2. \/ m \notin DOMAIN trust[b] /\ trust' = [trust EXCEPT ![b] = Vouches!With(trust[b], m, Vouches!Never)]
        \/ trust' = [trust EXCEPT ![b] = Vouches!Restrict(trust[b], DOMAIN trust[b] \ {m})]
    BY <2>1 DEF Vouches!Believe, Vouches!Disbelieve
  <2>3. trust'[c][l] = trust[c][l]
    BY <1>1, <2>2 DEF Vouches!With, Vouches!Restrict
  <2>4. QED  BY <1>2, <2>3
<1>5. CASE \E p \in Procs : Vouches!Rewrite(p)
  <2>1. PICK p \in Procs : Vouches!Rewrite(p)
    BY <1>5
  <2> DEFINE j == doing[p]
  <2>2. j \in Revokings /\ j.becomes <= j.read
    BY <2>1, DoingShape DEF Vouches!Rewrite, VouchTyped
  <2>3. j.at = "rewrite" /\ trust' = [trust EXCEPT ![j.in] = Vouches!With(trust[j.in], j.label, j.becomes)]
    BY <2>1 DEF Vouches!Rewrite
  <2>4. CASE j.in = c /\ j.label = l
    <3>1. trust'[c][l] = j.becomes
      BY <1>1, <2>3, <2>4 DEF Vouches!With
    <3>2. CASE trust[c][l] = j.read
      BY <2>2, <3>1, <3>2
    <3>3. CASE trust[c][l] # j.read
      BY <2>3, <2>4, <3>3 DEF Vouches!Overtaken
    <3>4. QED  BY <3>2, <3>3
  <2>5. CASE ~(j.in = c /\ j.label = l)
    <3>1. trust'[c][l] = trust[c][l]
      BY <1>1, <2>3, <2>5 DEF Vouches!With
    <3>2. QED  BY <1>2, <3>1
  <2>6. QED  BY <2>4, <2>5
<1>6. CASE UNCHANGED Vouches!vars
  BY <1>3, <1>6 DEF Vouches!vars
<1>7. CASE Vouches!Next
  BY <1>3, <1>4, <1>5, <1>7
     DEF Vouches!Next, Vouches!Sign, Vouches!WriteByHand, Vouches!WriteClaim, Vouches!WriteSignature,
         Vouches!Arrange, Vouches!Look, Vouches!MoveClaim, Vouches!MoveSignature, Vouches!DropSignature,
         Vouches!DropClaim, Vouches!Arranged, Vouches!Receive, Vouches!Sync, Vouches!Union, Vouches!Revoke,
         Vouches!Compare, Vouches!Stop, Vouches!Tick
<1>8. QED  BY <1>6, <1>7
-----------------------------------------------------------------------------
(* Statements.  What one may be, and what a command that makes one, or       *)
(* records one, carries with it.                                             *)
Statements == [counter : Nat \ {0}, heads : SUBSET Nat, when : 1..MaxDays]
Stems      == Nat \X (Statements \cup {States!None})
Makings    == [at : {"document", "signature"}, does : {"state"}, in : Copies, statement : Statements, to : Stems]
Recordings == [at : {"record"}, does : {"witness"}, in : Copies, statement : Statements]
Jobs       == {States!Idle} \cup Makings \cup Recordings

(* Statements by name, and names that say what is so of them.                *)
Titles(n, s) == n[1] = s.counter /\ n[2] \in {States!None, s}
Sheets(f)    == IsFiniteSet(DOMAIN f) /\ \A n \in DOMAIN f : f[n] \in Statements
Titled(f)    == DOMAIN f \subseteq Stems /\ \A n \in DOMAIN f : Titles(n, f[n])

(* Revisions stand on earlier ones and supersede earlier ones, which stood   *)
(* where they do; with a revision a copy holds what it stands on.            *)
Revisions == 1..Len(rev)
Historic ==
  /\ rev \in Seq([on : SUBSET Nat, over : SUBSET Nat])
  /\ \A r \in Revisions : /\ rev[r].on \subseteq 1..(r - 1) /\ rev[r].over \subseteq 1..(r - 1)
                          /\ \A x \in rev[r].over : rev[x].on = rev[r].on
Whole(K) == K \subseteq Revisions /\ States!Parents(K) \subseteq K

StateTyped ==
  /\ Historic
  /\ DOMAIN held = Copies /\ DOMAIN doc = Copies /\ DOMAIN sig = Copies /\ DOMAIN seen = Copies
  /\ DOMAIN revoked = Copies /\ DOMAIN backup = Copies
  /\ \A c \in Copies :
       /\ Whole(held[c]) /\ Sheets(doc[c]) /\ Titled(doc[c]) /\ Sheets(sig[c])
       /\ seen[c] \in Statements \cup {States!None} /\ revoked[c] \in 1..States!Never
       /\ Whole(backup[c].held) /\ Sheets(backup[c].doc) /\ Titled(backup[c].doc) /\ Sheets(backup[c].sig)
       /\ backup[c].top \in Statements \cup {States!None}
  /\ job \in [Procs -> Jobs] /\ \A p \in Procs : job[p].at = "document" => Titles(job[p].to, job[p].statement)
  /\ today \in 1..MaxDays /\ back \subseteq Copies
  /\ blind \in BOOLEAN /\ glossed \in BOOLEAN /\ crossed \in BOOLEAN

(* A statement's heads are revisions; and a copy holding some revisions      *)
(* covers it if each of its heads is among them, or what came to stand for   *)
(* it is.                                                                    *)
Known(s)     == s.heads # {} /\ s.heads \subseteq Revisions
Covers(K, s) == Known(s) /\ \A h \in s.heads : States!Became(h) \cap K # {}

(* The revisions a statement's heads stand on, however far; and a statement  *)
(* that follows another, its heads standing on what became of the other's.   *)
Under(t)      == {x \in Revisions : \A K \in SUBSET Revisions :
                    t.heads \subseteq K /\ States!Parents(K) \subseteq K => x \in K}
Follows(s, t) == \A h \in s.heads : States!Became(h) \cap Under(t) # {}

(* The statements under way, in a copy and in all of them; those that are    *)
(* signed somewhere, witnessed or being recorded; those a copy can show; and *)
(* the highest that each copy ever put back had shown.                       *)
Busy       == {p \in Procs : job[p] # States!Idle}
MadeIn(c)  == {job[p].statement : p \in {q \in Busy : job[q].in = c /\ job[q].does = "state"}}
Coming     == {job[p].statement : p \in {q \in Busy : job[q].does = "state"}}
Ran(f)     == {f[n] : n \in DOMAIN f}
Gave(s)    ==
  \/ \E c \in Copies : s \in Ran(sig[c]) \cup Ran(backup[c].sig) \cup {seen[c]}
  \/ \E p \in Busy : job[p].does = "witness" /\ job[p].statement = s
Given      == {s \in Statements : Gave(s)}
Said       == UNION {States!Stated(c) : c \in Copies}
Tops       == {backup[c].top : c \in Copies}

(* What a copy states, it covers.                                            *)
Covered ==
  \A c \in Copies : /\ \A s \in Ran(doc[c]) \cup MadeIn(c) : Covers(held[c], s)
                    /\ \A s \in Ran(backup[c].doc) : Covers(backup[c].held, s)

(* What a copy has seen it can show, until it is put back.                   *)
Shown ==
  /\ \A c \in Copies : seen[c] # States!None /\ c \notin back => seen[c] \in States!Stated(c)
  /\ \A p \in Busy : job[p].does = "witness" => job[p].statement \in States!Stated(job[p].in)

(* Where no two commands crossed, one is at its own statement, whose file is *)
(* free or holds it already, or at a record that raises what was seen.       *)
Alone ==
  /\ \A p, q \in Busy : job[p].in = job[q].in => p = q
  /\ \A p \in Busy : LET j == job[p] IN
       /\ j.at = "record" => j.statement.counter > seen[j.in].counter
       /\ j.at = "document" /\ j.to \in DOMAIN doc[j.in] => doc[j.in][j.to] = j.statement
       /\ j.at = "signature" => j.to \in DOMAIN doc[j.in] /\ doc[j.in][j.to] = j.statement

(* Where besides none was begun blind, statements are known by their counts, *)
(* and those given are no higher than what a copy shows, or showed before it *)
(* was put back.                                                             *)
Apart ==
  /\ \A s, t \in Given \cup Coming : s.counter = t.counter => s = t
  /\ \A s \in Given : \E o \in Said \cup Tops : s.counter <= o.counter

(* Where besides none was begun at fault, each follows those before it.      *)
InTurn == \A s, t \in Given \cup Coming : s.counter < t.counter => Follows(s, t)

StateInv ==
  /\ StateTyped /\ Covered /\ Shown
  /\ \A s \in Given \cup Coming : Known(s)
  /\ ~crossed => Alone
  /\ ~crossed /\ ~blind => Apart
  /\ ~crossed /\ ~blind /\ ~glossed => InTurn
-----------------------------------------------------------------------------
(* Bounds.  Of finitely many numbers, one is the greatest.                   *)
LEMMA Bounded ==
  ASSUME NEW S, IsFiniteSet(S), NEW f, \A x \in S : f[x] \in Nat
  PROVE  \E b \in Nat : \A x \in S : f[x] <= b
<1> DEFINE low(T) == \E b \in Nat : \A x \in T : f[x] <= b
           P == {n \in Nat : \E T \in SUBSET S : IsFiniteSet(T) /\ Cardinality(T) = n /\ ~low(T)}
           R == OpToRel(<, Nat)
<1>1. SUFFICES ASSUME ~low(S) PROVE FALSE
  OBVIOUS
<1>2. Cardinality(S) \in P
  BY <1>1, FS_CardinalityType
<1>3. \E n \in P : \A m \in P : ~(<<m, n>> \in R)
  <2> HIDE DEF P, R
  <2>1. IsWellFoundedOn(R, Nat)
    BY NatLessThanWellFounded DEF R
  <2>2. P \subseteq Nat
    BY DEF P
  <2>3. QED  BY <1>2, <2>1, <2>2, WFMin
<1>4. PICK n \in P : \A m \in P : ~(m < n)
  BY <1>3 DEF OpToRel
<1>5. PICK T \in SUBSET S : IsFiniteSet(T) /\ Cardinality(T) = n /\ ~low(T)
  BY <1>4
<1>6. PICK x \in T : TRUE
  <2>1. T # {}
    BY <1>5
  <2>2. QED  BY <2>1
<1>7. IsFiniteSet(T \ {x}) /\ Cardinality(T \ {x}) = n - 1 /\ n \in Nat /\ n - 1 \in Nat
  <2>1. IsFiniteSet(T \ {x}) /\ Cardinality(T \ {x}) = n - 1
    BY <1>5, <1>6, FS_RemoveElement
  <2>2. n \in Nat /\ Cardinality(T \ {x}) \in Nat
    BY <1>4, <2>1, FS_CardinalityType
  <2>3. QED  BY <2>1, <2>2
<1>8. n - 1 \notin P
  BY <1>4, <1>7
<1>9. low(T \ {x})
  BY <1>5, <1>7, <1>8
<1>10. PICK b \in Nat : \A y \in T \ {x} : f[y] <= b
  BY <1>9
<1>11. CASE f[x] <= b
  <2>1. \A y \in T : f[y] <= b
    BY <1>10, <1>11
  <2>2. QED  BY <1>5, <2>1
<1>12. CASE ~(f[x] <= b)
  <2>1. f[x] \in Nat /\ \A y \in T : f[y] \in Nat
    BY <1>6
  <2>2. \A y \in T : f[y] <= f[x]
    BY <1>10, <1>12, <2>1
  <2>3. QED  BY <1>5, <2>1, <2>2
<1>13. QED  BY <1>11, <1>12

LEMMA MostIsThere ==
  ASSUME NEW S, S # {}, NEW f, \A x \in S : f[x] \in Nat, NEW b \in Nat, \A x \in S : f[x] <= b
  PROVE  \E x \in S : \A y \in S : f[y] <= f[x]
<1> DEFINE P == {b - f[x] : x \in S}  R == OpToRel(<, Nat)
<1>1. P \subseteq Nat /\ P # {}
  OBVIOUS
<1>2. \E k \in P : \A m \in P : ~(<<m, k>> \in R)
  <2> HIDE DEF P, R
  <2>1. IsWellFoundedOn(R, Nat)
    BY NatLessThanWellFounded DEF R
  <2>2. QED  BY <1>1, <2>1, WFMin
<1>3. PICK k \in P : \A m \in P : ~(m < k)
  BY <1>1, <1>2 DEF OpToRel
<1>4. PICK x \in S : k = b - f[x]
  BY <1>3
<1>5. ASSUME NEW y \in S PROVE f[y] <= f[x]
  <2>1. ~(b - f[y] < b - f[x])
    BY <1>3, <1>4
  <2>2. QED  BY <2>1
<1>6. QED  BY <1>5

LEMMA MaxIs ==
  ASSUME NEW S, S \subseteq Nat, S # {}, NEW b \in Nat, \A n \in S : n <= b
  PROVE  States!Max(S) \in S /\ \A n \in S : n <= States!Max(S)
<1> DEFINE f == [n \in S |-> n]
<1>1. \E x \in S : \A y \in S : f[y] <= f[x]
  <2>1. \A n \in S : f[n] = n
    OBVIOUS
  <2> HIDE DEF f
  <2>2. (\A n \in S : f[n] \in Nat) /\ \A n \in S : f[n] <= b
    BY <2>1
  <2>3. QED  BY <2>2, MostIsThere
<1>2. \E x \in S : \A y \in S : x >= y
  BY <1>1
<1>3. QED  BY <1>2 DEF States!Max

(* A statement's parts.                                                      *)
LEMMA StatementShape ==
  /\ \A s \in Statements : s.counter \in Nat \ {0} /\ s.heads \subseteq Nat /\ s.when \in 1..MaxDays /\ s # States!None
  /\ States!None.counter = 0 /\ States!None.heads = {} /\ States!None.when = 0
BY DEF Statements, States!None

LEMMA HighmostIs ==
  ASSUME NEW S, S # {}, S \subseteq Statements \cup {States!None}, NEW b \in Nat, \A s \in S : s.counter <= b
  PROVE  States!Highmost(S) \in S /\ \A t \in S : t.counter <= States!Highmost(S).counter
<1> DEFINE f == [s \in S |-> s.counter]
<1>1. \E x \in S : \A y \in S : f[y] <= f[x]
  <2>1. \A s \in S : f[s] = s.counter /\ s.counter \in Nat
    BY StatementShape
  <2> HIDE DEF f
  <2>2. (\A s \in S : f[s] \in Nat) /\ \A s \in S : f[s] <= b
    BY <2>1
  <2>3. QED  BY <2>2, MostIsThere
<1>2. \E x \in S : \A y \in S : y.counter <= x.counter
  BY <1>1
<1>3. QED  BY <1>2 DEF States!Highmost

(* What a copy shows is of its files, and there are bounds to it.            *)
LEMMA StatedIs ==
  ASSUME StateTyped, NEW c \in Copies
  PROVE  /\ States!Stated(c) \subseteq Ran(doc[c]) \cap Ran(sig[c]) /\ Ran(doc[c]) \subseteq Statements
         /\ \E b \in Nat : \A s \in States!Stated(c) : s.counter <= b
<1>1. States!Stated(c) \subseteq Ran(doc[c]) \cap Ran(sig[c])
  BY DEF States!Stated, States!Verified, Ran
<1>2. Ran(doc[c]) \subseteq Statements
  BY DEF StateTyped, Sheets, Ran
<1>3. \E b \in Nat : \A s \in Ran(doc[c]) : s.counter <= b
  <2> DEFINE f == [n \in DOMAIN doc[c] |-> doc[c][n].counter]
  <2>1. \A n \in DOMAIN doc[c] : f[n] = doc[c][n].counter /\ f[n] \in Nat
    BY <1>2, StatementShape DEF Ran
  <2> HIDE DEF f
  <2>2. IsFiniteSet(DOMAIN doc[c])
    BY DEF StateTyped, Sheets
  <2>3. PICK b \in Nat : \A n \in DOMAIN doc[c] : f[n] <= b
    BY <2>1, <2>2, Bounded
  <2>4. QED  BY <2>1, <2>3 DEF Ran
<1>4. QED  BY <1>1, <1>2, <1>3

LEMMA HighestIs ==
  ASSUME StateTyped, NEW c \in Copies
  PROVE  /\ States!Highest(c) \in Nat
         /\ seen[c].counter <= States!Highest(c) /\ \A s \in States!Stated(c) : s.counter <= States!Highest(c)
         /\ States!InSight(c) \in {seen[c].counter} \cup {x.counter : x \in States!Stated(c)}
         /\ \A n \in {seen[c].counter} \cup {x.counter : x \in States!Stated(c)} : n <= States!InSight(c)
         /\ States!InSight(c) <= States!Highest(c)
<1> DEFINE A == {seen[c].counter} \cup {x.counter : x \in States!Stated(c)}
           B == {0, seen[c].counter} \cup {s.counter : s \in States!Stated(c)}
<1>1. PICK b \in Nat : \A s \in States!Stated(c) : s.counter <= b
  BY StatedIs
<1>2. seen[c].counter \in Nat /\ \A s \in States!Stated(c) : s.counter \in Nat
  BY StatedIs, StatementShape DEF StateTyped
<1>3. A \subseteq B /\ B \subseteq Nat /\ A # {}
  BY <1>2
<1>4. \E e \in Nat : \A n \in B : n <= e
  <2>1. CASE seen[c].counter <= b
    BY <1>1, <1>2, <2>1
  <2>2. CASE ~(seen[c].counter <= b)
    <3>1. \A n \in B : n <= seen[c].counter
      BY <1>1, <1>2, <2>2
    <3>2. QED  BY <1>2, <3>1
  <2>3. QED  BY <2>1, <2>2
<1>5. States!Highest(c) = States!Max(B) /\ States!InSight(c) = States!Max(A)
  BY DEF States!Highest, States!InSight
<1>6. \A s \in States!Stated(c) : s.counter \in B
  OBVIOUS
<1>7. seen[c].counter \in B
  OBVIOUS
<1> HIDE DEF A, B
<1>8. States!Max(A) \in A /\ States!Max(B) \in B
      /\ (\A n \in A : n <= States!Max(A)) /\ \A n \in B : n <= States!Max(B)
  BY <1>3, <1>4, MaxIs
<1>9. States!Max(A) <= States!Max(B)
  BY <1>3, <1>8
<1>10. QED  BY <1>3, <1>5, <1>6, <1>7, <1>8, <1>9 DEF A
-----------------------------------------------------------------------------
(* History.  What a revision became is what can be reached from it by        *)
(* succession, and stands where it stood.                                    *)
LEMMA RevisionsAre ==
  ASSUME Historic
  PROVE  /\ Len(rev) \in Nat /\ DOMAIN rev = Revisions /\ Revisions \subseteq Nat
         /\ \A r \in Revisions : /\ rev[r].on \subseteq Revisions /\ rev[r].over \subseteq Revisions
                                 /\ \A x \in rev[r].on \cup rev[r].over : x < r
                                 /\ \A x \in rev[r].over : rev[x].on = rev[r].on
<1>1. Len(rev) \in Nat /\ DOMAIN rev = Revisions
  BY DEF Historic, Revisions
<1>2. \A r \in Revisions : \A x \in 1..(r - 1) : x \in Revisions /\ x < r
  BY <1>1 DEF Revisions
<1>3. Revisions \subseteq Nat
  BY <1>1 DEF Revisions
<1>4. QED  BY <1>1, <1>2, <1>3 DEF Historic

(* A set of revisions that what supersedes one of them is in too.            *)
Closed(R) == R \subseteq Revisions /\ \A t \in Revisions : rev[t].over \cap R # {} => t \in R

LEMMA BecameIs ==
  ASSUME Historic, NEW r, NEW s
  PROVE  s \in States!Became(r) <=> s \in Revisions /\ \A R \in SUBSET Revisions : r \in R /\ Closed(R) => s \in R
BY RevisionsAre DEF States!Became, Closed

LEMMA BecameStays ==
  ASSUME Historic, NEW r, NEW s \in States!Became(r), NEW R, Closed(R), r \in R
  PROVE  s \in R
BY BecameIs DEF Closed

LEMMA BecameSelf ==
  ASSUME Historic, NEW r \in Revisions
  PROVE  r \in States!Became(r) /\ States!Became(r) \subseteq Revisions
BY BecameIs

LEMMA BecameThrough ==
  ASSUME Historic, NEW r, NEW s \in States!Became(r), NEW t \in States!Became(s)
  PROVE  t \in States!Became(r)
BY BecameIs

LEMMA BecameNext ==
  ASSUME Historic, NEW r, NEW s \in States!Became(r), NEW t \in Revisions, s \in rev[t].over
  PROVE  t \in States!Became(r)
BY BecameIs DEF Closed

LEMMA BecameWhere ==
  ASSUME Historic, NEW r \in Revisions, NEW s \in States!Became(r)
  PROVE  rev[s].on = rev[r].on
<1> DEFINE R == {x \in Revisions : rev[x].on = rev[r].on}
<1>1. \A t \in Revisions : \A x \in rev[t].over : rev[x].on = rev[t].on
  BY RevisionsAre
<1>2. Closed(R)
  BY <1>1 DEF Closed
<1>3. r \in R
  OBVIOUS
<1>4. s \in R
  BY <1>2, <1>3, BecameStays
<1>5. QED  BY <1>4

LEMMA BecameBy ==
  ASSUME Historic, NEW h \in Revisions, NEW s \in States!Became(h), s # h
  PROVE  \E t \in Revisions : h \in rev[t].over /\ s \in States!Became(t)
<1> DEFINE R == {x \in Revisions : x = h \/ \E t \in Revisions : h \in rev[t].over /\ x \in States!Became(t)}
<1>1. ASSUME NEW t \in Revisions, NEW x \in rev[t].over \cap R PROVE t \in R
  <2>1. CASE x = h
    BY <2>1, BecameSelf
  <2>2. CASE \E u \in Revisions : h \in rev[u].over /\ x \in States!Became(u)
    BY <2>2, BecameNext
  <2>3. QED  BY <2>1, <2>2
<1>2. Closed(R)
  BY <1>1 DEF Closed
<1>3. s \in R
  BY <1>2, BecameStays
<1>4. QED  BY <1>3

(* Revisions are only ever written: what stands for one goes on standing for *)
(* it, and a copy that has more covers what it covered.                      *)
Grows == Len(rev) <= Len(rev') /\ \A r \in Revisions : rev'[r] = rev[r]

LEMMA GrownRevisions ==
  ASSUME Historic, Historic', Grows
  PROVE  Revisions \subseteq Revisions'
<1>1. Len(rev) \in Nat /\ Len(rev') \in Nat
  BY DEF Historic
<1>2. QED  BY <1>1 DEF Grows, Revisions

LEMMA GrownBecame ==
  ASSUME Historic, Historic', Grows, NEW r \in Revisions
  PROVE  States!Became(r) \subseteq States!Became(r)'
<1>1. SUFFICES ASSUME NEW s \in States!Became(r) PROVE s \in States!Became(r)'
  OBVIOUS
<1>2. Revisions \subseteq Revisions' /\ s \in Revisions
  BY GrownRevisions, BecameSelf
<1>3. ASSUME NEW R \in SUBSET Revisions', r \in R,
             \A t \in Revisions' : rev'[t].over \cap R # {} => t \in R
      PROVE  s \in R
  <2>1. \A t \in Revisions : rev[t].over \cap (R \cap Revisions) # {} => t \in R \cap Revisions
    BY <1>2, <1>3 DEF Grows
  <2>2. Closed(R \cap Revisions)
    BY <2>1 DEF Closed
  <2>3. QED  BY <1>3, <2>2, BecameStays
<1>4. DOMAIN rev' = Revisions'
  BY DEF Historic, Revisions
<1>5. QED  BY <1>2, <1>3, <1>4 DEF States!Became

LEMMA GrownUnder ==
  ASSUME Historic, Historic', Grows, NEW t, Known(t)
  PROVE  Under(t) \subseteq Under(t)'
<1>1. SUFFICES ASSUME NEW x \in Under(t) PROVE x \in Under(t)'
  OBVIOUS
<1>2. Revisions \subseteq Revisions' /\ x \in Revisions /\ t.heads \subseteq Revisions
  BY GrownRevisions DEF Under, Known
<1>3. ASSUME NEW K \in SUBSET Revisions', t.heads \subseteq K, UNION {rev'[r].on : r \in K} \subseteq K
      PROVE  x \in K
  <2> DEFINE L == K \cap Revisions
  <2>1. \A r \in L : rev[r].on \subseteq L
    BY <1>2, <1>3, RevisionsAre DEF Grows
  <2>2. t.heads \subseteq L /\ States!Parents(L) \subseteq L /\ L \in SUBSET Revisions
    BY <1>2, <1>3, <2>1 DEF States!Parents
  <2> HIDE DEF L
  <2>3. x \in L
    BY <2>2 DEF Under
  <2>4. QED  BY <2>3 DEF L
<1>4. QED  BY <1>2, <1>3 DEF Under, States!Parents

LEMMA GrownCovers ==
  ASSUME Historic, Historic', Grows, NEW s, NEW K, Covers(K, s), NEW L, K \subseteq L
  PROVE  /\ s.heads # {} /\ s.heads \subseteq Revisions'
         /\ \A h \in s.heads : States!Became(h)' \cap L # {}
BY GrownRevisions, GrownBecame DEF Covers, Known

LEMMA GrownFollows ==
  ASSUME Historic, Historic', Grows, NEW s, NEW t, Known(s), Known(t), Follows(s, t)
  PROVE  \A h \in s.heads : States!Became(h)' \cap Under(t)' # {}
BY GrownBecame, GrownUnder DEF Follows, Known

LEMMA GreatestOf ==
  ASSUME Historic, NEW S, S \subseteq Revisions, S # {}
  PROVE  \E g \in S : \A x \in S : ~(g < x)
<1>1. Len(rev) \in Nat /\ S \subseteq Nat /\ \A n \in S : n <= Len(rev)
  BY RevisionsAre DEF Revisions
<1>2. States!Max(S) \in S /\ \A n \in S : n <= States!Max(S)
  BY <1>1, MaxIs
<1>3. \A x \in S : ~(States!Max(S) < x)
  <2>1. \A x \in S : x \in Nat /\ States!Max(S) \in Nat /\ x <= States!Max(S)
    BY <1>1, <1>2
  <2>2. QED  BY <2>1
<1>4. QED  BY <1>2, <1>3

(* What is not stood on, in what a copy holds: there is some, and all it     *)
(* holds is under it.                                                        *)
LEMMA SomeChildless ==
  ASSUME Historic, NEW K, Whole(K), K # {}
  PROVE  States!Childless(K) # {} /\ States!Childless(K) \subseteq K
<1>1. PICK g \in K : \A x \in K : ~(g < x)
  BY GreatestOf DEF Whole
<1>2. g \notin States!Parents(K)
  BY <1>1, RevisionsAre DEF States!Parents, Whole
<1>3. QED  BY <1>2 DEF States!Childless

LEMMA AllUnder ==
  ASSUME Historic, NEW K, Whole(K), NEW s, s.heads = States!Childless(K)
  PROVE  K \subseteq Under(s)
<1>1. SUFFICES ASSUME NEW L \in SUBSET Revisions, s.heads \subseteq L, States!Parents(L) \subseteq L
               PROVE  K \subseteq L
  BY DEF Under, Whole
<1>2. SUFFICES ASSUME K \ L # {} PROVE FALSE
  OBVIOUS
<1>3. PICK y \in K \ L : \A x \in K \ L : ~(y < x)
  BY <1>2, GreatestOf DEF Whole
<1>4. PICK z \in K : y \in rev[z].on
  BY <1>1, <1>3 DEF States!Childless, States!Parents
<1>5. y < z
  BY <1>4, RevisionsAre DEF Whole
<1>6. z \in L
  BY <1>3, <1>4, <1>5
<1>7. QED  BY <1>1, <1>3, <1>4, <1>6 DEF States!Parents

(* A copy that covers a statement covers whatever had become of what is      *)
(* under it.                                                                 *)
LEMMA CoversUnder ==
  ASSUME Historic, NEW K, Whole(K), NEW t, Covers(K, t), NEW h \in Revisions,
         States!Became(h) \cap Under(t) # {}
  PROVE  States!Became(h) \cap K # {}
<1> DEFINE L == {g \in Revisions : States!Became(g) \cap K # {}}
<1>1. t.heads \subseteq L
  BY DEF Covers, Known
<1>2. K \subseteq L
  BY BecameSelf DEF Whole
<1>3. ASSUME NEW g \in L PROVE rev[g].on \subseteq L
  <2>1. PICK k \in States!Became(g) \cap K : TRUE
    OBVIOUS
  <2>2. rev[k].on = rev[g].on
    BY BecameWhere
  <2>3. rev[k].on \subseteq K
    BY DEF Whole, States!Parents
  <2>4. QED  BY <1>2, <2>2, <2>3
<1>4. States!Parents(L) \subseteq L
  BY <1>3 DEF States!Parents
<1>5. PICK x \in States!Became(h) \cap Under(t) : TRUE
  OBVIOUS
<1>6. x \in L
  BY <1>1, <1>4, <1>5 DEF Under
<1>7. QED  BY <1>5, <1>6, BecameThrough

(* Prune leaves, of what a revision became, the last that is held; and what  *)
(* is left stands on what is left.                                           *)
LEMMA KeptCovers ==
  ASSUME Historic, NEW K, K \subseteq Revisions, NEW h \in Revisions, States!Became(h) \cap K # {}
  PROVE  States!Became(h) \cap States!Kept(K) # {}
<1>1. PICK g \in States!Became(h) \cap K : \A x \in States!Became(h) \cap K : ~(g < x)
  BY GreatestOf
<1>2. g \notin States!Superseded(K)
  <2>1. ASSUME NEW r \in K, g \in rev[r].over PROVE FALSE
    BY <1>1, <2>1, BecameNext, RevisionsAre
  <2>2. QED  BY <2>1 DEF States!Superseded
<1>3. States!Free(K, K \ {g}) \subseteq K \ {g}
  BY <1>2 DEF States!Free
<1>4. g \in States!Kept(K)
  BY <1>1, <1>3 DEF States!Kept
<1>5. QED  BY <1>1, <1>4

LEMMA KeptWhole ==
  ASSUME Historic, NEW K, Whole(K)
  PROVE  Whole(States!Kept(K)) /\ States!Kept(K) \subseteq K
<1>1. States!Kept(K) \subseteq K
  BY DEF States!Kept
<1>2. ASSUME NEW y \in States!Kept(K), NEW x \in rev[y].on PROVE x \in States!Kept(K)
  <2>1. x \in K
    BY <1>1 DEF Whole, States!Parents
  <2>2. PICK taken \in SUBSET K : States!Free(K, taken) \subseteq taken /\ y \notin taken
    BY DEF States!Kept
  <2> DEFINE fewer == taken \ {x}
  <2>3. States!Parents(K \ taken) \subseteq States!Parents(K \ fewer)
    BY DEF States!Parents
  <2>4. x \in States!Parents(K \ taken)
    BY <1>1, <2>2 DEF States!Parents
  <2>5. States!Free(K, fewer) \subseteq States!Free(K, taken)
    BY <2>3 DEF States!Free
  <2>6. x \notin States!Free(K, fewer)
    BY <2>3, <2>4 DEF States!Free
  <2>7. States!Free(K, fewer) \subseteq fewer
    BY <2>2, <2>5, <2>6
  <2>8. QED  BY <2>1, <2>2, <2>7 DEF States!Kept
<1>3. States!Parents(States!Kept(K)) \subseteq States!Kept(K)
  BY <1>2 DEF States!Parents
<1>4. QED  BY <1>1, <1>3 DEF Whole
-----------------------------------------------------------------------------
(* Types.  Files stay files by name when one is written, or others are laid  *)
(* under them.                                                               *)
LEMMA SheetsWith ==
  ASSUME NEW f, Sheets(f), NEW n, n \notin DOMAIN f, NEW s \in Statements
  PROVE  /\ Sheets(States!With(f, n, s)) /\ Ran(States!With(f, n, s)) = Ran(f) \cup {s}
         /\ DOMAIN States!With(f, n, s) = DOMAIN f \cup {n} /\ States!With(f, n, s)[n] = s
         /\ \A m \in DOMAIN f : States!With(f, n, s)[m] = f[m]
         /\ Titled(f) /\ n \in Stems /\ Titles(n, s) => Titled(States!With(f, n, s))
<1>1. IsFiniteSet(DOMAIN f \cup {n})
  BY FS_AddElement DEF Sheets
<1>2. /\ DOMAIN States!With(f, n, s) = DOMAIN f \cup {n} /\ States!With(f, n, s)[n] = s
      /\ \A m \in DOMAIN f : States!With(f, n, s)[m] = f[m]
  BY DEF States!With
<1> HIDE DEF States!With
<1>3. Ran(States!With(f, n, s)) = Ran(f) \cup {s}
  BY <1>2 DEF Ran
<1>4. Titled(f) /\ n \in Stems /\ Titles(n, s) => Titled(States!With(f, n, s))
  BY <1>2 DEF Titled
<1>5. Sheets(States!With(f, n, s))
  BY <1>1, <1>2 DEF Sheets
<1>6. QED  BY <1>2, <1>3, <1>4, <1>5

LEMMA RanWith ==
  ASSUME NEW f, Sheets(f), NEW n, n \notin DOMAIN f, NEW s \in Statements, NEW x \in Ran(States!With(f, n, s))
  PROVE  x \in Ran(f) \cup {s}
BY DEF States!With, Ran

LEMMA SheetsUnder ==
  ASSUME NEW f, Sheets(f), NEW g, Sheets(g)
  PROVE  /\ Sheets(States!Under(f, g)) /\ Ran(States!Under(f, g)) \subseteq Ran(f) \cup Ran(g)
         /\ DOMAIN States!Under(f, g) = DOMAIN f \cup DOMAIN g
         /\ \A m \in DOMAIN f : States!Under(f, g)[m] = f[m]
         /\ Titled(f) /\ Titled(g) => Titled(States!Under(f, g))
<1>1. IsFiniteSet(DOMAIN f \cup DOMAIN g)
  BY FS_Union DEF Sheets
<1> DEFINE u == States!Under(f, g)
<1>2. /\ DOMAIN u = DOMAIN f \cup DOMAIN g /\ \A m \in DOMAIN f : u[m] = f[m]
      /\ \A m \in DOMAIN g \ DOMAIN f : u[m] = g[m]
  BY DEF States!Under
<1> HIDE DEF u
<1>3. Ran(u) \subseteq Ran(f) \cup Ran(g)
  BY <1>2 DEF Ran
<1>4. Titled(f) /\ Titled(g) => Titled(u)
  BY <1>2 DEF Titled
<1>5. Sheets(u)
  BY <1>1, <1>2 DEF Sheets
<1>6. QED  BY <1>2, <1>3, <1>4, <1>5 DEF u

(* A command's job is of one of the kinds, told apart by where it is.        *)
LEMMA JobShape ==
  ASSUME StateTyped, NEW p \in Procs
  PROVE  /\ job[p].at \in {"document", "signature"} <=> job[p] \in Makings
         /\ job[p].at = "record" <=> job[p] \in Recordings
         /\ job[p].at = "idle" <=> job[p] = States!Idle
         /\ job[p] \in Makings => /\ job[p].does = "state" /\ job[p].in \in Copies /\ job[p].statement \in Statements
                                  /\ job[p].to \in Stems
         /\ job[p] \in Recordings => job[p].does = "witness" /\ job[p].in \in Copies /\ job[p].statement \in Statements
         /\ p \in Busy <=> job[p] \in Makings \cup Recordings
<1>1. job[p] \in Jobs
  BY DEF StateTyped
<1>2. \A j \in Makings : j.at \in {"document", "signature"} /\ j.does = "state" /\ j.in \in Copies
                         /\ j.statement \in Statements /\ j.to \in Stems
  BY DEF Makings
<1>3. \A j \in Recordings : j.at = "record" /\ j.does = "witness" /\ j.in \in Copies /\ j.statement \in Statements
  BY DEF Recordings
<1>4. States!Idle.at = "idle"
  BY DEF States!Idle
<1>5. QED  BY <1>1, <1>2, <1>3, <1>4 DEF Jobs, Busy

LEMMA JobsAre ==
  /\ \A at \in {"document", "signature"}, c \in Copies, s \in Statements, n \in Stems :
       LET j == States!Making(at, c, s, n) IN
       /\ j \in Makings /\ j.at = at /\ j.does = "state" /\ j.in = c /\ j.statement = s /\ j.to = n
  /\ \A c \in Copies, s \in Statements :
       LET j == States!Witnessing(c, s) IN
       /\ j \in Recordings /\ j.at = "record" /\ j.does = "witness" /\ j.in = c /\ j.statement = s
BY DEF States!Making, States!Witnessing, Makings, Recordings

(* Where no revision is written, none changes.                               *)
LEMMA SameHistory ==
  ASSUME Historic, rev' = rev
  PROVE  /\ Historic' /\ Grows /\ Revisions' = Revisions
         /\ \A K : States!Parents(K)' = States!Parents(K)
         /\ \A K : States!Superseded(K)' = States!Superseded(K)
         /\ \A r : States!Became(r)' = States!Became(r)
         /\ \A t : Under(t)' = Under(t)
<1>1. Historic'
  BY DEF Historic, Revisions
<1>2. Grows
  BY RevisionsAre DEF Grows
<1>3. Revisions' = Revisions
  BY DEF Revisions
<1>4. \A K : States!Parents(K)' = States!Parents(K) /\ States!Superseded(K)' = States!Superseded(K)
  BY DEF States!Parents, States!Superseded
<1>5. \A r : States!Became(r)' = States!Became(r)
  BY DEF States!Became
<1>6. \A t : Under(t)' = Under(t)
  BY <1>3, <1>4 DEF Under
<1>7. QED  BY <1>1, <1>2, <1>3, <1>4, <1>5, <1>6

LEMMA TypedWrite ==
  ASSUME StateTyped, NEW c \in Copies, NEW on, NEW over, on \subseteq held[c], over \subseteq held[c],
         \A x \in over : rev[x].on = on, States!Write(c, on, over)
  PROVE  /\ StateTyped' /\ Grows /\ held[c] \subseteq held'[c] /\ \A d \in Copies \ {c} : held'[d] = held[d]
<1> DEFINE n == Len(rev) + 1  e == [on |-> on, over |-> over]
<1>1. Historic /\ \A d \in Copies : Whole(held[d]) /\ Whole(backup[d].held)
  BY DEF StateTyped
<1>2. rev' = Append(rev, e) /\ held' = [held EXCEPT ![c] = held[c] \cup {n}]
  BY DEF States!Write
<1>3. Len(rev) \in Nat /\ rev \in Seq([on : SUBSET Nat, over : SUBSET Nat]) /\ Revisions \subseteq Nat
  BY <1>1, RevisionsAre DEF Historic
<1>4. on \subseteq Revisions /\ over \subseteq Revisions
  BY <1>1 DEF Whole
<1>5. e \in [on : SUBSET Nat, over : SUBSET Nat]
  BY <1>3, <1>4
<1> HIDE DEF e
<1>6. /\ rev' \in Seq([on : SUBSET Nat, over : SUBSET Nat]) /\ Len(rev') = n
      /\ \A r \in 1..Len(rev) : rev'[r] = rev[r]
      /\ rev'[n] = e
  BY <1>2, <1>3, <1>5
<1>7. Grows
  BY <1>3, <1>6 DEF Grows, Revisions
<1>8. Revisions' = Revisions \cup {n} /\ n \notin Revisions /\ Revisions = 1..(n - 1)
  BY <1>3, <1>6 DEF Revisions
<1>9. Historic'
  <2>1. \A r \in Revisions : /\ rev'[r].on \subseteq 1..(r - 1) /\ rev'[r].over \subseteq 1..(r - 1)
                             /\ \A x \in rev'[r].over : x \in Revisions /\ rev[x].on = rev[r].on
    BY <1>1, <1>7, RevisionsAre DEF Grows, Historic
  <2>2. \A r \in Revisions : \A x \in rev'[r].over : rev'[x].on = rev'[r].on
    BY <1>7, <2>1 DEF Grows
  <2>3. rev'[n].on \subseteq 1..(n - 1) /\ rev'[n].over \subseteq 1..(n - 1)
    BY <1>4, <1>6, <1>8 DEF e
  <2>4. \A x \in rev'[n].over : rev'[x].on = rev'[n].on
    BY <1>4, <1>6, <1>7 DEF e, Grows
  <2>5. QED  BY <1>6, <1>8, <2>1, <2>2, <2>3, <2>4 DEF Historic
<1>10. ASSUME NEW K, Whole(K) PROVE Whole(K)'
  BY <1>7, <1>8, <1>10 DEF Whole, Grows, States!Parents
<1>12. \A d \in Copies : Whole(held[d])'
  <2>1. DOMAIN held = Copies /\ held'[c] = held[c] \cup {n}
    BY <1>2 DEF StateTyped
  <2>2. Whole(held[c])'
    <3>1. \A r \in held[c] : rev'[r].on \subseteq held[c]
      BY <1>1, <1>7 DEF Whole, Grows, States!Parents
    <3>2. rev'[n].on \subseteq held[c] /\ held[c] \subseteq Revisions
      BY <1>1, <1>6 DEF e, Whole
    <3>3. \A r \in held[c] \cup {n} : rev'[r].on \subseteq held[c] \cup {n}
      BY <3>1, <3>2
    <3>4. QED  BY <1>8, <2>1, <3>2, <3>3 DEF Whole, States!Parents
  <2>3. ASSUME NEW d \in Copies, d # c PROVE Whole(held[d])'
    <3>1. held'[d] = held[d] /\ Whole(held[d])
      BY <1>1, <1>2, <2>1, <2>3
    <3>2. QED  BY <1>7, <1>8, <3>1 DEF Whole, Grows, States!Parents
  <2>4. QED  BY <2>2, <2>3
<1>13. \A d \in Copies : Whole(backup[d].held)'
  <2>1. backup' = backup
    BY DEF States!Write
  <2>2. QED  BY <1>1, <1>7, <1>8, <2>1 DEF Whole, Grows, States!Parents
<1>14. crossed' \in BOOLEAN
  BY DEF States!Write, States!Cross, StateTyped
<1>15. UNCHANGED <<doc, sig, seen, revoked, backup, job, back, blind, glossed, today>>
  BY DEF States!Write, States!claims, States!Done
<1>16. StateTyped'
  BY <1>2, <1>9, <1>12, <1>13, <1>14, <1>15 DEF StateTyped
<1>17. QED  BY <1>2, <1>7, <1>16 DEF StateTyped

LEMMA SameWhole ==
  ASSUME Historic, rev' = rev, NEW K
  PROVE  K \subseteq Revisions' /\ States!Parents(K)' \subseteq K <=> Whole(K)
BY SameHistory DEF Whole

LEMMA TypedPrune ==
  ASSUME StateTyped, NEW c \in Copies, States!Prune(c)
  PROVE  StateTyped'
<1>1. Historic /\ Historic' /\ rev' = rev
  BY SameHistory DEF StateTyped, States!Prune
<1>2. held' = [held EXCEPT ![c] = States!Kept(held[c])] /\ DOMAIN held = Copies
  BY DEF StateTyped, States!Prune
<1>3. \A d \in Copies : Whole(held[d]) /\ Whole(backup[d].held) /\ Whole(States!Kept(held[d]))
  BY <1>1, KeptWhole DEF StateTyped
<1>4. UNCHANGED <<doc, sig, seen, revoked, backup, job, back, blind, glossed, today>>
  BY DEF States!Prune, States!claims, States!Done
<1>5. \A d \in Copies : Whole(held'[d])
  BY <1>2, <1>3
<1>6. \A d \in Copies : Whole(held[d])' /\ Whole(backup[d].held)'
  BY <1>1, <1>3, <1>4, <1>5, SameWhole DEF Whole
<1>7. crossed' \in BOOLEAN
  BY DEF States!Prune, States!Cross, StateTyped
<1>8. QED  BY <1>1, <1>2, <1>4, <1>6, <1>7 DEF StateTyped

LEMMA TypedReceive ==
  ASSUME StateTyped, NEW c \in Copies, NEW d \in Copies, States!Receive(c, d)
  PROVE  StateTyped'
<1>1. Historic /\ Historic' /\ rev' = rev
  BY SameHistory DEF StateTyped, States!Receive
<1>2. /\ held' = [held EXCEPT ![c] = held[c] \cup held[d]]
      /\ doc' = [doc EXCEPT ![c] = States!Under(doc[c], doc[d])]
      /\ sig' = [sig EXCEPT ![c] = States!Under(sig[c], sig[d])]
  BY DEF States!Receive
<1>3. UNCHANGED <<seen, revoked, backup, job, back, blind, glossed, today>>
  BY DEF States!Receive, States!Done
<1>4. DOMAIN held = Copies /\ DOMAIN doc = Copies /\ DOMAIN sig = Copies
  BY DEF StateTyped
<1>5. \A b \in Copies : Whole(held[b]) /\ Sheets(doc[b]) /\ Titled(doc[b]) /\ Sheets(sig[b]) /\ Whole(backup[b].held)
  BY DEF StateTyped
<1>6. /\ Whole(held[c] \cup held[d])
      /\ Sheets(States!Under(doc[c], doc[d])) /\ Titled(States!Under(doc[c], doc[d]))
      /\ Sheets(States!Under(sig[c], sig[d]))
  <2>1. Whole(held[c] \cup held[d])
    BY <1>5 DEF Whole, States!Parents
  <2>2. QED  BY <2>1, <1>5, SheetsUnder
<1>7. \A b \in Copies : Whole(held'[b]) /\ Sheets(doc'[b]) /\ Titled(doc'[b]) /\ Sheets(sig'[b])
  BY <1>2, <1>4, <1>5, <1>6
<1>8. \A b \in Copies : Whole(held[b])' /\ Whole(backup[b].held)'
  BY <1>1, <1>3, <1>5, <1>7, SameWhole DEF Whole
<1>9. \A b \in Copies : Sheets(doc[b])' /\ Titled(doc[b])' /\ Sheets(sig[b])'
  BY <1>7 DEF Sheets, Titled
<1>10. crossed' \in BOOLEAN
  BY DEF States!Receive, StateTyped
<1>11. DOMAIN held' = Copies /\ DOMAIN doc' = Copies /\ DOMAIN sig' = Copies
  BY <1>2, <1>4
<1>12. QED  BY <1>1, <1>3, <1>8, <1>9, <1>10, <1>11 DEF StateTyped

(* What a copy comes to show, for one put back, is the highest it showed.    *)
LEMMA TopIs ==
  ASSUME StateTyped, NEW c \in Copies
  PROVE  LET S == States!Stated(c) \cup {backup[c].top} IN
         States!Highmost(S) \in S /\ \A t \in S : t.counter <= States!Highmost(S).counter
<1> DEFINE S == States!Stated(c) \cup {backup[c].top}  t == backup[c].top
<1>1. t \in Statements \cup {States!None} /\ States!Stated(c) \subseteq Statements
  BY StatedIs DEF StateTyped
<1>2. PICK b \in Nat : \A s \in States!Stated(c) : s.counter <= b
  BY StatedIs
<1>3. t.counter \in Nat /\ \A s \in States!Stated(c) : s.counter \in Nat
  BY <1>1, StatementShape
<1>4. \E e \in Nat : \A s \in S : s.counter <= e
  <2>1. CASE t.counter <= b
    BY <1>2, <2>1
  <2>2. CASE ~(t.counter <= b)
    <3>1. \A s \in S : s.counter <= t.counter
      BY <1>2, <1>3, <2>2
    <3>2. QED  BY <1>3, <3>1
  <2>3. QED  BY <2>1, <2>2
<1>5. S # {} /\ S \subseteq Statements \cup {States!None}
  BY <1>1
<1> HIDE DEF S
<1>6. States!Highmost(S) \in S /\ \A x \in S : x.counter <= States!Highmost(S).counter
  BY <1>4, <1>5, HighmostIs
<1>7. QED  BY <1>6 DEF S

LEMMA TypedCopies ==
  ASSUME StateTyped, NEW c \in Copies, States!Copy(c) \/ States!Restore(c)
  PROVE  StateTyped'
<1>1. Historic /\ Historic' /\ rev' = rev
  BY SameHistory DEF StateTyped, States!Copy, States!Restore
<1>2. UNCHANGED <<seen, revoked, job, blind, glossed, crossed, today>>
  BY DEF States!Copy, States!Restore, States!Done, States!history
<1>3. /\ DOMAIN held = Copies /\ DOMAIN doc = Copies /\ DOMAIN sig = Copies /\ DOMAIN backup = Copies
      /\ back \subseteq Copies
  BY DEF StateTyped
<1>4. \A b \in Copies : /\ Whole(held[b]) /\ Sheets(doc[b]) /\ Titled(doc[b]) /\ Sheets(sig[b]) /\ Whole(backup[b].held)
                        /\ Sheets(backup[b].doc) /\ Titled(backup[b].doc) /\ Sheets(backup[b].sig)
                        /\ backup[b].top \in Statements \cup {States!None}
  BY DEF StateTyped
<1>5. /\ \A b \in Copies : /\ Whole(held'[b]) /\ Sheets(doc'[b]) /\ Titled(doc'[b]) /\ Sheets(sig'[b])
                           /\ Whole(backup'[b].held) /\ Sheets(backup'[b].doc) /\ Titled(backup'[b].doc)
                           /\ Sheets(backup'[b].sig) /\ backup'[b].top \in Statements \cup {States!None}
      /\ DOMAIN held' = Copies /\ DOMAIN doc' = Copies /\ DOMAIN sig' = Copies /\ DOMAIN backup' = Copies
      /\ back' \subseteq Copies
  <2>1. CASE States!Copy(c)
    BY <1>3, <1>4, <2>1 DEF States!Copy, States!history, States!claims
  <2>2. CASE States!Restore(c)
    <3> DEFINE t == States!Highmost(States!Stated(c) \cup {backup[c].top})
    <3>1. t \in Statements \cup {States!None}
      BY <1>4, TopIs, StatedIs
    <3>2. /\ held' = [held EXCEPT ![c] = backup[c].held] /\ doc' = [doc EXCEPT ![c] = backup[c].doc]
          /\ sig' = [sig EXCEPT ![c] = backup[c].sig] /\ back' = back \cup {c}
          /\ backup' = [backup EXCEPT ![c] =
                          [held |-> backup[c].held, doc |-> backup[c].doc, sig |-> backup[c].sig, top |-> t]]
      BY <2>2 DEF States!Restore
    <3> HIDE DEF t
    <3>3. QED  BY <1>3, <1>4, <3>1, <3>2
  <2>3. QED  BY <2>1, <2>2
<1>6. \A b \in Copies : Whole(held[b])' /\ Whole(backup[b].held)'
  BY <1>1, <1>5, SameWhole DEF Whole
<1>7. \A b \in Copies : /\ Sheets(doc[b])' /\ Titled(doc[b])' /\ Sheets(sig[b])'
                        /\ Sheets(backup[b].doc)' /\ Titled(backup[b].doc)' /\ Sheets(backup[b].sig)'
  BY <1>5 DEF Sheets, Titled
<1>8. QED  BY <1>1, <1>2, <1>5, <1>6, <1>7 DEF StateTyped

(* What a copy states is one statement more, of the heads it has; and its    *)
(* file is free, or already holds the statement.                             *)
LEMMA StatementIs ==
  ASSUME StateTyped, NEW c \in Copies, held[c] # {}
  PROVE  LET s == States!Statement(c)  to == States!Stem(c, s) IN
         /\ s \in Statements /\ s.counter = States!Highest(c) + 1 /\ s.heads = States!Childless(held[c])
         /\ s.heads # {} /\ s.heads \subseteq held[c] /\ Known(s)
         /\ to \in Stems /\ Titles(to, s) /\ (to \in DOMAIN doc[c] => doc[c][to] = s)
<1> DEFINE s == States!Statement(c)  to == States!Stem(c, s)
<1>1. Historic /\ Whole(held[c]) /\ today \in 1..MaxDays
  BY DEF StateTyped
<1>2. States!Highest(c) \in Nat
  BY HighestIs
<1>3. States!Childless(held[c]) # {} /\ States!Childless(held[c]) \subseteq held[c] /\ held[c] \subseteq Revisions
  BY <1>1, SomeChildless DEF Whole
<1>4. s.counter = States!Highest(c) + 1 /\ s.heads = States!Childless(held[c])
  BY DEF States!Statement
<1>5. s \in Statements
  <2>1. States!Highest(c) + 1 \in Nat \ {0} /\ States!Childless(held[c]) \in SUBSET Nat
    BY <1>1, <1>2, <1>3, RevisionsAre
  <2>2. QED  BY <1>1, <2>1 DEF States!Statement, Statements
<1> HIDE DEF s
<1>6. Known(s)
  BY <1>3, <1>4 DEF Known
<1>7. s.counter \in Nat /\ s # States!None
  BY <1>5, StatementShape
<1>8. Titled(doc[c])
  BY DEF StateTyped
<1>9. to \in Stems /\ Titles(to, s) /\ (to \in DOMAIN doc[c] => doc[c][to] = s)
  <2>1. CASE \E n \in DOMAIN doc[c] : doc[c][n] # s /\ doc[c][n].counter = s.counter
    <3>1. to = <<s.counter, s>>
      BY <2>1 DEF States!Stem
    <3>2. to \in Stems /\ Titles(to, s)
      BY <1>5, <1>7, <3>1 DEF Stems, Titles
    <3>3. to \in DOMAIN doc[c] => doc[c][to] = s
      BY <1>7, <1>8, <3>1 DEF Titled, Titles
    <3>4. QED  BY <3>2, <3>3
  <2>2. CASE ~\E n \in DOMAIN doc[c] : doc[c][n] # s /\ doc[c][n].counter = s.counter
    <3>1. to = <<s.counter, States!None>>
      BY <2>2 DEF States!Stem
    <3>2. to \in Stems /\ Titles(to, s)
      BY <1>5, <1>7, <3>1 DEF Stems, Titles
    <3>3. to \in DOMAIN doc[c] => doc[c][to].counter = s.counter
      BY <1>8, <3>1 DEF Titled, Titles
    <3>4. QED  BY <2>2, <3>2, <3>3
  <2>3. QED  BY <2>1, <2>2
<1>10. QED  BY <1>3, <1>4, <1>5, <1>6, <1>9 DEF s, to

LEMMA Whatever ==
  ASSUME StateTyped, UNCHANGED <<rev, held, backup>>
  PROVE  Historic' /\ \A c \in Copies : Whole(held[c])' /\ Whole(backup[c].held)'
<1>1. Historic /\ Historic' /\ \A c \in Copies : Whole(held[c]) /\ Whole(backup[c].held)
  BY SameHistory DEF StateTyped
<1>2. QED  BY <1>1, SameWhole DEF Whole

LEMMA TypedJob ==
  ASSUME StateTyped, NEW p \in Procs, NEW j \in Jobs, job' = [job EXCEPT ![p] = j],
         j.at = "document" => Titles(j.to, j.statement),
         UNCHANGED <<rev, held, doc, sig, revoked, backup, today>>,
         seen' = seen \/ \E c \in Copies, s \in Statements : seen' = [seen EXCEPT ![c] = s],
         back' \subseteq back, blind' \in BOOLEAN, glossed' \in BOOLEAN, crossed' \in BOOLEAN
  PROVE  StateTyped'
<1>1. Historic' /\ \A c \in Copies : Whole(held[c])' /\ Whole(backup[c].held)'
  BY Whatever
<1>2. job' \in [Procs -> Jobs] /\ \A q \in Procs : job'[q].at = "document" => Titles(job'[q].to, job'[q].statement)
  BY DEF StateTyped
<1>3. DOMAIN seen' = Copies /\ \A c \in Copies : seen'[c] \in Statements \cup {States!None}
  BY DEF StateTyped
<1>4. back' \subseteq Copies
  BY DEF StateTyped
<1>5. \A q \in Procs : (job[q].at = "document" => Titles(job[q].to, job[q].statement))'
  BY <1>2 DEF Titles
<1>6. \A c \in Copies : /\ Sheets(doc[c])' /\ Titled(doc[c])' /\ Sheets(sig[c])'
                        /\ Sheets(backup[c].doc)' /\ Titled(backup[c].doc)' /\ Sheets(backup[c].sig)'
  BY DEF StateTyped, Sheets, Titled
<1>7. QED  BY <1>1, <1>2, <1>3, <1>4, <1>5, <1>6 DEF StateTyped

LEMMA IdleIsJob == States!Idle \in Jobs /\ States!Idle.at = "idle"
BY DEF Jobs, States!Idle

LEMMA TypedState ==
  ASSUME StateTyped, NEW p \in Procs, NEW c \in Copies, States!State(p, c)
  PROVE  StateTyped'
<1> DEFINE s == States!Statement(c)  to == States!Stem(c, s)
<1>1. s \in Statements /\ to \in Stems /\ Titles(to, s)
  BY StatementIs DEF States!State
<1>2. job' = [job EXCEPT ![p] = States!Making("document", c, s, to)]
  BY DEF States!State, States!Start
<1>3. crossed' \in BOOLEAN /\ today' = today
  BY DEF States!State, States!Start, States!Cross, States!Done, StateTyped
<1>4. blind' \in BOOLEAN /\ glossed' \in BOOLEAN
  BY DEF States!State, StateTyped
<1>5. UNCHANGED <<rev, held, doc, sig, seen, revoked, backup, back>>
  BY DEF States!State, States!claims
<1> HIDE DEF s, to
<1> DEFINE j == States!Making("document", c, s, to)
<1>6. j \in Makings /\ j.to = to /\ j.statement = s
  BY <1>1, JobsAre
<1> HIDE DEF j
<1>7. QED  BY <1>1, <1>2, <1>3, <1>4, <1>5, <1>6, TypedJob DEF Jobs, j

LEMMA TypedWitness ==
  ASSUME StateTyped, NEW p \in Procs, NEW c \in Copies, States!Witness(p, c)
  PROVE  StateTyped'
<1>1. PICK s \in States!Latest(c) : States!Start(p, c, States!Witnessing(c, s))
  BY DEF States!Witness
<1>2. s \in Statements
  BY <1>1, StatedIs DEF States!Latest, States!CountsHere
<1>3. job' = [job EXCEPT ![p] = States!Witnessing(c, s)]
  BY <1>1 DEF States!Start
<1>4. crossed' \in BOOLEAN /\ today' = today
  BY <1>1 DEF States!Start, States!Cross, States!Done, StateTyped
<1>5. UNCHANGED <<rev, held, doc, sig, seen, revoked, backup, back, blind, glossed>>
  BY DEF States!Witness, States!claims
<1> DEFINE j == States!Witnessing(c, s)
<1>6. j \in Recordings /\ j.at = "record"
  BY <1>2, JobsAre
<1>7. blind' \in BOOLEAN /\ glossed' \in BOOLEAN
  BY <1>5 DEF StateTyped
<1> HIDE DEF j
<1>8. QED  BY <1>3, <1>4, <1>5, <1>6, <1>7, TypedJob DEF Jobs, j

LEMMA TypedEnds ==
  ASSUME StateTyped, NEW p \in Procs, States!WriteRecord(p) \/ States!Stop(p)
  PROVE  StateTyped'
<1>1. job' = [job EXCEPT ![p] = States!Idle]
  BY DEF States!WriteRecord, States!Stop, States!Finish
<1>2. UNCHANGED <<rev, held, doc, sig, revoked, backup, blind, glossed, crossed, today>>
  BY DEF States!WriteRecord, States!Stop, States!claims, States!bounds, States!history
<1>3. seen' = seen \/ \E c \in Copies, s \in Statements : seen' = [seen EXCEPT ![c] = s]
  BY JobShape DEF States!WriteRecord, States!Stop
<1>4. back' \subseteq back
  BY DEF States!WriteRecord, States!Stop, States!history
<1>5. blind' \in BOOLEAN /\ glossed' \in BOOLEAN /\ crossed' \in BOOLEAN
  BY <1>2 DEF StateTyped
<1>6. QED  BY <1>1, <1>2, <1>3, <1>4, <1>5, IdleIsJob, TypedJob

LEMMA TypedWriting ==
  ASSUME StateTyped, NEW p \in Procs, States!WriteStatement(p) \/ States!WriteSignature(p)
  PROVE  StateTyped'
<1> DEFINE j == job[p]  c == j.in
<1>1. j \in Makings /\ c \in Copies /\ j.statement \in Statements /\ j.to \in Stems
  BY JobShape DEF States!WriteStatement, States!WriteSignature
<1>2. UNCHANGED <<rev, held, seen, revoked, backup, back, blind, glossed, crossed, today>>
  BY DEF States!WriteStatement, States!WriteSignature, States!bounds, States!history
<1>3. Historic' /\ \A d \in Copies : Whole(held[d])' /\ Whole(backup[d].held)'
  BY <1>2, Whatever
<1>4. job' \in [Procs -> Jobs] /\ \A q \in Procs : job'[q].at = "document" => Titles(job'[q].to, job'[q].statement)
  <2>1. \E k \in Jobs : k.at # "document" /\ job' = [job EXCEPT ![p] = k]
    <3>1. CASE States!WriteStatement(p)
      <4> DEFINE k == States!Making("signature", c, j.statement, j.to)
      <4>1. job' = [job EXCEPT ![p] = k]
        BY <3>1 DEF States!WriteStatement
      <4>2. k \in Jobs /\ k.at = "signature"
        BY <1>1, JobsAre DEF Jobs
      <4>3. QED  BY <4>1, <4>2
    <3>2. CASE States!WriteSignature(p)
      BY <3>2, IdleIsJob DEF States!WriteSignature, States!Finish
    <3>3. QED  BY <3>1, <3>2
  <2>2. QED  BY <2>1 DEF StateTyped
<1>5. DOMAIN doc = Copies /\ DOMAIN sig = Copies
      /\ \A d \in Copies : Sheets(doc[d]) /\ Titled(doc[d]) /\ Sheets(sig[d])
  BY DEF StateTyped
<1>6. DOMAIN doc' = Copies /\ DOMAIN sig' = Copies
      /\ \A d \in Copies : Sheets(doc'[d]) /\ Titled(doc'[d]) /\ Sheets(sig'[d])
  <2>1. CASE States!WriteStatement(p)
    <3>1. sig' = sig /\ (doc' = doc \/ (j.to \notin DOMAIN doc[c]
                           /\ doc' = [doc EXCEPT ![c] = States!With(doc[c], j.to, j.statement)]))
      BY <2>1 DEF States!WriteStatement
    <3>2. Titles(j.to, j.statement)
      BY <2>1 DEF States!WriteStatement, StateTyped
    <3>3. j.to \notin DOMAIN doc[c] => Sheets(States!With(doc[c], j.to, j.statement))
                                       /\ Titled(States!With(doc[c], j.to, j.statement))
      BY <1>1, <1>5, <3>2, SheetsWith
    <3> HIDE DEF j, c
    <3>4. QED  BY <1>1, <1>5, <3>1, <3>3
  <2>2. CASE States!WriteSignature(p)
    <3>1. doc' = doc /\ (sig' = sig \/ (j.to \notin DOMAIN sig[c]
                           /\ sig' = [sig EXCEPT ![c] = States!With(sig[c], j.to, j.statement)]))
      BY <2>2 DEF States!WriteSignature
    <3>2. j.to \notin DOMAIN sig[c] => Sheets(States!With(sig[c], j.to, j.statement))
      BY <1>1, <1>5, SheetsWith
    <3> HIDE DEF j, c
    <3>3. QED  BY <1>1, <1>5, <3>1, <3>2
  <2>3. QED  BY <2>1, <2>2
<1>7. \A d \in Copies : /\ Sheets(doc[d])' /\ Titled(doc[d])' /\ Sheets(sig[d])'
                        /\ Sheets(backup[d].doc)' /\ Titled(backup[d].doc)' /\ Sheets(backup[d].sig)'
  BY <1>2, <1>6 DEF StateTyped, Sheets, Titled
<1>8. \A q \in Procs : (job[q].at = "document" => Titles(job[q].to, job[q].statement))'
  BY <1>4 DEF Titles
<1>9. QED  BY <1>2, <1>3, <1>4, <1>6, <1>7, <1>8 DEF StateTyped

LEMMA TypedRest ==
  ASSUME StateTyped, (\E c \in Copies, w \in 1..MaxDays : States!Revoke(c, w)) \/ States!Tick \/ UNCHANGED States!vars
  PROVE  StateTyped'
<1>1. UNCHANGED <<rev, held, doc, sig, seen, backup, job, back, blind, glossed, crossed>>
  BY DEF States!Revoke, States!Tick, States!vars, States!claims, States!history
<1>2. Historic' /\ \A c \in Copies : Whole(held[c])' /\ Whole(backup[c].held)'
  BY <1>1, Whatever
<1>3. \A c \in Copies : /\ Sheets(doc[c])' /\ Titled(doc[c])' /\ Sheets(sig[c])'
                        /\ Sheets(backup[c].doc)' /\ Titled(backup[c].doc)' /\ Sheets(backup[c].sig)'
  BY <1>1 DEF StateTyped, Sheets, Titled
<1>4. MaxDays \in Nat /\ States!Never = MaxDays + 1
  BY BoundsAssumption DEF States!Never
<1>5. DOMAIN revoked' = Copies /\ \A c \in Copies : revoked'[c] \in 1..States!Never
  BY <1>4 DEF States!Revoke, States!Tick, States!vars, StateTyped
<1>6. today' \in 1..MaxDays
  BY <1>4 DEF States!Revoke, States!Tick, States!vars, States!Done, StateTyped
<1>7. \A q \in Procs : (job[q].at = "document" => Titles(job[q].to, job[q].statement))'
  BY <1>1 DEF Titles, StateTyped
<1>8. QED  BY <1>1, <1>2, <1>3, <1>5, <1>6, <1>7 DEF StateTyped

LEMMA WritesAre ==
  ASSUME StateTyped, NEW c \in Copies, States!Record(c) \/ States!Amend(c)
  PROVE  \E on, over \in SUBSET held[c] : (\A x \in over : rev[x].on = on) /\ States!Write(c, on, over)
<1>1. CASE States!Record(c)
  BY <1>1 DEF States!Record, States!Childless
<1>2. CASE States!Amend(c)
  <2>1. PICK tip \in held[c] : States!Write(c, rev[tip].on, {tip})
    BY <1>2 DEF States!Amend, States!Childless
  <2>2. rev[tip].on \subseteq held[c]
    BY DEF StateTyped, Whole, States!Parents
  <2>3. QED  BY <2>1, <2>2
<1>3. QED  BY <1>1, <1>2

(* The kinds of step a statement's part takes.                               *)
Writes    == \E c \in Copies : States!Record(c) \/ States!Amend(c)
Copying   == \E c \in Copies : States!Copy(c) \/ States!Restore(c)
Ending    == \E p \in Procs : States!WriteRecord(p) \/ States!Stop(p)
Otherwise == (\E c \in Copies, w \in 1..MaxDays : States!Revoke(c, w)) \/ States!Tick \/ UNCHANGED States!vars

LEMMA StepsAre ==
  ASSUME [States!Next]_(States!vars)
  PROVE  \/ Writes
         \/ \E c \in Copies : States!Prune(c)
         \/ \E c, d \in Copies : States!Receive(c, d)
         \/ Copying
         \/ \E p \in Procs, c \in Copies : States!State(p, c)
         \/ \E p \in Procs : States!WriteStatement(p)
         \/ \E p \in Procs : States!WriteSignature(p)
         \/ \E p \in Procs, c \in Copies : States!Witness(p, c)
         \/ Ending
         \/ Otherwise
BY DEF States!Next, Writes, Copying, Ending, Otherwise

LEMMA StatingTyped ==
  ASSUME StateTyped, [States!Next]_(States!vars)
  PROVE  StateTyped' /\ Grows
<1>1. CASE Writes
  <2>1. PICK c \in Copies : States!Record(c) \/ States!Amend(c)
    BY <1>1 DEF Writes
  <2>2. PICK on, over \in SUBSET held[c] : (\A x \in over : rev[x].on = on) /\ States!Write(c, on, over)
    BY <2>1, WritesAre
  <2>3. QED  BY <2>2, TypedWrite
<1>2. CASE ~Writes
  <2>1. rev' = rev
    BY <1>2, StepsAre
       DEF States!Prune, States!Receive, Copying, States!Copy, States!Restore, States!State, States!WriteStatement,
           States!WriteSignature, States!Witness, Ending, States!WriteRecord, States!Stop, Otherwise,
           States!Revoke, States!Tick, States!vars
  <2>2. Grows
    BY <2>1, SameHistory DEF StateTyped
  <2>3. StateTyped'
    BY <1>2, StepsAre, TypedPrune, TypedReceive, TypedCopies, TypedState, TypedWriting, TypedWitness,
       TypedEnds, TypedRest DEF Copying, Ending, Otherwise
  <2>4. QED  BY <2>2, <2>3
<1>3. QED  BY <1>1, <1>2
-----------------------------------------------------------------------------
(* Which statements there are, after a step: what is stated is new by        *)
(* `state` only, and given by its signature only.                            *)
LEMMA GivenHas ==
  ASSUME StateTyped
  PROVE  /\ \A c \in Copies : /\ Ran(sig[c]) \subseteq Given /\ Ran(backup[c].sig) \subseteq Given
                              /\ seen[c] # States!None => seen[c] \in Given
                              /\ States!Stated(c) \subseteq Given
         /\ \A p \in Busy : job[p].does = "witness" => job[p].statement \in Given
<1>1. ASSUME NEW c \in Copies
      PROVE  /\ Ran(sig[c]) \subseteq Given /\ Ran(backup[c].sig) \subseteq Given
             /\ seen[c] # States!None => seen[c] \in Given
  <2>1. Ran(sig[c]) \subseteq Statements /\ Ran(backup[c].sig) \subseteq Statements
        /\ (seen[c] # States!None => seen[c] \in Statements)
    BY DEF StateTyped, Sheets, Ran
  <2>2. \A s \in Ran(sig[c]) \cup Ran(backup[c].sig) \cup {seen[c]} : Gave(s)
    BY DEF Gave
  <2>3. QED  BY <2>1, <2>2 DEF Given
<1>2. \A c \in Copies : States!Stated(c) \subseteq Given
  BY <1>1, StatedIs
<1>3. ASSUME NEW p \in Busy, job[p].does = "witness" PROVE job[p].statement \in Given
  <2>1. p \in Procs
    BY DEF Busy
  <2>2. job[p].statement \in Statements
    BY <2>1, JobShape
  <2>3. Gave(job[p].statement)
    BY <1>3 DEF Gave
  <2>4. QED  BY <2>2, <2>3 DEF Given
<1>4. QED  BY <1>1, <1>2, <1>3

LEMMA JobAfter ==
  ASSUME StateTyped, [States!Next]_(States!vars), NEW p \in Busy'
  PROVE  \/ p \in Busy /\ job'[p] = job[p]
         \/ \E c \in Copies :
              LET s == States!Statement(c) IN
              /\ States!State(p, c) /\ held[c] # {}
              /\ job'[p].at = "document" /\ job'[p].does = "state" /\ job'[p].in = c
              /\ job'[p].statement = s /\ job'[p].to = States!Stem(c, s)
         \/ /\ States!WriteStatement(p) /\ p \in Busy /\ job[p].does = "state"
            /\ job'[p].at = "signature" /\ job'[p].does = "state" /\ job'[p].in = job[p].in
            /\ job'[p].statement = job[p].statement /\ job'[p].to = job[p].to
         \/ \E c \in Copies : /\ States!Witness(p, c)
                              /\ job'[p].at = "record" /\ job'[p].does = "witness" /\ job'[p].in = c
                              /\ job'[p].statement \in States!Latest(c)
<1> DEFINE Goal == \/ p \in Busy /\ job'[p] = job[p]
                   \/ \E c \in Copies :
                        LET s == States!Statement(c) IN
                        /\ States!State(p, c) /\ held[c] # {}
                        /\ job'[p].at = "document" /\ job'[p].does = "state" /\ job'[p].in = c
                        /\ job'[p].statement = s /\ job'[p].to = States!Stem(c, s)
                   \/ /\ States!WriteStatement(p) /\ p \in Busy /\ job[p].does = "state"
                      /\ job'[p].at = "signature" /\ job'[p].does = "state" /\ job'[p].in = job[p].in
                      /\ job'[p].statement = job[p].statement /\ job'[p].to = job[p].to
                   \/ \E c \in Copies : /\ States!Witness(p, c)
                                        /\ job'[p].at = "record" /\ job'[p].does = "witness" /\ job'[p].in = c
                                        /\ job'[p].statement \in States!Latest(c)
<1>1. p \in Procs /\ job'[p] # States!Idle /\ DOMAIN job = Procs
  BY DEF Busy, StateTyped
<1>2. CASE job'[p] = job[p]
  BY <1>1, <1>2 DEF Busy
<1>3. ASSUME NEW q \in Procs, NEW c \in Copies, States!State(q, c), job'[p] # job[p] PROVE Goal
  <2> DEFINE s == States!Statement(c)  to == States!Stem(c, s)
  <2>1. job' = [job EXCEPT ![q] = States!Making("document", c, s, to)] /\ held[c] # {}
    BY <1>3 DEF States!State, States!Start
  <2>2. s \in Statements /\ to \in Stems
    BY <2>1, StatementIs
  <2> HIDE DEF s, to
  <2>3. p = q /\ job'[p] = States!Making("document", c, s, to)
    BY <1>1, <1>3, <2>1
  <2>4. /\ job'[p].at = "document" /\ job'[p].does = "state" /\ job'[p].in = c
        /\ job'[p].statement = s /\ job'[p].to = to
    BY <2>2, <2>3, JobsAre
  <2>5. QED  BY <1>3, <2>1, <2>3, <2>4 DEF s, to
<1>4. ASSUME NEW q \in Procs, States!WriteStatement(q), job'[p] # job[p] PROVE Goal
  <2>1. /\ job' = [job EXCEPT ![q] = States!Making("signature", job[q].in, job[q].statement, job[q].to)]
        /\ job[q].at = "document"
    BY <1>4 DEF States!WriteStatement
  <2>2. p = q
    BY <1>1, <1>4, <2>1
  <2>3. job[p] \in Makings /\ p \in Busy /\ job[p].does = "state" /\ job[p].in \in Copies
        /\ job[p].statement \in Statements /\ job[p].to \in Stems
    BY <2>1, <2>2, JobShape
  <2>4. job'[p] = States!Making("signature", job[p].in, job[p].statement, job[p].to)
    BY <1>1, <2>1, <2>2
  <2>5. /\ job'[p].at = "signature" /\ job'[p].does = "state" /\ job'[p].in = job[p].in
        /\ job'[p].statement = job[p].statement /\ job'[p].to = job[p].to
    BY <2>3, <2>4, JobsAre
  <2>6. QED  BY <1>4, <2>2, <2>3, <2>5
<1>5. ASSUME NEW q \in Procs, NEW c \in Copies, States!Witness(q, c), job'[p] # job[p] PROVE Goal
  <2>1. PICK s \in States!Latest(c) : States!Start(q, c, States!Witnessing(c, s))
    BY <1>5 DEF States!Witness
  <2>2. s \in Statements
    BY <2>1, StatedIs DEF States!Latest, States!CountsHere
  <2>3. job' = [job EXCEPT ![q] = States!Witnessing(c, s)]
    BY <2>1 DEF States!Start
  <2>4. p = q /\ job'[p] = States!Witnessing(c, s)
    BY <1>1, <1>5, <2>3
  <2>5. /\ job'[p].at = "record" /\ job'[p].does = "witness" /\ job'[p].in = c /\ job'[p].statement = s
    BY <2>2, <2>4, JobsAre
  <2>6. QED  BY <1>5, <2>4, <2>5
<1>6. ASSUME NEW q \in Procs, States!WriteSignature(q) \/ States!WriteRecord(q) \/ States!Stop(q)
      PROVE  Goal
  <2>1. job' = [job EXCEPT ![q] = States!Idle]
    BY <1>6 DEF States!WriteSignature, States!WriteRecord, States!Stop, States!Finish
  <2>2. QED  BY <1>1, <1>2, <2>1
<1>7. CASE job' = job
  BY <1>2, <1>7
<1>8. (\/ job' = job
       \/ \E q \in Procs, c \in Copies : States!State(q, c) \/ States!Witness(q, c)
       \/ \E q \in Procs : \/ States!WriteStatement(q) \/ States!WriteSignature(q) \/ States!WriteRecord(q)
                           \/ States!Stop(q))
  BY DEF States!Next, States!vars, States!Record, States!Amend, States!Write, States!Prune, States!Receive,
         States!Copy, States!Restore, States!Revoke, States!Tick
<1>9. Goal
  BY <1>2, <1>3, <1>4, <1>5, <1>6, <1>7, <1>8
<1>10. QED  BY <1>9

LEMMA ComingAfter ==
  ASSUME StateTyped, [States!Next]_(States!vars)
  PROVE  /\ \A s \in Coming' :
              s \in Coming \/ \E p \in Procs, c \in Copies :
                                States!State(p, c) /\ held[c] # {} /\ s = States!Statement(c)
         /\ \A b \in Copies : \A s \in MadeIn(b)' :
              s \in MadeIn(b) \/ \E p \in Procs : States!State(p, b) /\ held[b] # {} /\ s = States!Statement(b)
<1>1. ASSUME NEW p \in Busy', job'[p].does = "state"
      PROVE  /\ p \in Procs
             /\ \/ \E q \in Busy : job[q].does = "state" /\ job[q].in = job'[p].in /\ job[q].statement = job'[p].statement
                \/ \E c \in Copies : /\ States!State(p, c) /\ held[c] # {} /\ job'[p].in = c
                                     /\ job'[p].statement = States!Statement(c)
  BY <1>1, JobAfter DEF Busy
<1>2. ASSUME NEW s \in Coming'
      PROVE  s \in Coming \/ \E p \in Procs, c \in Copies :
                               States!State(p, c) /\ held[c] # {} /\ s = States!Statement(c)
  <2>1. PICK p \in Busy' : job'[p].does = "state" /\ job'[p].statement = s
    BY DEF Coming
  <2>2. QED  BY <1>1, <2>1 DEF Coming
<1>3. ASSUME NEW b \in Copies, NEW s \in MadeIn(b)'
      PROVE  s \in MadeIn(b) \/ \E p \in Procs : States!State(p, b) /\ held[b] # {} /\ s = States!Statement(b)
  <2>1. PICK p \in Busy' : job'[p].in = b /\ job'[p].does = "state" /\ job'[p].statement = s
    BY DEF MadeIn
  <2>2. QED  BY <1>1, <2>1 DEF MadeIn
<1>4. QED  BY <1>2, <1>3

(* Files after a step.                                                       *)
LEMMA FilesAfter ==
  ASSUME StateTyped, [States!Next]_(States!vars), NEW c \in Copies
  PROVE  /\ \/ doc'[c] = doc[c]
            \/ \E d \in Copies : States!Receive(c, d) /\ doc'[c] = States!Under(doc[c], doc[d])
            \/ \E p \in Procs : /\ States!WriteStatement(p) /\ job[p].in = c /\ job[p].to \notin DOMAIN doc[c]
                                /\ doc'[c] = States!With(doc[c], job[p].to, job[p].statement)
            \/ States!Restore(c) /\ doc'[c] = backup[c].doc
         /\ \/ sig'[c] = sig[c]
            \/ \E d \in Copies : States!Receive(c, d) /\ sig'[c] = States!Under(sig[c], sig[d])
            \/ \E p \in Procs : /\ States!WriteSignature(p) /\ job[p].in = c /\ job[p].to \notin DOMAIN sig[c]
                                /\ sig'[c] = States!With(sig[c], job[p].to, job[p].statement)
            \/ States!Restore(c) /\ sig'[c] = backup[c].sig
<1>1. DOMAIN doc = Copies /\ DOMAIN sig = Copies
  BY DEF StateTyped
<1>2. CASE \E b, d \in Copies : States!Receive(b, d)
  <2>1. PICK b, d \in Copies : States!Receive(b, d)
    BY <1>2
  <2>2. /\ doc' = [doc EXCEPT ![b] = States!Under(doc[b], doc[d])]
        /\ sig' = [sig EXCEPT ![b] = States!Under(sig[b], sig[d])]
    BY <2>1 DEF States!Receive
  <2>3. QED  BY <1>1, <2>1, <2>2
<1>3. CASE \E p \in Procs : States!WriteStatement(p)
  <2>1. PICK p \in Procs : States!WriteStatement(p)
    BY <1>3
  <2>2. sig' = sig /\ (\/ doc' = doc
                       \/ /\ job[p].to \notin DOMAIN doc[job[p].in]
                          /\ doc' = [doc EXCEPT ![job[p].in] = States!With(doc[job[p].in], job[p].to, job[p].statement)])
    BY <2>1 DEF States!WriteStatement
  <2>3. QED  BY <1>1, <2>1, <2>2
<1>4. CASE \E p \in Procs : States!WriteSignature(p)
  <2>1. PICK p \in Procs : States!WriteSignature(p)
    BY <1>4
  <2>2. doc' = doc /\ (\/ sig' = sig
                       \/ /\ job[p].to \notin DOMAIN sig[job[p].in]
                          /\ sig' = [sig EXCEPT ![job[p].in] = States!With(sig[job[p].in], job[p].to, job[p].statement)])
    BY <2>1 DEF States!WriteSignature
  <2>3. QED  BY <1>1, <2>1, <2>2
<1>5. CASE \E b \in Copies : States!Restore(b)
  <2>1. PICK b \in Copies : States!Restore(b)
    BY <1>5
  <2>2. doc' = [doc EXCEPT ![b] = backup[b].doc] /\ sig' = [sig EXCEPT ![b] = backup[b].sig]
    BY <2>1 DEF States!Restore
  <2>3. QED  BY <1>1, <2>1, <2>2
<1>6. CASE doc' = doc /\ sig' = sig
  BY <1>6
<1>7. (doc' = doc /\ sig' = sig) \/ (\E b, d \in Copies : States!Receive(b, d))
      \/ (\E p \in Procs : States!WriteStatement(p)) \/ (\E p \in Procs : States!WriteSignature(p))
      \/ \E b \in Copies : States!Restore(b)
  BY DEF States!Next, States!vars, States!Record, States!Amend, States!Write, States!Prune, States!Copy, States!claims,
         States!State, States!Witness, States!WriteRecord, States!Stop, States!Revoke, States!Tick
<1>8. QED  BY <1>2, <1>3, <1>4, <1>5, <1>6, <1>7

LEMMA SeenAfter ==
  ASSUME StateTyped, [States!Next]_(States!vars), NEW c \in Copies
  PROVE  \/ seen'[c] = seen[c] /\ (c \in back => c \in back')
         \/ \E p \in Procs : /\ States!WriteRecord(p) /\ job[p].in = c /\ job[p].at = "record" /\ p \in Busy
                             /\ job[p].does = "witness" /\ seen'[c] = job[p].statement
<1>1. DOMAIN seen = Copies
  BY DEF StateTyped
<1>2. CASE \E p \in Procs : States!WriteRecord(p)
  <2>1. PICK p \in Procs : States!WriteRecord(p)
    BY <1>2
  <2>2. /\ job[p].at = "record" /\ seen' = [seen EXCEPT ![job[p].in] = job[p].statement]
        /\ back' = back \ {job[p].in}
    BY <2>1 DEF States!WriteRecord
  <2>3. p \in Busy /\ job[p].does = "witness"
    BY <2>2, JobShape
  <2>4. QED  BY <1>1, <2>1, <2>2, <2>3
<1>3. CASE seen' = seen /\ back \subseteq back'
  BY <1>3
<1>4. (seen' = seen /\ back \subseteq back') \/ \E p \in Procs : States!WriteRecord(p)
  BY DEF States!Next, States!vars, States!Record, States!Amend, States!Write, States!Prune, States!Receive, States!Copy,
         States!Restore, States!history, States!State, States!WriteStatement, States!WriteSignature, States!Witness,
         States!Stop, States!Revoke, States!Tick
<1>5. QED  BY <1>2, <1>3, <1>4

LEMMA BackupAfter ==
  ASSUME StateTyped, [States!Next]_(States!vars), NEW c \in Copies
  PROVE  \/ backup'[c] = backup[c]
         \/ /\ States!Copy(c)
            /\ backup'[c].held = held[c] /\ backup'[c].doc = doc[c] /\ backup'[c].sig = sig[c]
            /\ backup'[c].top = backup[c].top
         \/ /\ States!Restore(c)
            /\ backup'[c].held = backup[c].held /\ backup'[c].doc = backup[c].doc /\ backup'[c].sig = backup[c].sig
            /\ backup'[c].top = States!Highmost(States!Stated(c) \cup {backup[c].top})
<1>1. DOMAIN backup = Copies
  BY DEF StateTyped
<1>2. CASE \E b \in Copies : States!Copy(b)
  <2>1. PICK b \in Copies : States!Copy(b)
    BY <1>2
  <2>2. backup' = [backup EXCEPT ![b] =
                     [held |-> held[b], doc |-> doc[b], sig |-> sig[b], top |-> backup[b].top]]
    BY <2>1 DEF States!Copy
  <2>3. QED  BY <1>1, <2>1, <2>2
<1>3. CASE \E b \in Copies : States!Restore(b)
  <2>1. PICK b \in Copies : States!Restore(b)
    BY <1>3
  <2> DEFINE t == States!Highmost(States!Stated(b) \cup {backup[b].top})
  <2>2. backup' = [backup EXCEPT ![b] =
                     [held |-> backup[b].held, doc |-> backup[b].doc, sig |-> backup[b].sig, top |-> t]]
    BY <2>1 DEF States!Restore
  <2>3. QED  BY <1>1, <2>1, <2>2
<1>4. CASE backup' = backup
  BY <1>4
<1>5. backup' = backup \/ (\E b \in Copies : States!Copy(b)) \/ \E b \in Copies : States!Restore(b)
  BY DEF States!Next, States!vars, States!Record, States!Amend, States!Write, States!Prune, States!Receive,
         States!State, States!WriteStatement, States!WriteSignature, States!Witness, States!WriteRecord,
         States!Stop, States!Revoke, States!Tick
<1>6. QED  BY <1>2, <1>3, <1>4, <1>5

LEMMA HeldAfter ==
  ASSUME StateTyped, [States!Next]_(States!vars), NEW c \in Copies
  PROVE  \/ held[c] \subseteq held'[c] /\ \A d \in Copies : States!Receive(c, d) => held[d] \subseteq held'[c]
         \/ States!Prune(c) /\ held'[c] = States!Kept(held[c])
         \/ States!Restore(c) /\ held'[c] = backup[c].held
<1>1. DOMAIN held = Copies
  BY DEF StateTyped
<1>2. ASSUME NEW d \in Copies, States!Receive(c, d) PROVE held'[c] = held[c] \cup held[d]
  BY <1>1, <1>2 DEF States!Receive
<1>3. CASE Writes
  <2>1. PICK b \in Copies : States!Record(b) \/ States!Amend(b)
    BY <1>3 DEF Writes
  <2>2. PICK on, over \in SUBSET held[b] : States!Write(b, on, over)
    BY <2>1, WritesAre
  <2>3. held[c] \subseteq held'[c]
    BY <1>1, <2>2 DEF States!Write
  <2>4. QED  BY <1>2, <2>3
<1>4. CASE \E b \in Copies : States!Prune(b)
  <2>1. PICK b \in Copies : States!Prune(b)
    BY <1>4
  <2>2. held' = [held EXCEPT ![b] = States!Kept(held[b])]
    BY <2>1 DEF States!Prune
  <2>3. QED  BY <1>1, <1>2, <2>1, <2>2
<1>5. CASE \E b \in Copies : States!Restore(b)
  <2>1. PICK b \in Copies : States!Restore(b)
    BY <1>5
  <2>2. held' = [held EXCEPT ![b] = backup[b].held]
    BY <2>1 DEF States!Restore
  <2>3. QED  BY <1>1, <1>2, <2>1, <2>2
<1>6. CASE \E b, d \in Copies : States!Receive(b, d)
  <2>1. PICK b, d \in Copies : States!Receive(b, d)
    BY <1>6
  <2>2. held' = [held EXCEPT ![b] = held[b] \cup held[d]]
    BY <2>1 DEF States!Receive
  <2>3. held[c] \subseteq held'[c]
    BY <1>1, <2>2
  <2>4. QED  BY <1>2, <2>3
<1>7. CASE held' = held
  BY <1>2, <1>7
<1>8. \/ held' = held \/ Writes \/ (\E b \in Copies : States!Prune(b)) \/ (\E b \in Copies : States!Restore(b))
      \/ \E b, d \in Copies : States!Receive(b, d)
  BY DEF States!Next, States!vars, Writes, States!Copy, States!State, States!WriteStatement, States!WriteSignature,
         States!Witness, States!WriteRecord, States!Stop, States!Revoke, States!Tick
<1>9. QED  BY <1>3, <1>4, <1>5, <1>6, <1>7, <1>8

(* Nothing runs in a copy that is put back or copied away.                   *)
LEMMA NoneWithin ==
  ASSUME StateTyped, NEW c \in Copies, States!Within(c) = {}
  PROVE  MadeIn(c) = {} /\ \A p \in Busy : job[p].in # c
BY DEF States!Within, MadeIn, Busy

(* What is given after a step was given, or is signed in it.                 *)
LEMMA GivenAfter ==
  ASSUME StateTyped, [States!Next]_(States!vars), NEW s \in Given'
  PROVE  s \in Given \/ \E p \in Busy : /\ States!WriteSignature(p) /\ job[p].at = "signature"
                                        /\ job[p].does = "state" /\ s = job[p].statement
                                        /\ sig'[job[p].in] = States!With(sig[job[p].in], job[p].to, s)
<1> DEFINE New == \E p \in Busy : /\ States!WriteSignature(p) /\ job[p].at = "signature"
                                  /\ job[p].does = "state" /\ s = job[p].statement
                                  /\ sig'[job[p].in] = States!With(sig[job[p].in], job[p].to, s)
<1>1. ASSUME NEW c \in Copies, s \in Ran(sig'[c]) PROVE s \in Given \/ New
  <2>1. CASE sig'[c] = sig[c]
    BY <1>1, <2>1, GivenHas
  <2>2. CASE \E d \in Copies : States!Receive(c, d) /\ sig'[c] = States!Under(sig[c], sig[d])
    <3>1. PICK d \in Copies : sig'[c] = States!Under(sig[c], sig[d])
      BY <2>2
    <3>2. Sheets(sig[c]) /\ Sheets(sig[d])
      BY DEF StateTyped
    <3>3. s \in Ran(sig[c]) \cup Ran(sig[d])
      BY <1>1, <3>1, <3>2, SheetsUnder
    <3>4. QED  BY <3>3, GivenHas
  <2>3. CASE \E p \in Procs : /\ States!WriteSignature(p) /\ job[p].in = c /\ job[p].to \notin DOMAIN sig[c]
                              /\ sig'[c] = States!With(sig[c], job[p].to, job[p].statement)
    <3>1. PICK p \in Procs : /\ States!WriteSignature(p) /\ job[p].in = c /\ job[p].to \notin DOMAIN sig[c]
                             /\ sig'[c] = States!With(sig[c], job[p].to, job[p].statement)
      BY <2>3
    <3>2. job[p].at = "signature"
      BY <3>1 DEF States!WriteSignature
    <3>3. p \in Busy /\ job[p].statement \in Statements /\ job[p].does = "state"
      BY <3>2, JobShape
    <3>4. Sheets(sig[c])
      BY DEF StateTyped
    <3>5. s \in Ran(States!With(sig[c], job[p].to, job[p].statement)) /\ job[p].to \notin DOMAIN sig[c]
      BY <1>1, <3>1
    <3>6. s \in Ran(sig[c]) \cup {job[p].statement}
      BY <3>3, <3>4, <3>5, RanWith
    <3>7. QED  BY <3>1, <3>2, <3>3, <3>6, GivenHas
  <2>4. CASE States!Restore(c) /\ sig'[c] = backup[c].sig
    BY <1>1, <2>4, GivenHas
  <2>5. QED  BY <2>1, <2>2, <2>3, <2>4, FilesAfter
<1>2. ASSUME NEW c \in Copies, s \in Ran(backup'[c].sig) PROVE s \in Given
  BY <1>2, BackupAfter, GivenHas
<1>3. ASSUME NEW c \in Copies, s = seen'[c] PROVE s \in Given
  <2>1. s # States!None
    BY StatementShape DEF Given
  <2>2. QED  BY <1>3, <2>1, SeenAfter, GivenHas
<1>4. ASSUME NEW p \in Busy', job'[p].does = "witness", job'[p].statement = s PROVE s \in Given
  <2>1. CASE p \in Busy /\ job'[p] = job[p]
    BY <1>4, <2>1, GivenHas
  <2>2. CASE \E c \in Copies : States!Witness(p, c) /\ job'[p].statement \in States!Latest(c)
    BY <1>4, <2>2, GivenHas DEF States!Latest, States!CountsHere
  <2>3. QED  BY <1>4, <2>1, <2>2, JobAfter
<1>5. Gave(s)'
  BY DEF Given
<1>6. \/ \E c \in Copies : s \in Ran(sig'[c]) \/ s \in Ran(backup'[c].sig) \/ s = seen'[c]
      \/ \E p \in Busy' : job'[p].does = "witness" /\ job'[p].statement = s
  <2>1. \/ \E c \in Copies : s \in Ran(sig[c])' \cup Ran(backup[c].sig)' \cup {seen'[c]}
        \/ \E p \in Busy' : job'[p].does = "witness" /\ job'[p].statement = s
    BY <1>5 DEF Gave
  <2>2. QED  BY <2>1 DEF Ran
<1>7. QED  BY <1>1, <1>2, <1>3, <1>4, <1>6
-----------------------------------------------------------------------------
(* What a copy states it covers, whatever it records, takes in, prunes, or   *)
(* is put back to.                                                           *)
LEMMA CoversAfter ==
  ASSUME StateTyped, [States!Next]_(States!vars), NEW K, K \subseteq Revisions, NEW s, Covers(K, s), NEW L,
         K \subseteq L \/ L = States!Kept(K)
  PROVE  /\ s.heads # {} /\ s.heads \subseteq Revisions'
         /\ \A h \in s.heads : States!Became(h)' \cap L # {}
<1>1. Historic /\ Historic' /\ Grows
  BY StatingTyped DEF StateTyped
<1>2. Covers(L, s)
  <2>1. CASE K \subseteq L
    BY <2>1 DEF Covers
  <2>2. CASE L = States!Kept(K)
    BY <1>1, <2>2, KeptCovers DEF Covers, Known
  <2>3. QED  BY <2>1, <2>2
<1>3. QED  BY <1>1, <1>2, GrownCovers

LEMMA CoversNow ==
  ASSUME Historic, NEW K, K \subseteq Revisions, NEW s, s.heads # {}, s.heads \subseteq K
  PROVE  Covers(K, s)
BY BecameSelf DEF Covers, Known

LEMMA CoveredAfter ==
  ASSUME StateTyped, Covered, [States!Next]_(States!vars)
  PROVE  Covered'
<1>1. Historic /\ \A c \in Copies : held[c] \subseteq Revisions /\ backup[c].held \subseteq Revisions
  BY DEF StateTyped, Whole
<1> DEFINE Good(L, s) == /\ s.heads # {} /\ s.heads \subseteq Revisions'
                         /\ \A h \in s.heads : States!Became(h)' \cap L # {}
<1>2. ASSUME NEW K, K \subseteq Revisions, NEW s, Covers(K, s) PROVE \A L : K \subseteq L \/ L = States!Kept(K) => Good(L, s)
  BY <1>2, CoversAfter
<1> HIDE DEF Good
<1>3. ASSUME NEW c \in Copies, NEW s \in Ran(doc'[c]) \cup MadeIn(c)' PROVE Good(held'[c], s)
  <2>1. ASSUME NEW t \in Ran(doc[c]) \cup MadeIn(c), ~States!Restore(c) PROVE Good(held'[c], t)
    <3>1. Covers(held[c], t)
      BY DEF Covered
    <3>2. held[c] \subseteq held'[c] \/ held'[c] = States!Kept(held[c])
      BY <2>1, HeldAfter
    <3>3. QED  BY <1>1, <1>2, <3>1, <3>2
  <2>2. ASSUME States!Restore(c) PROVE Good(held'[c], s)
    <3>1. held'[c] = backup[c].held /\ doc'[c] = backup[c].doc /\ job' = job /\ States!Within(c) = {}
      BY <2>2 DEF States!Restore, StateTyped
    <3>2. MadeIn(c)' = {}
      BY <3>1, NoneWithin DEF MadeIn, Busy
    <3>3. Covers(backup[c].held, s)
      BY <3>1, <3>2 DEF Covered
    <3>4. QED  BY <1>1, <1>2, <3>1, <3>3
  <2>3. ASSUME NEW d \in Copies, States!Receive(c, d), doc'[c] = States!Under(doc[c], doc[d]), s \in Ran(doc'[c])
        PROVE  Good(held'[c], s)
    <3>1. s \in Ran(doc[c]) \cup Ran(doc[d])
      BY <2>3, SheetsUnder DEF StateTyped
    <3>2. held'[c] = held[c] \cup held[d]
      BY <2>3 DEF States!Receive, StateTyped
    <3>3. Covers(held[c], s) \/ Covers(held[d], s)
      BY <3>1 DEF Covered
    <3>4. held[c] \subseteq held'[c] /\ held[d] \subseteq held'[c]
      BY <3>2
    <3>5. QED  BY <1>1, <1>2, <3>3, <3>4
  <2>4. ASSUME NEW p \in Procs, States!WriteStatement(p), job[p].in = c, job[p].to \notin DOMAIN doc[c],
               doc'[c] = States!With(doc[c], job[p].to, job[p].statement), s \in Ran(doc'[c])
        PROVE  s \in Ran(doc[c]) \cup MadeIn(c)
    <3>1. job[p] \in Makings
      BY <2>4, JobShape DEF States!WriteStatement
    <3>2. job[p].statement \in Statements /\ p \in Busy /\ job[p].does = "state"
      BY <3>1, JobShape
    <3>3. Sheets(doc[c])
      BY DEF StateTyped
    <3>4. s \in Ran(doc[c]) \cup {job[p].statement}
      BY <2>4, <3>2, <3>3, RanWith
    <3>5. job[p].statement \in MadeIn(c)
      BY <2>4, <3>2 DEF MadeIn
    <3>6. QED  BY <2>4, <3>4, <3>5
  <2>5. ASSUME NEW p \in Procs, States!State(p, c), held[c] # {}, s = States!Statement(c) PROVE Good(held'[c], s)
    <3>1. held' = held
      BY <2>5 DEF States!State
    <3>2. Covers(held[c], s)
      BY <1>1, <2>5, StatementIs, CoversNow
    <3>3. QED  BY <1>1, <1>2, <3>1, <3>2
  <2>6. CASE s \in MadeIn(c)'
    BY <2>1, <2>2, <2>5, <2>6, ComingAfter
  <2>7. CASE s \in Ran(doc'[c])
    BY <2>1, <2>2, <2>3, <2>4, <2>7, FilesAfter
  <2>8. QED  BY <2>6, <2>7
<1>4. ASSUME NEW c \in Copies, NEW s \in Ran(backup'[c].doc) PROVE Good(backup'[c].held, s)
  <2>1. \/ backup'[c].held = backup[c].held /\ backup'[c].doc = backup[c].doc
        \/ backup'[c].held = held[c] /\ backup'[c].doc = doc[c]
    BY BackupAfter
  <2>2. Covers(backup'[c].held, s) /\ backup'[c].held \subseteq Revisions
    BY <1>1, <2>1 DEF Covered
  <2>3. QED  BY <1>2, <2>2
<1>5. \A c \in Copies : /\ \A s \in Ran(doc[c])' \cup MadeIn(c)' : Good(held'[c], s)
                        /\ \A s \in Ran(backup[c].doc)' : Good(backup'[c].held, s)
  BY <1>3, <1>4 DEF Ran
<1>6. QED  BY <1>5 DEF Covered, Covers, Known, Good
-----------------------------------------------------------------------------
(* What a copy can show it goes on showing, until it is put back.            *)
LEMMA StatedStays ==
  ASSUME StateTyped, [States!Next]_(States!vars), NEW c \in Copies, ~States!Restore(c), NEW s \in States!Stated(c)
  PROVE  s \in States!Stated(c)'
<1>1. PICK n \in DOMAIN doc[c] : n \in DOMAIN sig[c] /\ sig[c][n] = doc[c][n] /\ s = doc[c][n]
  BY DEF States!Stated, States!Verified
<1>2. Sheets(doc[c]) /\ Sheets(sig[c])
  BY DEF StateTyped
<1>3. ASSUME NEW d \in Copies PROVE Sheets(doc[d]) /\ Sheets(sig[d])
  BY DEF StateTyped
<1>4. ASSUME NEW p \in Procs, States!WriteStatement(p) \/ States!WriteSignature(p) PROVE job[p].statement \in Statements
  <2>1. job[p].at \in {"document", "signature"}
    BY <1>4 DEF States!WriteStatement, States!WriteSignature
  <2>2. QED  BY <2>1, JobShape
<1>5. n \in DOMAIN doc'[c] /\ doc'[c][n] = s
  <2>1. CASE doc'[c] = doc[c]
    BY <1>1, <2>1
  <2>2. ASSUME NEW d \in Copies, doc'[c] = States!Under(doc[c], doc[d]) PROVE n \in DOMAIN doc'[c] /\ doc'[c][n] = s
    BY <1>1, <2>2 DEF States!Under
  <2>3. ASSUME NEW p \in Procs, job[p].to \notin DOMAIN doc[c],
               doc'[c] = States!With(doc[c], job[p].to, job[p].statement)
        PROVE  n \in DOMAIN doc'[c] /\ doc'[c][n] = s
    BY <1>1, <2>3 DEF States!With
  <2>4. QED  BY <2>1, <2>2, <2>3, FilesAfter
<1>6. n \in DOMAIN sig'[c] /\ sig'[c][n] = s
  <2>1. CASE sig'[c] = sig[c]
    BY <1>1, <2>1
  <2>2. ASSUME NEW d \in Copies, sig'[c] = States!Under(sig[c], sig[d]) PROVE n \in DOMAIN sig'[c] /\ sig'[c][n] = s
    BY <1>1, <2>2 DEF States!Under
  <2>3. ASSUME NEW p \in Procs, job[p].to \notin DOMAIN sig[c],
               sig'[c] = States!With(sig[c], job[p].to, job[p].statement)
        PROVE  n \in DOMAIN sig'[c] /\ sig'[c][n] = s
    BY <1>1, <2>3 DEF States!With
  <2>4. QED  BY <2>1, <2>2, <2>3, FilesAfter
<1>7. QED  BY <1>5, <1>6 DEF States!Stated, States!Verified

LEMMA LatestIs ==
  ASSUME NEW c
  PROVE  States!Latest(c) \subseteq States!CountsHere(c) /\ States!CountsHere(c) \subseteq States!Stated(c)
BY DEF States!Latest, States!CountsHere

LEMMA ShownAfter ==
  ASSUME StateTyped, Shown, [States!Next]_(States!vars)
  PROVE  Shown'
<1>1. ASSUME NEW c \in Copies, seen'[c] # States!None, c \notin back' PROVE seen'[c] \in States!Stated(c)'
  <2>1. CASE States!Restore(c)
    BY <1>1, <2>1 DEF States!Restore
  <2>2. CASE ~States!Restore(c)
    <3>1. seen'[c] \in States!Stated(c)
      BY <1>1, SeenAfter DEF Shown
    <3>2. QED  BY <2>2, <3>1, StatedStays
  <2>3. QED  BY <2>1, <2>2
<1>2. ASSUME NEW p \in Busy', job'[p].does = "witness"
      PROVE  \E c \in Copies : job'[p].in = c /\ job'[p].statement \in States!Stated(c)'
  <2>1. ASSUME p \in Busy, job'[p] = job[p]
        PROVE  \E c \in Copies : job'[p].in = c /\ job'[p].statement \in States!Stated(c)'
    <3>1. p \in Procs
      BY <2>1 DEF Busy
    <3>2. PICK c \in Copies : job[p].in = c /\ job[p].statement \in States!Stated(c)
      BY <1>2, <2>1, <3>1, JobShape DEF Shown
    <3>3. ~States!Restore(c)
      BY <2>1, <3>2, NoneWithin DEF States!Restore
    <3>4. QED  BY <2>1, <3>2, <3>3, StatedStays
  <2>2. ASSUME NEW c \in Copies, States!Witness(p, c), job'[p].in = c, job'[p].statement \in States!Latest(c)
        PROVE  job'[p].statement \in States!Stated(c)'
    <3>1. ~States!Restore(c)
      <4>1. back' = back /\ States!Within(c)' # {}
        <5>1. p \in Procs /\ job'[p] # States!Idle
          BY DEF Busy
        <5>2. back' = back
          BY <2>2 DEF States!Witness
        <5>3. QED  BY <2>2, <5>1, <5>2 DEF States!Within
      <4>2. States!Restore(c) => job' = job /\ States!Within(c) = {}
        BY DEF States!Restore
      <4>3. QED  BY <4>1, <4>2 DEF States!Within
    <3>2. QED  BY <2>2, <3>1, LatestIs, StatedStays
  <2>3. QED  BY <1>2, <2>1, <2>2, JobAfter
<1>3. QED
  <2>1. \A p \in Busy' : job'[p].does = "witness" => \E c \in Copies : job'[p].in = c /\ job'[p].statement \in States!Stated(c)'
    BY <1>2
  <2>2. \A p \in Busy' : (job[p].does = "witness" => job[p].statement \in States!Stated(job[p].in))'
    BY <2>1 DEF States!Stated, States!Verified
  <2>3. QED  BY <1>1, <2>2 DEF Shown
-----------------------------------------------------------------------------
(* Where commands have not crossed, each has its copy to itself.             *)
LEMMA CrossedStays ==
  ASSUME StateTyped, [States!Next]_(States!vars), crossed
  PROVE  crossed'
BY DEF States!Next, States!vars, States!Record, States!Amend, States!Write, States!Prune, States!Cross, States!Receive,
       States!Copy, States!Restore, States!history, States!State, States!Start, States!WriteStatement,
       States!WriteSignature, States!Witness, States!WriteRecord, States!Stop, States!Revoke, States!Tick

LEMMA BegunAlone ==
  ASSUME StateTyped, NEW p \in Procs, NEW c \in Copies, States!State(p, c) \/ States!Witness(p, c), ~crossed'
  PROVE  /\ \A q \in Busy : job[q].in # c
         /\ \A q \in Procs : q # p => job'[q] = job[q]
         /\ doc' = doc /\ seen' = seen
<1>1. PICK begun : States!Start(p, c, begun)
  BY DEF States!State, States!Witness
<1>2. States!Within(c) = {}
  BY <1>1 DEF States!Start, States!Cross
<1>3. job' = [job EXCEPT ![p] = begun]
  BY <1>1 DEF States!Start
<1>4. doc' = doc /\ seen' = seen
  BY DEF States!State, States!Witness, States!claims
<1>5. \A q \in Procs : q # p => job'[q] = job[q]
  BY <1>3 DEF StateTyped
<1>6. QED  BY <1>2, <1>4, <1>5, NoneWithin

LEMMA LeftAlone ==
  ASSUME StateTyped, Alone, [States!Next]_(States!vars), ~crossed',
         NEW p \in Busy, p \in Busy', job'[p] = job[p], NEW c \in Copies, job[p].in = c
  PROVE  doc'[c] = doc[c] /\ seen'[c] = seen[c]
<1>1. p \in Procs /\ p \in States!Within(c) /\ job'[p] # States!Idle
  BY DEF Busy, States!Within
<1>2. ASSUME NEW q \in Procs, job[q].in = c, job[q].at \in {"document", "signature", "record"} PROVE q = p
  BY <1>2, JobShape DEF Alone
<1>3. doc'[c] = doc[c]
  <2>1. ASSUME NEW d \in Copies, States!Receive(c, d) PROVE FALSE
    BY <1>1, <2>1 DEF States!Receive
  <2>2. ASSUME NEW q \in Procs, States!WriteStatement(q), job[q].in = c PROVE FALSE
    <3>1. job[q].at = "document" /\ job' = [job EXCEPT ![q] = States!Making("signature", job[q].in, job[q].statement, job[q].to)]
      BY <2>2 DEF States!WriteStatement
    <3>2. q = p
      BY <1>2, <2>2, <3>1
    <3>3. job[q].statement \in Statements /\ job[q].to \in Stems
      BY <3>1, JobShape
    <3>4. job'[p].at = "signature"
      BY <1>1, <2>2, <3>1, <3>2, <3>3, JobsAre DEF StateTyped
    <3>5. QED  BY <3>1, <3>2, <3>4
  <2>3. ~States!Restore(c)
    BY <1>1 DEF States!Restore
  <2>4. QED  BY <2>1, <2>2, <2>3, FilesAfter
<1>4. seen'[c] = seen[c]
  <2>1. ASSUME NEW q \in Procs, States!WriteRecord(q), job[q].in = c PROVE FALSE
    <3>1. job[q].at = "record" /\ job' = [job EXCEPT ![q] = States!Idle]
      BY <2>1 DEF States!WriteRecord, States!Finish
    <3>2. q = p
      BY <1>2, <2>1, <3>1
    <3>3. QED  BY <1>1, <3>1, <3>2 DEF StateTyped
  <2>2. QED  BY <2>1, SeenAfter
<1>5. QED  BY <1>3, <1>4

LEMMA AloneAfter ==
  ASSUME StateTyped, ~crossed => Alone, [States!Next]_(States!vars), ~crossed'
  PROVE  Alone'
<1>1. Alone /\ ~crossed
  BY CrossedStays
<1>2. ASSUME NEW p \in Busy'
      PROVE  /\ p \in Procs
             /\ \/ p \in Busy /\ job'[p].in = job[p].in
                \/ \E c \in Copies : /\ States!State(p, c) \/ States!Witness(p, c)
                                     /\ job'[p].in = c
  BY JobAfter DEF Busy
<1>3. ASSUME NEW p \in Busy', NEW q \in Busy', job'[p].in = job'[q].in, p # q PROVE FALSE
  <2>1. p \in Procs /\ q \in Procs
    BY <1>2
  <2>2. ASSUME NEW c \in Copies, States!State(p, c) \/ States!Witness(p, c), job'[p].in = c PROVE FALSE
    <3>1. job'[q] = job[q] /\ q \in Busy /\ job[q].in # c
      BY <1>3, <2>1, <2>2, BegunAlone DEF Busy
    <3>2. QED  BY <1>3, <2>2, <3>1
  <2>3. ASSUME NEW c \in Copies, States!State(q, c) \/ States!Witness(q, c), job'[q].in = c PROVE FALSE
    <3>1. job'[p] = job[p] /\ p \in Busy /\ job[p].in # c
      BY <1>3, <2>1, <2>3, BegunAlone DEF Busy
    <3>2. QED  BY <1>3, <2>3, <3>1
  <2>4. CASE p \in Busy /\ q \in Busy /\ job[p].in = job[q].in
    BY <1>1, <1>3, <2>4 DEF Alone
  <2>5. QED  BY <1>2, <1>3, <2>2, <2>3, <2>4
<1> DEFINE Good(j, c) == /\ j.at = "record" => j.statement.counter > seen'[c].counter
                         /\ j.at = "document" /\ j.to \in DOMAIN doc'[c] => doc'[c][j.to] = j.statement
                         /\ j.at = "signature" => j.to \in DOMAIN doc'[c] /\ doc'[c][j.to] = j.statement
<1>4. ASSUME NEW p \in Busy' PROVE Good(job'[p], job'[p].in)
  <2>1. ASSUME p \in Busy, job'[p] = job[p] PROVE Good(job'[p], job'[p].in)
    <3>1. p \in Procs
      BY <1>2
    <3>2. job[p].in \in Copies
      BY <2>1, <3>1, JobShape
    <3>3. doc'[job[p].in] = doc[job[p].in] /\ seen'[job[p].in] = seen[job[p].in]
      BY <1>1, <2>1, <3>2, LeftAlone
    <3>4. QED  BY <1>1, <2>1, <3>3 DEF Alone
  <2>2. ASSUME NEW c \in Copies, States!State(p, c), held[c] # {}, job'[p].at = "document", job'[p].in = c,
               job'[p].statement = States!Statement(c), job'[p].to = States!Stem(c, States!Statement(c))
        PROVE  Good(job'[p], job'[p].in)
    <3>1. doc' = doc
      BY <2>2 DEF States!State, States!claims
    <3>2. QED  BY <2>2, <3>1, StatementIs
  <2>3. ASSUME States!WriteStatement(p), p \in Busy, job'[p].at = "signature", job'[p].in = job[p].in,
               job'[p].statement = job[p].statement, job'[p].to = job[p].to
        PROVE  Good(job'[p], job'[p].in)
    <3> DEFINE j == job[p]  c == j.in
    <3>1. p \in Procs /\ j.at = "document"
      BY <1>2, <2>3 DEF States!WriteStatement
    <3>2. c \in Copies
      BY <3>1, JobShape
    <3>3. doc' = IF j.to \in DOMAIN doc[c] THEN doc ELSE [doc EXCEPT ![c] = States!With(doc[c], j.to, j.statement)]
      BY <2>3 DEF States!WriteStatement
    <3>4. j.to \in DOMAIN doc[c] => doc[c][j.to] = j.statement
      BY <1>1, <2>3, <3>1 DEF Alone
    <3>5. j.to \notin DOMAIN doc[c] => j.to \in DOMAIN States!With(doc[c], j.to, j.statement)
                                       /\ States!With(doc[c], j.to, j.statement)[j.to] = j.statement
      BY DEF States!With
    <3>6. DOMAIN doc = Copies
      BY DEF StateTyped
    <3> HIDE DEF c
    <3>7. j.to \in DOMAIN doc'[c] /\ doc'[c][j.to] = j.statement
      BY <3>2, <3>3, <3>4, <3>5, <3>6
    <3>8. QED  BY <2>3, <3>7 DEF c
  <2>4. ASSUME NEW c \in Copies, States!Witness(p, c), job'[p].at = "record", job'[p].in = c,
               job'[p].statement \in States!Latest(c)
        PROVE  Good(job'[p], job'[p].in)
    <3>1. seen' = seen /\ States!Top(c) > seen[c].counter
      BY <2>4 DEF States!Witness, States!Raises
    <3>2. job'[p].statement.counter = States!Top(c)
      BY <2>4 DEF States!Latest
    <3>3. QED  BY <2>4, <3>1, <3>2
  <2>5. QED  BY <2>1, <2>2, <2>3, <2>4, JobAfter
<1>5. \A p \in Busy' : LET j == job'[p] IN Good(j, j.in)
  BY <1>4
<1>6. QED  BY <1>3, <1>5 DEF Alone
-----------------------------------------------------------------------------
(* What is stated next is above all there is, unless blindly; and what is    *)
(* given, some copy can show, or showed before it was put back.              *)
LEMMA TopOf ==
  ASSUME StateTyped, NEW c \in Copies
  PROVE  /\ States!Top(c) \in Nat /\ \A s \in States!CountsHere(c) : s.counter <= States!Top(c)
         /\ States!Top(c) = 0 \/ \E s \in States!CountsHere(c) : s.counter = States!Top(c)
<1> DEFINE A == {0} \cup {s.counter : s \in States!CountsHere(c)}
<1>1. States!CountsHere(c) \subseteq States!Stated(c)
  BY LatestIs
<1>2. PICK b \in Nat : \A s \in States!Stated(c) : s.counter <= b
  BY StatedIs
<1>3. \A s \in States!Stated(c) : s.counter \in Nat
  BY StatedIs, StatementShape
<1>4. A \subseteq Nat /\ A # {} /\ \A n \in A : n <= b
  BY <1>1, <1>2, <1>3
<1>5. \A s \in States!CountsHere(c) : s.counter \in A
  OBVIOUS
<1>6. States!Top(c) = States!Max(A)
  BY DEF States!Top
<1> HIDE DEF A
<1>7. States!Max(A) \in A /\ \A n \in A : n <= States!Max(A)
  BY <1>4, MaxIs
<1>8. \A s \in States!CountsHere(c) : s.counter <= States!Top(c)
  BY <1>5, <1>6, <1>7
<1>9. States!Top(c) \in A
  BY <1>6, <1>7
<1>10. QED  BY <1>4, <1>8, <1>9 DEF A

LEMMA NewsAre ==
  ASSUME StateTyped, [States!Next]_(States!vars), NEW s \in Given' \cup Coming'
  PROVE  s \in Given \cup Coming \/ \E p \in Procs, c \in Copies :
                                      States!State(p, c) /\ held[c] # {} /\ s = States!Statement(c)
<1>1. CASE s \in Given'
  <2>1. ASSUME NEW p \in Busy, job[p].does = "state", s = job[p].statement PROVE s \in Coming
    BY <2>1 DEF Coming
  <2>2. QED  BY <1>1, <2>1, GivenAfter
<1>2. CASE s \in Coming'
  BY <1>2, ComingAfter
<1>3. QED  BY <1>1, <1>2

LEMMA CommonIs ==
  ASSUME StateTyped
  PROVE  Given \cup Coming \subseteq Statements
<1>1. Given \subseteq Statements
  BY DEF Given
<1>2. ASSUME NEW p \in Busy, job[p].does = "state" PROVE job[p].statement \in Statements
  <2>1. p \in Procs
    BY DEF Busy
  <2>2. QED  BY <1>2, <2>1, JobShape
<1>3. QED  BY <1>1, <1>2 DEF Coming

LEMMA KnownAfter ==
  ASSUME StateTyped, \A s \in Given \cup Coming : Known(s), [States!Next]_(States!vars)
  PROVE  (\A s \in Given \cup Coming : Known(s))'
<1>1. Historic /\ Historic' /\ Grows
  BY StatingTyped DEF StateTyped
<1>2. ASSUME NEW s \in Given' \cup Coming' PROVE Known(s)
  BY <1>2, NewsAre, StatementIs
<1>3. ASSUME NEW s \in Given' \cup Coming' PROVE s.heads # {} /\ s.heads \subseteq Revisions'
  BY <1>1, <1>2, GrownRevisions DEF Known
<1>4. QED  BY <1>3 DEF Known

LEMMA OneBegins ==
  ASSUME StateTyped, NEW p \in Procs, NEW c \in Copies, States!State(p, c),
         NEW q \in Procs, NEW d \in Copies, States!State(q, d), held[c] # {}, held[d] # {}
  PROVE  c = d
<1> DEFINE s == States!Statement(c)  to == States!Stem(c, s)  t == States!Statement(d)  via == States!Stem(d, t)
<1>1. s \in Statements /\ to \in Stems /\ t \in Statements /\ via \in Stems
  BY StatementIs
<1>2. /\ job' = [job EXCEPT ![p] = States!Making("document", c, s, to)]
      /\ job' = [job EXCEPT ![q] = States!Making("document", d, t, via)]
      /\ job[q] = States!Idle
  BY DEF States!State, States!Start
<1> HIDE DEF s, to, t, via
<1>3. /\ States!Making("document", c, s, to).in = c /\ States!Making("document", d, t, via).in = d
      /\ States!Making("document", d, t, via).at = "document" /\ States!Idle.at = "idle"
  BY <1>1, JobsAre DEF States!Idle
<1>4. job'[q] = States!Making("document", d, t, via)
  BY <1>2 DEF StateTyped
<1>5. p # q => job'[q] = States!Idle
  BY <1>2 DEF StateTyped
<1>6. p = q
  BY <1>3, <1>4, <1>5
<1>7. job'[q] = States!Making("document", c, s, to)
  BY <1>2, <1>6 DEF StateTyped
<1>8. QED  BY <1>3, <1>4, <1>7

LEMMA BlindStays ==
  ASSUME StateTyped, [States!Next]_(States!vars)
  PROVE  (blind => blind') /\ (glossed => glossed')
<1>1. ASSUME NEW p \in Procs, NEW c \in Copies, States!State(p, c) PROVE (blind => blind') /\ (glossed => glossed')
  BY <1>1, Zenon DEF States!State
<1>2. (blind' = blind /\ glossed' = glossed) \/ \E p \in Procs, c \in Copies : States!State(p, c)
  BY DEF States!Next, States!vars, States!Record, States!Amend, States!Write, States!Prune, States!Receive,
         States!Copy, States!Restore, States!history, States!WriteStatement,
         States!WriteSignature, States!Witness, States!WriteRecord, States!Stop, States!Revoke, States!Tick
<1>3. CASE blind' = blind /\ glossed' = glossed
  <2>1. blind => blind'
    BY <1>3
  <2>2. glossed => glossed'
    BY <1>3
  <2>3. QED  BY <2>1, <2>2
<1>4. CASE \E p \in Procs, c \in Copies : States!State(p, c)
  BY <1>1, <1>4, Zenon
<1>5. QED  BY <1>2, <1>3, <1>4, Zenon

LEMMA AllInSight ==
  ASSUME StateTyped, Apart, NEW p \in Procs, NEW c \in Copies, States!State(p, c), ~blind'
  PROVE  /\ States!InSight(c) \in Nat
         /\ \A o \in Given \cup Coming : o.counter <= States!InSight(c)
<1> DEFINE m == States!InSight(c)
<1>1. ~\E o \in States!Ahead : o.counter > m
  BY DEF States!State
<1>2. Said \cup Coming \cup Tops \subseteq States!Ahead
  <2>1. ASSUME NEW o \in Coming PROVE o \in States!Ahead
    <3>1. PICK q \in Busy : job[q].does = "state" /\ o = job[q].statement
      BY DEF Coming
    <3>2. q \in {r \in Procs : job[r] # States!Idle /\ job[r].does = "state"}
      BY <3>1 DEF Busy
    <3>3. QED  BY <3>1, <3>2 DEF States!Ahead
  <2>2. Said \subseteq States!Ahead
    BY DEF States!Ahead, Said
  <2>3. ASSUME NEW o \in Tops PROVE o \in States!Ahead
    <3>1. PICK d \in Copies : o = backup[d].top
      BY DEF Tops
    <3>2. QED  BY <3>1 DEF States!Ahead
  <2>4. QED  BY <2>1, <2>2, <2>3
<1>3. \A o \in Said \cup Coming \cup Tops : ~(o.counter > m)
  BY <1>1, <1>2
<1>4. m \in Nat
  <2>1. seen[c].counter \in Nat
    BY StatementShape DEF StateTyped
  <2>2. \A x \in States!Stated(c) : x.counter \in Nat
    BY StatedIs, StatementShape
  <2>3. QED  BY <2>1, <2>2, HighestIs
<1> HIDE DEF m
<1>5. \A o \in Said \cup Tops : o.counter \in Nat
  <2>1. \A d \in Copies : \A x \in States!Stated(d) : x.counter \in Nat
    BY StatedIs, StatementShape
  <2>2. \A d \in Copies : backup[d].top.counter \in Nat
    BY StatementShape DEF StateTyped
  <2>3. QED  BY <2>1, <2>2 DEF Said, Tops
<1>6. \A o \in Given \cup Coming : o.counter \in Nat
  BY CommonIs, StatementShape
<1>7. \A o \in Given : o.counter <= m
  <2>1. ASSUME NEW o \in Given PROVE o.counter <= m
    <3>1. PICK u \in Said \cup Tops : o.counter <= u.counter
      BY DEF Apart
    <3>2. o.counter \in Nat /\ u.counter \in Nat /\ ~(u.counter > m)
      BY <1>3, <1>5, <1>6
    <3>3. QED  BY <1>4, <3>1, <3>2
  <2>2. QED  BY <2>1
<1>8. \A o \in Coming : o.counter <= m
  BY <1>3, <1>4, <1>6
<1>9. QED  BY <1>4, <1>7, <1>8 DEF m

LEMMA NextIsAbove ==
  ASSUME StateTyped, Apart, NEW p \in Procs, NEW c \in Copies, States!State(p, c), held[c] # {}, ~blind'
  PROVE  \A o \in Given \cup Coming : o.counter < States!Statement(c).counter
<1> DEFINE m == States!InSight(c)
<1>1. m \in Nat /\ m <= States!Highest(c) /\ \A o \in Given \cup Coming : o.counter <= m
  BY AllInSight, HighestIs
<1>2. States!Highest(c) \in Nat /\ States!Statement(c).counter = States!Highest(c) + 1
  BY HighestIs, StatementIs
<1>3. \A o \in Given \cup Coming : o.counter \in Nat
  BY CommonIs, StatementShape
<1> HIDE DEF m
<1>4. QED  BY <1>1, <1>2, <1>3

LEMMA ApartAfter ==
  ASSUME StateTyped, ~crossed => Alone, ~crossed /\ ~blind => Apart, [States!Next]_(States!vars), ~crossed', ~blind'
  PROVE  Apart'
<1>1. ~crossed /\ ~blind /\ Alone /\ Apart
  BY CrossedStays, BlindStays
<1>2. ASSUME NEW s \in Given' \cup Coming', NEW t \in Given' \cup Coming', s.counter = t.counter PROVE s = t
  <2>1. \A x \in Statements : ~(x.counter < x.counter)
    BY StatementShape
  <2>2. ASSUME NEW x \in Given \cup Coming, NEW y, NEW p \in Procs, NEW c \in Copies,
               States!State(p, c), held[c] # {}, y = States!Statement(c)
        PROVE  x.counter # y.counter
    <3>1. x.counter < y.counter
      BY <1>1, <2>2, NextIsAbove
    <3>2. ~(x.counter < x.counter)
      BY <2>1, CommonIs
    <3>3. QED  BY <3>1, <3>2
  <2>3. CASE s \in Given \cup Coming /\ t \in Given \cup Coming
    BY <1>1, <1>2, <2>3 DEF Apart
  <2>4. CASE s \notin Given \cup Coming /\ t \notin Given \cup Coming
    BY <2>4, NewsAre, OneBegins
  <2>5. CASE s \in Given \cup Coming /\ t \notin Given \cup Coming
    BY <1>2, <2>2, <2>5, NewsAre
  <2>6. CASE s \notin Given \cup Coming /\ t \in Given \cup Coming
    BY <1>2, <2>2, <2>6, NewsAre
  <2>7. QED  BY <2>3, <2>4, <2>5, <2>6
<1> DEFINE Seen(n) == \E d \in Copies : (\E o \in States!Stated(d)' : n <= o.counter) \/ n <= backup'[d].top.counter
<1>3. ASSUME NEW s \in Given PROVE Seen(s.counter)
  <2>1. PICK o \in Said \cup Tops : s.counter <= o.counter
    BY <1>1 DEF Apart
  <2>2. s.counter \in Nat
    BY CommonIs, StatementShape
  <2>3. ASSUME NEW d \in Copies, o \in States!Stated(d) PROVE Seen(s.counter)
    <3>1. CASE ~States!Restore(d)
      BY <2>1, <2>3, <3>1, StatedStays
    <3>2. CASE States!Restore(d)
      <4>1. backup'[d].top = States!Highmost(States!Stated(d) \cup {backup[d].top})
        BY <3>2 DEF States!Restore, StateTyped
      <4>2. backup'[d].top.counter \in Nat /\ o.counter \in Nat /\ o.counter <= backup'[d].top.counter
        <5>1. backup'[d].top \in States!Stated(d) \cup {backup[d].top} /\ o.counter <= backup'[d].top.counter
          BY <2>3, <4>1, TopIs
        <5>2. backup'[d].top \in Statements \cup {States!None} /\ o \in Statements
          BY <2>3, <5>1, StatedIs DEF StateTyped
        <5>3. QED  BY <5>1, <5>2, StatementShape
      <4>3. s.counter <= backup'[d].top.counter
        BY <2>1, <2>2, <4>2
      <4>4. QED  BY <4>3
    <3>3. QED  BY <3>1, <3>2
  <2>4. ASSUME NEW d \in Copies, o = backup[d].top PROVE Seen(s.counter)
    <3>1. backup'[d].top = backup[d].top \/ backup'[d].top = States!Highmost(States!Stated(d) \cup {backup[d].top})
      BY BackupAfter
    <3>2. CASE backup'[d].top = backup[d].top
      BY <2>1, <2>4, <3>2
    <3>3. CASE backup'[d].top = States!Highmost(States!Stated(d) \cup {backup[d].top})
      <4>1. backup'[d].top \in States!Stated(d) \cup {backup[d].top} /\ o.counter <= backup'[d].top.counter
        BY <2>4, <3>3, TopIs
      <4>2. backup'[d].top \in Statements \cup {States!None} /\ o \in Statements \cup {States!None}
        BY <2>4, <4>1, StatedIs DEF StateTyped
      <4>3. backup'[d].top.counter \in Nat /\ o.counter \in Nat
        BY <4>2, StatementShape
      <4>4. s.counter <= backup'[d].top.counter
        BY <2>1, <2>2, <4>1, <4>3
      <4>5. QED  BY <4>4
    <3>4. QED  BY <3>1, <3>2, <3>3
  <2>5. (\E d \in Copies : o \in States!Stated(d)) \/ \E d \in Copies : o = backup[d].top
    BY DEF Said, Tops
  <2>6. QED  BY <2>3, <2>4, <2>5
<1>4. ASSUME NEW s \in Given', NEW p \in Busy, States!WriteSignature(p), job[p].at = "signature", s = job[p].statement,
             sig'[job[p].in] = States!With(sig[job[p].in], job[p].to, s)
      PROVE  Seen(s.counter)
  <2> DEFINE n == job[p].to
  <2>1. PICK c \in Copies : c = job[p].in /\ n \in DOMAIN doc[c] /\ doc[c][n] = s
    <3>1. p \in Procs
      BY DEF Busy
    <3>2. QED  BY <1>1, <1>4, <3>1, JobShape DEF Alone
  <2>2. doc' = doc
    BY <1>4 DEF States!WriteSignature
  <2>3. n \in DOMAIN sig'[c] /\ sig'[c][n] = s
    BY <1>4, <2>1 DEF States!With
  <2>4. s \in States!Stated(c)'
    BY <2>1, <2>2, <2>3 DEF States!Stated, States!Verified
  <2>5. s.counter <= s.counter
    <3>1. s \in Statements
      BY DEF Given
    <3>2. QED  BY <3>1, StatementShape
  <2>6. QED  BY <2>1, <2>4, <2>5
<1>5. ASSUME NEW s \in Given' PROVE \E o \in Said' \cup Tops' : s.counter <= o.counter
  <2>1. Seen(s.counter)
    BY <1>3, <1>4, GivenAfter
  <2>2. QED  BY <2>1 DEF Said, Tops
<1>6. QED  BY <1>2, <1>5 DEF Apart
-----------------------------------------------------------------------------
(* What is stated next, where nothing is found at fault, follows all there   *)
(* is.                                                                       *)
LEMMA NextFollows ==
  ASSUME StateTyped, Covered, Apart, InTurn, \A s \in Given \cup Coming : Known(s),
         NEW p \in Procs, NEW c \in Copies, States!State(p, c), held[c] # {}, ~blind', ~States!Faulted(c),
         NEW s \in Given \cup Coming
  PROVE  Follows(s, States!Statement(c))
<1> DEFINE m == States!InSight(c)  t == States!Statement(c)
<1>1. m \in Nat /\ s.counter \in Nat \ {0} /\ s.counter <= m
  BY AllInSight, CommonIs, StatementShape
<1>2. Historic /\ Whole(held[c]) /\ Known(s)
  BY DEF StateTyped
<1>3. \E x \in States!Stated(c) : x.counter = m
  <2>1. SUFFICES ASSUME ~\E x \in States!Stated(c) : x.counter = m PROVE FALSE
    OBVIOUS
  <2>2. m = seen[c].counter /\ \A x \in States!Stated(c) : x.counter <= m
    BY <2>1, HighestIs
  <2>3. \A x \in States!Stated(c) : x.counter \in Nat /\ x.counter # m
    BY <2>1, StatedIs, StatementShape
  <2>4. States!Top(c) \in Nat /\ (States!Top(c) = 0 \/ \E x \in States!Stated(c) : x.counter = States!Top(c))
    BY TopOf, LatestIs
  <2>5. States!Top(c) < seen[c].counter
    BY <1>1, <2>2, <2>3, <2>4
  <2>6. seen[c] # States!None
    BY <1>1, <2>2, StatementShape
  <2>7. QED  BY <2>5, <2>6 DEF States!Faulted, States!RolledBack
<1>4. PICK x \in States!Stated(c) : x.counter = m
  BY <1>3
<1>5. x \in Given /\ Covers(held[c], x)
  BY StatedIs, GivenHas DEF Covered
<1>6. \A h \in s.heads : States!Became(h) \cap held[c] # {}
  <2>1. CASE s = x
    BY <1>5, <2>1 DEF Covers
  <2>2. CASE s # x
    <3>1. s.counter < x.counter
      BY <1>1, <1>4, <1>5, <2>2 DEF Apart
    <3>2. Follows(s, x)
      BY <1>5, <3>1 DEF InTurn
    <3>3. QED  BY <1>2, <1>5, <3>2, CoversUnder DEF Follows, Known
  <2>3. QED  BY <2>1, <2>2
<1>7. held[c] \subseteq Under(t)
  BY <1>2, StatementIs, AllUnder
<1>8. QED  BY <1>6, <1>7 DEF Follows

LEMMA InTurnAfter ==
  ASSUME StateTyped, Covered, \A s \in Given \cup Coming : Known(s), ~crossed => Alone, ~crossed /\ ~blind => Apart,
         ~crossed /\ ~blind /\ ~glossed => InTurn, [States!Next]_(States!vars), ~crossed', ~blind', ~glossed'
  PROVE  InTurn'
<1>1. Apart /\ InTurn
  BY CrossedStays, BlindStays
<1>2. Historic /\ Historic' /\ Grows
  BY StatingTyped DEF StateTyped
<1>3. ASSUME NEW s \in Given' \cup Coming', NEW t \in Given' \cup Coming', s.counter < t.counter
      PROVE  Follows(s, t) /\ Known(s) /\ Known(t)
  <2>1. Known(s) /\ Known(t)
    BY NewsAre, StatementIs
  <2>2. CASE s \in Given \cup Coming /\ t \in Given \cup Coming
    BY <1>1, <1>3, <2>1, <2>2 DEF InTurn
  <2>3. ASSUME NEW p \in Procs, NEW c \in Copies, States!State(p, c), held[c] # {}, s = States!Statement(c) PROVE FALSE
    <3>1. s \in Statements /\ t \in Statements
      BY <2>3, NewsAre, CommonIs, StatementIs
    <3>2. t.counter < s.counter \/ t = s
      BY <1>1, <2>3, NewsAre, OneBegins, NextIsAbove
    <3>3. QED  BY <1>3, <3>1, <3>2, StatementShape
  <2>4. ASSUME s \in Given \cup Coming,
               NEW p \in Procs, NEW c \in Copies, States!State(p, c), held[c] # {}, t = States!Statement(c)
        PROVE  Follows(s, t)
    <3>1. ~States!Faulted(c)
      BY <2>4, Zenon DEF States!State
    <3>2. QED  BY <1>1, <2>4, <3>1, NextFollows
  <2>5. QED  BY <2>1, <2>2, <2>3, <2>4, NewsAre
<1>4. ASSUME NEW s \in Given' \cup Coming', NEW t \in Given' \cup Coming', s.counter < t.counter
      PROVE  \A h \in s.heads : States!Became(h)' \cap Under(t)' # {}
  BY <1>2, <1>3, <1>4, GrownFollows
<1>5. QED  BY <1>4 DEF InTurn, Follows
-----------------------------------------------------------------------------
LEMMA StatingHolds ==
  ASSUME StateInv, [States!Next]_(States!vars)
  PROVE  StateInv'
<1> USE DEF StateInv
<1>1. StateTyped'
  BY StatingTyped
<1>2. Covered'
  BY CoveredAfter
<1>3. Shown'
  BY ShownAfter
<1>4. (\A s \in Given \cup Coming : Known(s))'
  BY KnownAfter
<1>5. ~crossed' => Alone'
  BY AloneAfter
<1>6. ~crossed' /\ ~blind' => Apart'
  BY ApartAfter
<1>7. ~crossed' /\ ~blind' /\ ~glossed' => InTurn'
  BY InTurnAfter
<1>8. QED  BY <1>1, <1>2, <1>3, <1>4, <1>5, <1>6, <1>7

LEMMA StatingBegins ==
  ASSUME States!Init
  PROVE  StateInv
<1> USE DEF States!Init
<1>1. rev = <<[on |-> {}, over |-> {}]>> /\ Revisions = {1} /\ Len(rev) = 1 /\ rev[1] = [on |-> {}, over |-> {}]
  BY DEF Revisions
<1>2. Historic
  BY <1>1 DEF Historic
<1>3. Whole({1})
  BY <1>1 DEF Whole, States!Parents
<1>4. Sheets(<<>>) /\ Titled(<<>>) /\ Ran(<<>>) = {}
  BY FS_EmptySet DEF Sheets, Titled, Ran
<1>5. Busy = {} /\ \A p \in Procs : job[p] = States!Idle
  BY DEF Busy
<1>6. StateTyped
  <2>1. /\ DOMAIN held = Copies /\ DOMAIN doc = Copies /\ DOMAIN sig = Copies /\ DOMAIN seen = Copies
        /\ DOMAIN revoked = Copies /\ DOMAIN backup = Copies
    OBVIOUS
  <2>2. \A c \in Copies : /\ held[c] = {1} /\ doc[c] = <<>> /\ sig[c] = <<>> /\ seen[c] = States!None
                          /\ revoked[c] = States!Never
                          /\ backup[c] = [held |-> {1}, doc |-> <<>>, sig |-> <<>>, top |-> States!None]
    OBVIOUS
  <2>3. \A c \in Copies : Whole(held[c]) /\ Sheets(doc[c]) /\ Titled(doc[c]) /\ Sheets(sig[c])
    BY <1>3, <1>4, <2>2
  <2>4. \A c \in Copies : /\ backup[c].held = {1} /\ backup[c].doc = <<>> /\ backup[c].sig = <<>>
                          /\ backup[c].top = States!None
    BY <2>2
  <2>5. \A c \in Copies : /\ Whole(backup[c].held) /\ Sheets(backup[c].doc) /\ Titled(backup[c].doc)
                          /\ Sheets(backup[c].sig) /\ backup[c].top \in Statements \cup {States!None}
    BY <1>3, <1>4, <2>4
  <2>6. MaxDays \in Nat \ {0} /\ States!Never \in 1..States!Never /\ today \in 1..MaxDays
    BY BoundsAssumption DEF States!Never
  <2>7. job \in [Procs -> Jobs] /\ \A p \in Procs : job[p].at = "document" => Titles(job[p].to, job[p].statement)
    BY <1>5, IdleIsJob
  <2>8. back \subseteq Copies /\ blind \in BOOLEAN /\ glossed \in BOOLEAN /\ crossed \in BOOLEAN
    OBVIOUS
  <2> HIDE DEF States!Init
  <2>9. QED  BY <1>2, <2>1, <2>2, <2>3, <2>5, <2>6, <2>7, <2>8 DEF StateTyped
<1>7. Given = {} /\ Coming = {}
  <2>1. Coming = {}
    BY <1>5 DEF Coming
  <2>2. ASSUME NEW s \in Given PROVE FALSE
    <3>1. s # States!None
      BY StatementShape DEF Given
    <3>2. \A c \in Copies : sig[c] = <<>> /\ backup[c].sig = <<>> /\ seen[c] = States!None
      OBVIOUS
    <3>3. QED  BY <1>4, <1>5, <3>1, <3>2 DEF Given, Gave
  <2>3. QED  BY <2>1, <2>2
<1>8. Covered
  <2>1. \A c \in Copies : MadeIn(c) = {}
    BY <1>5 DEF MadeIn
  <2>2. \A c \in Copies : doc[c] = <<>> /\ backup[c].doc = <<>>
    OBVIOUS
  <2>3. QED  BY <1>4, <2>1, <2>2 DEF Covered
<1>9. Shown
  BY <1>5 DEF Shown
<1>10. Alone
  BY <1>5 DEF Alone
<1>11. Apart
  BY <1>7 DEF Apart
<1>12. InTurn
  BY <1>7 DEF InTurn
<1>13. QED  BY <1>6, <1>7, <1>8, <1>9, <1>10, <1>11, <1>12 DEF StateInv
-----------------------------------------------------------------------------
(* What follows.                                                             *)
LEMMA StatesTyped ==
  ASSUME StateTyped, Covered
  PROVE  States!TypeOK
<1>1. Historic
  BY DEF StateTyped
<1>2. \A r \in DOMAIN rev : rev[r].on \cup rev[r].over \subseteq 1..(r - 1)
  BY <1>1, RevisionsAre DEF Historic
<1>3. \A c \in Copies : /\ held[c] \subseteq DOMAIN rev /\ States!Parents(held[c]) \subseteq held[c]
                        /\ revoked[c] \in 1..States!Never
  BY <1>1, RevisionsAre DEF StateTyped, Whole
<1>4. ASSUME NEW c \in Copies, NEW s \in States!Range(doc[c]) PROVE s.counter > 0 /\ s.heads # {}
  <2>1. s \in Ran(doc[c])
    BY DEF States!Range, Ran
  <2>2. s \in Statements
    BY <2>1, StatedIs
  <2>3. s.counter > 0
    BY <2>2, StatementShape
  <2>4. QED  BY <2>1, <2>3 DEF Covered, Covers, Known
<1>5. QED  BY <1>2, <1>3, <1>4 DEF States!TypeOK

LEMMA WithheldWas ==
  ASSUME StateTyped, Covered
  PROVE  States!WithheldIsLostOrTwiceReplaced
<1>1. SUFFICES ASSUME NEW c \in Copies, NEW h \in States!Withheld(c)
               PROVE  \E r \in DOMAIN rev \ held[c] : h \in rev[r].over /\ \E s \in held[c] : s \in States!Became(r)
  BY DEF States!WithheldIsLostOrTwiceReplaced
<1>2. PICK s \in States!Latest(c) : h \in s.heads
  BY DEF States!Withheld
<1>3. h \notin held[c] /\ h \notin States!Superseded(held[c])
  BY DEF States!Withheld
<1>4. Covers(held[c], s)
  BY LatestIs, StatedIs DEF Covered
<1>5. PICK g \in States!Became(h) \cap held[c] : TRUE
  BY <1>2, <1>4 DEF Covers
<1>6. Historic /\ h \in Revisions /\ g # h
  BY <1>2, <1>3, <1>4, <1>5 DEF Covers, Known, StateTyped
<1>7. PICK t \in Revisions : h \in rev[t].over /\ g \in States!Became(t)
  BY <1>5, <1>6, BecameBy
<1>8. t \notin held[c]
  BY <1>3, <1>7 DEF States!Superseded
<1>9. QED  BY <1>5, <1>6, <1>7, <1>8, RevisionsAre

LEMMA RolledBackWas ==
  ASSUME StateTyped, Shown
  PROVE  States!RolledBackIsEarned
<1>1. SUFFICES ASSUME NEW c \in Copies, States!RolledBack(c), c \notin back
               PROVE  seen[c].when >= revoked[c]
  BY DEF States!RolledBackIsEarned
<1>2. seen[c] # States!None /\ States!Top(c) < seen[c].counter
  BY <1>1 DEF States!RolledBack
<1>3. seen[c] \in States!Stated(c) /\ seen[c] \in Statements
  BY <1>1, <1>2 DEF Shown, StateTyped
<1>4. States!Top(c) \in Nat /\ seen[c].counter \in Nat /\ seen[c].when \in Nat /\ revoked[c] \in Nat
  <2>1. revoked[c] \in 1..States!Never /\ seen[c].when \in 1..MaxDays /\ MaxDays \in Nat /\ States!Never = MaxDays + 1
    BY <1>3, StatementShape, BoundsAssumption DEF StateTyped, States!Never
  <2>2. QED  BY <1>3, <2>1, TopOf, StatementShape
<1>5. ~(seen[c].when < revoked[c])
  <2>1. SUFFICES ASSUME seen[c].when < revoked[c] PROVE FALSE
    OBVIOUS
  <2>2. seen[c] \in States!CountsHere(c)
    BY <1>3, <2>1 DEF States!CountsHere
  <2>3. seen[c].counter <= States!Top(c)
    BY <2>2, TopOf
  <2>4. QED  BY <1>2, <1>4, <2>3
<1>6. QED  BY <1>4, <1>5

LEMMA EquivocatedWas ==
  ASSUME StateTyped, Apart, NEW c \in Copies
  PROVE  ~States!Equivocated(c)
<1>1. States!CountsHere(c) \subseteq Given
  BY LatestIs, GivenHas
<1>2. ASSUME NEW s \in States!CountsHere(c), NEW t \in States!CountsHere(c), s # t, s.counter = t.counter PROVE FALSE
  BY <1>1, <1>2 DEF Apart
<1>3. ASSUME seen[c] # States!None, States!Top(c) = seen[c].counter, seen[c] \notin States!Latest(c) PROVE FALSE
  <2>1. seen[c] \in Given /\ seen[c].counter \in Nat \ {0}
    BY <1>3, GivenHas, StatementShape DEF StateTyped
  <2>2. PICK x \in States!CountsHere(c) : x.counter = States!Top(c)
    BY <1>3, <2>1, TopOf
  <2>3. x = seen[c]
    BY <1>1, <1>3, <2>1, <2>2 DEF Apart
  <2>4. QED  BY <1>3, <2>2, <2>3 DEF States!Latest
<1>4. QED  BY <1>2, <1>3 DEF States!Equivocated

LEMMA WitnessedIs ==
  ASSUME StateTyped, Covered, Apart, InTurn, \A s \in Given \cup Coming : Known(s), NEW c \in Copies, States!Ok(c),
         NEW h \in seen[c].heads
  PROVE  States!Became(h) \cap held[c] # {}
<1>1. seen[c] # States!None /\ Historic /\ Whole(held[c])
  BY StatementShape DEF StateTyped
<1>2. seen[c] \in Given /\ Known(seen[c]) /\ seen[c].counter \in Nat \ {0}
  BY <1>1, GivenHas, CommonIs, StatementShape
<1>3. States!Top(c) \in Nat /\ ~(States!Top(c) < seen[c].counter)
  BY <1>1, TopOf DEF States!Ok, States!Faulted, States!RolledBack
<1>4. PICK x \in States!CountsHere(c) : x.counter = States!Top(c)
  BY <1>2, <1>3, TopOf
<1>5. x \in Given /\ Covers(held[c], x)
  BY LatestIs, GivenHas, StatedIs DEF Covered
<1>6. CASE seen[c] = x
  BY <1>5, <1>6 DEF Covers
<1>7. CASE seen[c] # x
  <2>1. seen[c].counter < x.counter
    BY <1>2, <1>3, <1>4, <1>5, <1>7 DEF Apart
  <2>2. Follows(seen[c], x)
    BY <1>2, <1>5, <2>1 DEF InTurn
  <2>3. h \in Revisions /\ States!Became(h) \cap Under(x) # {}
    BY <1>2, <2>2 DEF Follows, Known
  <2>4. QED  BY <1>1, <1>5, <2>3, CoversUnder
<1>8. QED  BY <1>6, <1>7

(* However many copies and commands there are, wherever one stops, and       *)
(* whatever a copy is put back to: what a copy states it covers, what it has *)
(* seen it can show, and statements of one key that were begun in full sight *)
(* are one after the other (heads.rs, seen.rs).                              *)
THEOREM StatesInvariance == MCSpec => []StateInv
<1>1. MCInit => StateInv
  BY StatingBegins DEF MCInit
<1>2. StateInv /\ [MCNext]_<<part, vouchesVars, statesVars>> => StateInv'
  <2> SUFFICES ASSUME StateInv, [MCNext]_<<part, vouchesVars, statesVars>> PROVE StateInv'
    OBVIOUS
  <2>1. [States!Next]_(States!vars)
    BY DEF MCNext, statesVars, States!vars, States!claims, States!history
  <2>2. QED  BY <2>1, StatingHolds
<1>3. QED  BY <1>1, <1>2, PTL DEF MCSpec

(* A copy says rolled back or equivocated of a statement only with cause,    *)
(* withheld only of a head that was lost or was replaced twice and pruned,   *)
(* and every head it witnessed is in its store or has become what is         *)
(* (verify.rs, `judge_statements').                                          *)
THEOREM StatementsAreRight == MCSpec => []StatementsAreJudged
<1>1. StateInv => StatementsAreJudged
  <2> SUFFICES ASSUME StateInv PROVE StatementsAreJudged
    OBVIOUS
  <2> USE DEF StateInv
  <2>1. States!TypeOK /\ States!WithheldIsLostOrTwiceReplaced /\ States!RolledBackIsEarned
    BY StatesTyped, WithheldWas, RolledBackWas
  <2>2. States!EquivocatesOnlyBlind
    BY EquivocatedWas DEF States!EquivocatesOnlyBlind
  <2>3. States!WhatWasWitnessedIsHere
    BY WitnessedIs DEF States!WhatWasWitnessedIsHere
  <2>4. QED  BY <2>1, <2>2, <2>3 DEF StatementsAreJudged
<1>2. QED  BY <1>1, StatesInvariance, PTL

(* What a copy believes of a key is extended only by a command that another  *)
(* has written past between its comparison and its write (trust.rs), and     *)
(* what it has seen of its statements only rises, unless two commands ran in *)
(* one copy at once (seen.rs).                                               *)
THEOREM TrustTightens == MCSpec => TrustOnlyTightens
<1> DEFINE Falls == \A c \in Sites : \A l \in DOMAIN trust[c] \cap DOMAIN trust'[c] : trust'[c][l] <= trust[c][l] \/ Vouches!Overtaken(c, l)
           Rises == \A c \in Copies : seen'[c].counter >= seen[c].counter \/ crossed
<1>1. VouchInv /\ [MCNext]_<<part, vouchesVars, statesVars>> => [Falls]_(Vouches!vars)
  <2> SUFFICES ASSUME VouchInv, [MCNext]_<<part, vouchesVars, statesVars>> PROVE Falls
    OBVIOUS
  <2>1. [Vouches!Next]_(Vouches!vars)
    BY DEF MCNext, vouchesVars, Vouches!vars
  <2>2. QED  BY <2>1, RevokedStays
<1>2. StateInv /\ [MCNext]_<<part, vouchesVars, statesVars>> => [Rises]_(States!vars)
  <2> SUFFICES ASSUME StateInv, [MCNext]_<<part, vouchesVars, statesVars>>, NEW c \in Copies, ~crossed
               PROVE  seen'[c].counter >= seen[c].counter
    OBVIOUS
  <2>1. [States!Next]_(States!vars)
    BY DEF MCNext, statesVars, States!vars, States!claims, States!history
  <2>2. StateTyped /\ Alone /\ seen[c].counter \in Nat
    BY StatementShape DEF StateInv, StateTyped
  <2>3. CASE seen'[c] = seen[c]
    BY <2>2, <2>3
  <2>4. ASSUME NEW p \in Busy, job[p].in = c, job[p].at = "record", seen'[c] = job[p].statement
        PROVE  seen'[c].counter >= seen[c].counter
    <3>1. p \in Procs
      BY DEF Busy
    <3>2. job[p].statement.counter \in Nat
      BY <2>2, <2>4, <3>1, JobShape, StatementShape
    <3>3. job[p].statement.counter > seen[c].counter
      BY <2>2, <2>4 DEF Alone
    <3>4. QED  BY <2>2, <2>4, <3>2, <3>3
  <2>5. QED  BY <2>1, <2>2, <2>3, <2>4, SeenAfter
<1>3. MCSpec => [][Falls]_(Vouches!vars) /\ [][Rises]_(States!vars)
  BY <1>1, <1>2, VouchesInvariance, StatesInvariance, PTL DEF MCSpec
<1>4. QED  BY <1>3 DEF TrustOnlyTightens, Vouches!RevocationStands, States!SeenOnlyRises
=============================================================================
