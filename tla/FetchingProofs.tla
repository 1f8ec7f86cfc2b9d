--------------------------- MODULE FetchingProofs ---------------------------
(***************************************************************************)
(* Theorems of Fetching: whatever is published, fetched, forgotten, let go *)
(* of or stopped, a revision is never here without its content, a memory   *)
(* believed misses nothing, and what is forgotten stays forgotten.         *)
(***************************************************************************)
EXTENDS Fetching, TLAPS
-----------------------------------------------------------------------------
(* The inductive invariant.                                                *)

\* Every page offers a revision with its content or what stands in for it, and
\* withdraws a content only for its stand-in.
PagesAreWhole ==
  \A n \in DOMAIN pages :
    /\ Of("revision", pages[n].added) \subseteq Of("content", pages[n].added) \cup Of("standin", pages[n].added)
    /\ Of("content", pages[n].gone) \subseteq Of("standin", pages[n].added)
    /\ Of("revision", pages[n].gone) = {} /\ Of("standin", pages[n].gone) = {}
    /\ Of("name", pages[n].added) \subseteq there.revs

\* A listing some offer stated, and one stated after another.
Stands(listing) ==
  /\ Of("content", listing) \cup Of("standin", listing) = Of("revision", listing)
  /\ Of("content", listing) \cap Of("standin", listing) = {}
  /\ Of("revision", listing) \subseteq there.revs /\ Of("standin", listing) \subseteq there.standins
Later(before, after) ==
  /\ Of("revision", before) \subseteq Of("revision", after)
  /\ Of("standin", before) \subseteq Of("standin", after)

PublishedInOrder ==
  /\ Stands(Composed(manifest))
  /\ publishing.step = "manifest" =>
       /\ publishing.chain # <<>> /\ Elements(publishing.chain) \subseteq present
       /\ manifest # <<>> => manifest[1] <= publishing.chain[1]
       /\ Stands(Composed(publishing.chain))
       /\ Later(Composed(manifest), Composed(publishing.chain))

\* What the manifest named once: no base is ever named again after another.
Older(chain) ==
  /\ Later(Composed(chain), Composed(manifest))
  /\ Of("content", Composed(chain)) \subseteq Of("revision", Composed(manifest))
  /\ chain # <<>> => manifest # <<>> /\ chain[1] <= manifest[1]
ReadEarlier == Older(memory.chain) /\ Older(fetch.chain)

OneAtATime ==
  /\ fetch.step = "idle" \/ evicting = {}
  /\ fetch.step # "idle" => fetch.chain # <<>>
  /\ fetch.step \in {"idle", "pages"} =>
       fetch.wanted = {} /\ fetch.left = {} /\ fetch.destroys = {} /\ fetch.contested = {}
  /\ fetch.step \in {"left", "remember", "move"} => fetch.wanted = {}
  /\ evicting \subseteq away
  /\ here.contents \subseteq there.revs /\ fetch.contested \subseteq there.revs

\* Nothing is asked for that is forgotten, or that a stand-in asked for forgets;
\* and what will be destroyed has its stand-in, or will have by then.
ForgottenApart ==
  LET forgotten == here.standins \cup Of("standin", fetch.wanted) IN
  /\ Of("content", fetch.wanted) \cap forgotten = {}
  /\ fetch.left \cap forgotten = {}
  /\ fetch.destroys \subseteq forgotten

\* A revision asked for finds its content, or its content is asked for too.
ContentIsAsked ==
  Of("revision", fetch.wanted) \subseteq
    here.contents \cup here.standins \cup away \cup Of("content", fetch.wanted) \cup Of("standin", fetch.wanted)

\* What the pages remembered offer is here, or noted, wherever the base is the
\* one the manifest still names; and so is what a fetch under way will remember.
Current(chain) == Of("content", Composed(chain)) \cap Of("content", Composed(manifest))
MemoryHolds ==
  memory.earned /\ memory.chain # <<>> =>
    /\ Of("revision", Composed(memory.chain)) \subseteq here.revs
    /\ Of("standin", Composed(memory.chain)) \subseteq here.standins
    /\ memory.heads \subseteq Of("revision", Composed(memory.chain))
    /\ memory.chain[1] = manifest[1] =>
         Current(memory.chain) \subseteq (here.contents \ evicting) \cup here.standins \cup memory.left
FetchHolds ==
  fetch.step \in {"take", "left", "remember"} /\ (memory.earned \/ fetch.applied = 0) =>
    /\ Of("revision", Composed(fetch.chain)) \subseteq here.revs \cup Of("revision", fetch.wanted)
    /\ Of("standin", Composed(fetch.chain)) \subseteq here.standins \cup Of("standin", fetch.wanted)
    /\ fetch.chain[1] = manifest[1] =>
         Current(fetch.chain) \subseteq
           here.contents \cup here.standins \cup fetch.leaving
             \cup Of("content", fetch.wanted) \cup Of("standin", fetch.wanted)
             \cup (IF fetch.step = "remember" THEN {} ELSE fetch.left)

IInv ==
  /\ TypeOK /\ PagesAreWhole /\ PublishedInOrder /\ ReadEarlier /\ OneAtATime
  /\ ForgottenApart /\ ContentIsAsked /\ RevisionsFindTheirContent /\ MemoryHolds /\ FetchHolds
-----------------------------------------------------------------------------
(* Listings: sets of entries, taken apart by kind.                         *)
Page == [added : SUBSET Entries, gone : SUBSET Entries]

LEMMA OfIff ==
  ASSUME NEW L \in SUBSET Entries, NEW k \in Kinds, NEW i
  PROVE  i \in Of(k, L) <=> Entry(k, i) \in L
BY DEF Of, Entry, Entries

LEMMA OfTyped == ASSUME NEW L \in SUBSET Entries, NEW k PROVE Of(k, L) \in SUBSET Number
BY DEF Of, Entries

LEMMA OfNone == ASSUME NEW k PROVE Of(k, {}) = {}
BY DEF Of

LEMMA OfUnion == ASSUME NEW k, NEW A, NEW B PROVE Of(k, A \cup B) = Of(k, A) \cup Of(k, B)
BY DEF Of

LEMMA OfDifference ==
  ASSUME NEW k \in Kinds, NEW A \in SUBSET Entries, NEW B \in SUBSET Entries
  PROVE  Of(k, A \ B) = Of(k, A) \ Of(k, B)
<1>1. \A i : i \in Of(k, A \ B) <=> Entry(k, i) \in A \ B
  BY OfIff
<1>. QED
  BY <1>1, OfIff

All(kind, S) == {Entry(kind, i) : i \in S}
LEMMA OfAll ==
  ASSUME NEW k, NEW j, NEW S
  PROVE  Of(k, All(j, S)) = IF k = j THEN S ELSE {}
<1>1. \A i \in S : Entry(j, i).kind = j /\ Entry(j, i).of = i
  BY DEF Entry
<1>. QED
  BY <1>1 DEF Of, All

LEMMA OfOffer ==
  ASSUME NEW s \in Stores
  PROVE  /\ Offer(s) \in SUBSET Entries
         /\ Of("content", Offer(s)) = s.contents
         /\ Of("standin", Offer(s)) = s.standins
         /\ Of("revision", Offer(s)) = s.revs
         /\ Of("name", Offer(s)) = {s.main} \ {0}
<1>1. Offer(s) \in SUBSET Entries
  BY DEF Offer, Stores, Entries, Entry, Kinds, Number
<1>2. ASSUME NEW k
      PROVE  Of(k, Offer(s)) = (IF k = "content" THEN s.contents ELSE {}) \cup (IF k = "standin" THEN s.standins ELSE {})
               \cup (IF k = "revision" THEN s.revs ELSE {}) \cup (IF k = "name" THEN {s.main} \ {0} ELSE {})
  <2>. DEFINE A == All("content", s.contents)
              B == All("standin", s.standins)
              C == All("revision", s.revs)
              D == All("name", {s.main} \ {0})
  <2>1. Offer(s) = ((A \cup B) \cup C) \cup D
    BY DEF Offer, All
  <2>2. /\ Of(k, A) = (IF k = "content" THEN s.contents ELSE {})
        /\ Of(k, B) = (IF k = "standin" THEN s.standins ELSE {})
        /\ Of(k, C) = (IF k = "revision" THEN s.revs ELSE {})
        /\ Of(k, D) = (IF k = "name" THEN {s.main} \ {0} ELSE {})
    BY OfAll
  <2>. HIDE DEF A, B, C, D
  <2>3. /\ Of(k, A \cup B) = Of(k, A) \cup Of(k, B)
        /\ Of(k, (A \cup B) \cup C) = Of(k, A \cup B) \cup Of(k, C)
        /\ Of(k, ((A \cup B) \cup C) \cup D) = Of(k, (A \cup B) \cup C) \cup Of(k, D)
    BY OfUnion
  <2>. QED
    BY <2>1, <2>2, <2>3
<1>. QED
  BY <1>1, <1>2
-----------------------------------------------------------------------------
(* Pages composed.                                                         *)
LEMMA ComposeIff ==
  ASSUME NEW from \in Seq(Page), NEW chain \in Seq(1 .. Len(from)), NEW e
  PROVE  e \in Compose(from, chain) <=>
           \E i \in 1 .. Len(chain) : /\ e \in from[chain[i]].added
                                      /\ \A j \in i + 1 .. Len(chain) : e \notin from[chain[j]].gone
<1>1. DOMAIN chain = 1 .. Len(chain)
  OBVIOUS
<1>2. \A i : e \in UNION {from[chain[j]].gone : j \in i + 1 .. Len(chain)} <=>
               \E j \in i + 1 .. Len(chain) : e \in from[chain[j]].gone
  BY Zenon
<1>3. e \in Compose(from, chain) <=>
        \E i \in DOMAIN chain :
          e \in from[chain[i]].added \ UNION {from[chain[j]].gone : j \in i + 1 .. Len(chain)}
  BY Zenon DEF Compose
<1>. QED
  BY <1>1, <1>2, <1>3

LEMMA ComposeTyped ==
  ASSUME NEW from \in Seq(Page), NEW chain \in Seq(1 .. Len(from))
  PROVE  Compose(from, chain) \in SUBSET Entries
<1>1. \A i \in 1 .. Len(chain) : from[chain[i]] \in Page
  OBVIOUS
<1>. QED
  BY <1>1, ComposeIff DEF Page

LEMMA ComposeNone == ASSUME NEW from PROVE Compose(from, <<>>) = {}
BY DEF Compose

LEMMA ComposeKept ==
  ASSUME NEW from \in Seq(Page), NEW p \in Page, NEW chain \in Seq(1 .. Len(from))
  PROVE  Compose(Append(from, p), chain) = Compose(from, chain)
<1>1. Append(from, p) \in Seq(Page) /\ chain \in Seq(1 .. Len(Append(from, p)))
  OBVIOUS
<1>2. \A i \in 1 .. Len(chain) : Append(from, p)[chain[i]] = from[chain[i]]
  OBVIOUS
<1>3. \A i \in 1 .. Len(chain) : \A j \in i + 1 .. Len(chain) : j \in 1 .. Len(chain)
  OBVIOUS
<1>. DEFINE book == Append(from, p)
<1>. HIDE DEF book
<1>4. ASSUME NEW e
      PROVE  e \in Compose(book, chain) <=> e \in Compose(from, chain)
  <2>1. e \in Compose(book, chain) <=>
          \E i \in 1 .. Len(chain) : /\ e \in book[chain[i]].added
                                     /\ \A j \in i + 1 .. Len(chain) : e \notin book[chain[j]].gone
    BY <1>1, ComposeIff DEF book
  <2>2. e \in Compose(from, chain) <=>
          \E i \in 1 .. Len(chain) : /\ e \in from[chain[i]].added
                                     /\ \A j \in i + 1 .. Len(chain) : e \notin from[chain[j]].gone
    BY ComposeIff
  <2>3. \A i \in 1 .. Len(chain) : book[chain[i]] = from[chain[i]]
    BY <1>2 DEF book
  <2>4. \A i \in 1 .. Len(chain) :
          (\A j \in i + 1 .. Len(chain) : e \notin book[chain[j]].gone)
            <=> \A j \in i + 1 .. Len(chain) : e \notin from[chain[j]].gone
    BY <2>3, <1>3
  <2>. QED
    BY <2>1, <2>2, <2>3, <2>4
<1>. QED
  BY <1>4 DEF book, Compose

LEMMA ComposeFirst ==
  ASSUME NEW from \in Seq(Page), NEW p \in Page
  PROVE  Compose(Append(from, p), <<Len(from) + 1>>) = p.added
<1>1. Append(from, p) \in Seq(Page) /\ <<Len(from) + 1>> \in Seq(1 .. Len(Append(from, p)))
  OBVIOUS
<1>2. Append(from, p)[Len(from) + 1] = p
  OBVIOUS
<1>. DEFINE book == Append(from, p)
            chain == <<Len(from) + 1>>
<1>3. Len(chain) = 1 /\ chain[1] = Len(from) + 1
  OBVIOUS
<1>. HIDE DEF book, chain
<1>4. ASSUME NEW e
      PROVE  e \in Compose(book, chain) <=> e \in p.added
  <2>1. e \in Compose(book, chain) <=>
          \E i \in 1 .. Len(chain) : /\ e \in book[chain[i]].added
                                     /\ \A j \in i + 1 .. Len(chain) : e \notin book[chain[j]].gone
    BY <1>1, ComposeIff DEF book, chain
  <2>. QED
    BY <2>1, <1>2, <1>3 DEF book
<1>. QED
  BY <1>4 DEF book, chain, Compose

LEMMA ComposeNext ==
  ASSUME NEW from \in Seq(Page), NEW p \in Page, NEW chain \in Seq(1 .. Len(from))
  PROVE  Compose(Append(from, p), Append(chain, Len(from) + 1)) = (Compose(from, chain) \ p.gone) \cup p.added
<1>. DEFINE book == Append(from, p)
            next == Append(chain, Len(from) + 1)
            n == Len(chain)
<1>1. book \in Seq(Page) /\ next \in Seq(1 .. Len(book)) /\ Len(next) = n + 1 /\ n \in Nat
  OBVIOUS
<1>2. book[next[n + 1]] = p /\ \A i \in 1 .. n : book[next[i]] = from[chain[i]]
  OBVIOUS
<1>3. ASSUME NEW e
      PROVE  e \in Compose(book, next) <=> e \in (Compose(from, chain) \ p.gone) \cup p.added
  <2>. HIDE DEF book, next
  <2>1. e \in Compose(book, next) <=>
          \E i \in 1 .. n + 1 : e \in book[next[i]].added /\ \A j \in i + 1 .. n + 1 : e \notin book[next[j]].gone
    BY <1>1, ComposeIff
  <2>2. e \in Compose(from, chain) <=>
          \E i \in 1 .. n : e \in from[chain[i]].added /\ \A j \in i + 1 .. n : e \notin from[chain[j]].gone
    BY ComposeIff
  <2>. HIDE DEF n
  <2>3. CASE e \in p.added
    BY <2>1, <2>3, <1>1, <1>2
  <2>4. CASE e \notin p.added /\ e \in p.gone
    <3>1. \A i \in 1 .. n : n + 1 \in i + 1 .. n + 1
      BY <1>1
    <3>. QED
      BY <2>1, <2>4, <3>1, <1>1, <1>2
  <2>5. CASE e \notin p.added /\ e \notin p.gone
    <3>1. ASSUME NEW i \in 1 .. n
          PROVE  i + 1 .. n + 1 = (i + 1 .. n) \cup {n + 1} /\ i + 1 .. n \subseteq 1 .. n
      <4>1. n \in Nat
        BY <1>1
      <4>2. i \in Nat /\ 1 <= i /\ i <= n
        BY <4>1
      <4>. QED
        BY <4>1, <4>2
    <3>2. 1 .. n + 1 = (1 .. n) \cup {n + 1}
      BY <1>1
    <3>. DEFINE Adds(i) == e \in from[chain[i]].added
                Spares(i) == e \notin from[chain[i]].gone
    <3>3. (\E i \in 1 .. n + 1 : e \in book[next[i]].added /\ \A j \in i + 1 .. n + 1 : e \notin book[next[j]].gone)
            <=> \E i \in 1 .. n : Adds(i) /\ \A j \in i + 1 .. n : Spares(j)
      <4>1. \A i \in 1 .. n : (e \in book[next[i]].added <=> Adds(i)) /\ (e \notin book[next[i]].gone <=> Spares(i))
        BY <1>2
      <4>2. ~(e \in book[next[n + 1]].added) /\ e \notin book[next[n + 1]].gone
        BY <1>2, <2>5
      <4>. HIDE DEF Adds, Spares
      <4>3. \A i \in 1 .. n : (\A j \in i + 1 .. n + 1 : e \notin book[next[j]].gone) <=> \A j \in i + 1 .. n : Spares(j)
        BY <4>1, <4>2, <3>1
      <4>. QED
        BY <4>1, <4>2, <4>3, <3>2
    <3>. QED
      BY <2>1, <2>2, <2>5, <3>3
  <2>. QED
    BY <2>3, <2>4, <2>5
<1>. QED
  BY <1>3

LEMMA ComposeParts ==
  ASSUME NEW from \in Seq(Page), NEW chain \in Seq(1 .. Len(from)), NEW k \in 0 .. Len(chain)
  PROVE  /\ SubSeq(chain, 1, k) \in Seq(1 .. Len(from)) /\ SubSeq(chain, k + 1, Len(chain)) \in Seq(1 .. Len(from))
         /\ Compose(from, chain) \subseteq
              Compose(from, SubSeq(chain, 1, k)) \cup Compose(from, SubSeq(chain, k + 1, Len(chain)))
<1>. DEFINE n == Len(chain)
            low == SubSeq(chain, 1, k)
            high == SubSeq(chain, k + 1, n)
<1>1. low \in Seq(1 .. Len(from)) /\ Len(low) = k /\ \A i \in 1 .. k : low[i] = chain[i]
  OBVIOUS
<1>2. high \in Seq(1 .. Len(from)) /\ Len(high) = n - k /\ \A i \in 1 .. n - k : high[i] = chain[k + i]
  OBVIOUS
<1>3. ASSUME NEW e \in Compose(from, chain)
      PROVE  e \in Compose(from, low) \cup Compose(from, high)
  <2>. HIDE DEF low, high
  <2>1. PICK i \in 1 .. n : e \in from[chain[i]].added /\ \A j \in i + 1 .. n : e \notin from[chain[j]].gone
    BY <1>3, ComposeIff
  <2>. HIDE DEF n
  <2>2. n \in Nat /\ k \in 0 .. n
    BY DEF n
  <2>3. CASE i <= k
    <3>1. i \in 1 .. k /\ \A j \in i + 1 .. k : j \in i + 1 .. n /\ j \in 1 .. k
      BY <2>2, <2>3
    <3>2. e \in from[low[i]].added /\ \A j \in i + 1 .. k : e \notin from[low[j]].gone
      BY <2>1, <3>1, <1>1
    <3>3. e \in Compose(from, low) <=>
            \E a \in 1 .. Len(low) : e \in from[low[a]].added /\ \A j \in a + 1 .. Len(low) : e \notin from[low[j]].gone
      BY <1>1, ComposeIff
    <3>. QED
      BY <3>1, <3>2, <3>3, <1>1
  <2>4. CASE i > k
    <3>1. i - k \in 1 .. n - k /\ k + (i - k) = i
      BY <2>2, <2>4
    <3>2. \A j \in (i - k) + 1 .. n - k : j \in 1 .. n - k /\ k + j \in i + 1 .. n
      BY <2>2, <2>4
    <3>3. e \in from[high[i - k]].added /\ \A j \in (i - k) + 1 .. n - k : e \notin from[high[j]].gone
      BY <2>1, <3>1, <3>2, <1>2
    <3>4. e \in Compose(from, high) <=>
            \E a \in 1 .. Len(high) : e \in from[high[a]].added /\ \A j \in a + 1 .. Len(high) : e \notin from[high[j]].gone
      BY <1>2, ComposeIff
    <3>. QED
      BY <3>1, <3>3, <3>4, <1>2
  <2>. QED
    BY <2>2, <2>3, <2>4
<1>. QED
  BY <1>1, <1>2, <1>3
-----------------------------------------------------------------------------
(* What a fetch wants of a listing.                                        *)
Missing(listing) == (Of("content", listing) \ here.contents) \ (here.standins \cup Of("standin", listing))
Left(listing, left) ==
  {i \in left \ (Of("standin", listing) \cup Missing(listing)) : i \notin here.contents \cup here.standins}

LEMMA WantedParts ==
  ASSUME NEW listing \in SUBSET Entries, NEW left \in SUBSET Number, NEW leave \in BOOLEAN, TypeOK,
         NEW plan, plan = Wanted(listing, left, leave)
  PROVE  /\ plan.wanted \in SUBSET Entries /\ plan.destroys \in SUBSET Number /\ plan.left \in SUBSET Number
         /\ plan.leaving \in SUBSET Number /\ plan.contested \in SUBSET Number
         /\ \A i : i \in Of("content", plan.wanted) <=> ~leave /\ i \in Missing(listing)
         /\ \A i : i \in Of("standin", plan.wanted) <=> i \in Of("standin", listing) /\ i \notin here.standins
         /\ \A i : i \in Of("revision", plan.wanted) <=> i \in Of("revision", listing) /\ i \notin here.revs
         /\ \A i : i \in plan.destroys <=> i \in here.contents /\ i \in here.standins \cup Of("standin", listing)
         /\ \A i : i \in plan.left <=> ~leave /\ i \in Left(listing, left)
         /\ \A i : i \in plan.leaving <=> leave /\ i \in Missing(listing) \cup Left(listing, left)
         /\ plan.contested \subseteq Of("name", listing)
<1>. DEFINE contents == Missing(listing)
            remains == Left(listing, left)
            taken == IF leave THEN {} ELSE contents
            standins == Of("standin", listing) \ here.standins
            revs == Of("revision", listing) \ here.revs
            named == IF here.main = 0 THEN Of("name", listing) ELSE {}
            C == All("content", taken)
            S == All("standin", standins)
            R == All("revision", revs)
            N == All("name", named)
<1>1. /\ plan.wanted = ((C \cup S) \cup R) \cup N
      /\ plan.destroys = (here.standins \cup Of("standin", listing)) \cap here.contents
      /\ plan.left = IF leave THEN {} ELSE remains
      /\ plan.leaving = IF leave THEN contents \cup remains ELSE {}
      /\ plan.contested = IF here.main = 0 THEN {} ELSE Of("name", listing) \ {here.main}
  BY DEF Wanted, Leaving, Remains, Lacks, Forgotten, All, Missing, Left
<1>2. \A k : Of(k, listing) \in SUBSET Number
  BY OfTyped
<1>3. here.contents \in SUBSET Number /\ here.standins \in SUBSET Number
  BY DEF TypeOK, Stores
<1>4. \A k \in Kinds : \A i \in Number : Entry(k, i) \in Entries
  BY DEF Entry, Entries
<1>5. C \in SUBSET Entries /\ S \in SUBSET Entries /\ R \in SUBSET Entries /\ N \in SUBSET Entries
  BY <1>2, <1>4 DEF Kinds, All, Missing
<1>6. ASSUME NEW k
      PROVE  /\ Of(k, C) = IF k = "content" THEN taken ELSE {}
             /\ Of(k, S) = IF k = "standin" THEN standins ELSE {}
             /\ Of(k, R) = IF k = "revision" THEN revs ELSE {}
             /\ Of(k, N) = IF k = "name" THEN named ELSE {}
  <2>. HIDE DEF taken, standins, revs, named
  <2>. QED
    BY OfAll
<1>. HIDE DEF C, S, R, N
<1>7. ASSUME NEW k
      PROVE  Of(k, plan.wanted) = ((Of(k, C) \cup Of(k, S)) \cup Of(k, R)) \cup Of(k, N)
  <2>1. /\ Of(k, C \cup S) = Of(k, C) \cup Of(k, S)
        /\ Of(k, (C \cup S) \cup R) = Of(k, C \cup S) \cup Of(k, R)
        /\ Of(k, ((C \cup S) \cup R) \cup N) = Of(k, (C \cup S) \cup R) \cup Of(k, N)
    BY OfUnion
  <2>. QED
    BY <1>1, <2>1
<1>8. Of("content", plan.wanted) = taken /\ Of("standin", plan.wanted) = standins /\ Of("revision", plan.wanted) = revs
  <2>. HIDE DEF taken, standins, revs, named
  <2>. QED
    <3>1. Of("content", plan.wanted) = ((taken \cup {}) \cup {}) \cup {}
      BY <1>6, <1>7
    <3>2. Of("standin", plan.wanted) = (({} \cup standins) \cup {}) \cup {}
      BY <1>6, <1>7
    <3>3. Of("revision", plan.wanted) = (({} \cup {}) \cup revs) \cup {}
      BY <1>6, <1>7
    <3>. QED
      BY <3>1, <3>2, <3>3
<1>9. plan.destroys \in SUBSET Number /\ plan.left \in SUBSET Number /\ plan.leaving \in SUBSET Number
      /\ plan.contested \in SUBSET Number /\ plan.contested \subseteq Of("name", listing)
  <2>. QED
    BY <1>1, <1>2, <1>3 DEF Missing, Left
<1>10. plan.wanted \in SUBSET Entries
  BY <1>1, <1>5
<1>. QED
  BY <1>1, <1>8, <1>9, <1>10

LEMMA WantedContent ==
  ASSUME NEW U, NEW before, NEW leave \in BOOLEAN, U \in SUBSET Entries, before \in SUBSET Number, TypeOK,
         NEW plan, plan = Wanted(U, before, leave)
  PROVE  \A i : i \in Of("content", plan.wanted) <=> ~leave /\ i \in Missing(U)
BY WantedParts

(* A listing read names no revision without its content or its stand-in.   *)
LEMMA ListingWhole ==
  ASSUME TypeOK, PagesAreWhole, NEW chain \in Chains
  PROVE  /\ Of("revision", Composed(chain)) \subseteq Of("content", Composed(chain)) \cup Of("standin", Composed(chain))
         /\ Of("name", Composed(chain)) \subseteq there.revs
<1>1. pages \in Seq(Page) /\ chain \in Seq(1 .. Len(pages)) /\ Composed(chain) = Compose(pages, chain)
  BY DEF TypeOK, Page, Chains, Composed
<1>2. Composed(chain) \in SUBSET Entries
  BY <1>1, ComposeTyped
<1>3. ASSUME NEW i \in 1 .. Len(chain)
      PROVE  /\ chain[i] \in DOMAIN pages
             /\ pages[chain[i]].added \in SUBSET Entries /\ pages[chain[i]].gone \in SUBSET Entries
  <2>1. chain[i] \in 1 .. Len(pages)
    BY <1>1
  <2>2. pages[chain[i]] \in Page /\ chain[i] \in DOMAIN pages
    BY <1>1, <2>1
  <2>. QED
    BY <2>2 DEF Page
<1>4. ASSUME NEW n \in Of("revision", Composed(chain))
      PROVE  n \in Of("content", Composed(chain)) \cup Of("standin", Composed(chain))
  <2>1. Entry("revision", n) \in Compose(pages, chain)
    BY <1>1, <1>2, OfIff DEF Kinds
  <2>2. PICK i \in 1 .. Len(chain) : Entry("revision", n) \in pages[chain[i]].added
    BY <1>1, <2>1, ComposeIff
  <2>3. n \in Of("revision", pages[chain[i]].added)
    BY <2>2, <1>3, OfIff DEF Kinds
  <2>4. n \in Of("content", pages[chain[i]].added) \/ n \in Of("standin", pages[chain[i]].added)
    BY <2>3, <1>3 DEF PagesAreWhole
  <2>5. ASSUME NEW j \in 1 .. Len(chain), n \in Of("standin", pages[chain[j]].added)
        PROVE  n \in Of("standin", Composed(chain))
    <3>1. Entry("standin", n) \in pages[chain[j]].added
      BY <2>5, <1>3, OfIff DEF Kinds
    <3>2. ASSUME NEW m \in j + 1 .. Len(chain)
          PROVE  Entry("standin", n) \notin pages[chain[m]].gone
      <4>1. m \in 1 .. Len(chain)
        BY <1>1
      <4>2. Of("standin", pages[chain[m]].gone) = {}
        BY <4>1, <1>3 DEF PagesAreWhole
      <4>. QED
        BY <4>1, <4>2, <1>3, OfIff DEF Kinds
    <3>3. Entry("standin", n) \in Compose(pages, chain)
      BY <3>1, <3>2, <1>1, ComposeIff
    <3>. QED
      BY <3>3, <1>1, <1>2, OfIff DEF Kinds
  <2>6. CASE \E m \in i + 1 .. Len(chain) : Entry("content", n) \in pages[chain[m]].gone
    <3>1. PICK m \in i + 1 .. Len(chain) : Entry("content", n) \in pages[chain[m]].gone
      BY <2>6
    <3>2. m \in 1 .. Len(chain)
      BY <1>1
    <3>3. n \in Of("content", pages[chain[m]].gone)
      BY <3>1, <3>2, <1>3, OfIff DEF Kinds
    <3>4. n \in Of("standin", pages[chain[m]].added)
      BY <3>2, <3>3, <1>3 DEF PagesAreWhole
    <3>. QED
      BY <2>5, <3>2, <3>4
  <2>7. CASE \A m \in i + 1 .. Len(chain) : Entry("content", n) \notin pages[chain[m]].gone
    <3>1. CASE n \in Of("content", pages[chain[i]].added)
      <4>1. Entry("content", n) \in pages[chain[i]].added
        BY <3>1, <1>3, OfIff DEF Kinds
      <4>2. Entry("content", n) \in Compose(pages, chain)
        BY <4>1, <2>7, <1>1, ComposeIff
      <4>. QED
        BY <4>2, <1>1, <1>2, OfIff DEF Kinds
    <3>2. CASE n \in Of("standin", pages[chain[i]].added)
      BY <2>5, <3>2
    <3>. QED
      BY <2>4, <3>1, <3>2
  <2>. QED
    BY <2>6, <2>7
<1>5. ASSUME NEW n \in Of("name", Composed(chain))
      PROVE  n \in there.revs
  <2>1. Entry("name", n) \in Compose(pages, chain)
    BY <1>1, <1>2, OfIff DEF Kinds
  <2>2. PICK i \in 1 .. Len(chain) : Entry("name", n) \in pages[chain[i]].added
    BY <1>1, <2>1, ComposeIff
  <2>3. n \in Of("name", pages[chain[i]].added)
    BY <2>2, <1>3, OfIff DEF Kinds
  <2>. QED
    BY <2>3, <1>3 DEF PagesAreWhole
<1>. QED
  BY <1>4, <1>5
-----------------------------------------------------------------------------
LEMMA OfWithin ==
  ASSUME NEW k, NEW A, NEW B, NEW C, A \subseteq B \cup C
  PROVE  Of(k, A) \subseteq Of(k, B) \cup Of(k, C)
BY DEF Of

LEMMA OfTaken ==
  ASSUME NEW W \in SUBSET Entries, NEW e \in W, NEW k \in Kinds
  PROVE  /\ e.kind \in Kinds /\ e.of \in Number
         /\ e.of \in Of(e.kind, W)
         /\ Of(k, W \ {e}) = Of(k, W) \ (IF e.kind = k THEN {e.of} ELSE {})
<1>1. e.kind \in Kinds /\ e.of \in Number
  BY DEF Entries
<1>2. e.of \in Of(e.kind, W)
  BY DEF Of
<1>3. Of(k, {e}) = IF e.kind = k THEN {e.of} ELSE {}
  BY DEF Of
<1>4. Of(k, W \ {e}) = Of(k, W) \ Of(k, {e})
  BY OfDifference
<1>. QED
  BY <1>1, <1>2, <1>3, <1>4

LEMMA ComposedTyped == ASSUME TypeOK, NEW chain \in Chains PROVE Composed(chain) \in SUBSET Entries
<1>1. pages \in Seq(Page) /\ chain \in Seq(1 .. Len(pages))
  BY DEF TypeOK, Page, Chains
<1>. QED
  BY <1>1, ComposeTyped DEF Composed

\* What a fetch begins with, and what one that is over is.
LEMMA OlderNone == Older(<<>>)
<1>1. Composed(<<>>) = {}
  BY ComposeNone DEF Composed
<1>. QED
  BY <1>1, OfNone DEF Older, Later

LEMMA OlderNow == ASSUME TypeOK, PublishedInOrder PROVE Older(manifest)
<1>1. manifest # <<>> => manifest[1] <= manifest[1]
  BY DEF TypeOK, Chains
<1>. QED
  BY <1>1 DEF Older, Later, PublishedInOrder, Stands
-----------------------------------------------------------------------------
(* The publisher's steps.                                                  *)
\* The types of all but the stores and the budget.
Rest ==
  /\ pages \in Seq([added : SUBSET Entries, gone : SUBSET Entries])
  /\ manifest \in Chains /\ Elements(manifest) \subseteq present /\ present \subseteq 1 .. Len(pages)
  /\ publishing \in [step : {"idle", "manifest", "sweep"}, chain : Chains]
  /\ memory \in [chain : Chains, heads : SUBSET Number, left : SUBSET Number, earned : BOOLEAN]
  /\ fetch \in [step : {"idle", "pages", "take", "left", "remember", "move"}, chain : Chains, applied : Nat,
                tries : 0 .. Tries, leave : BOOLEAN, wanted : SUBSET Entries, destroys : SUBSET Number,
                left : SUBSET Number, leaving : SUBSET Number, contested : SUBSET Number]
  /\ evicting \in SUBSET Number /\ away \in SUBSET Number

Stored ==
  /\ there \in Stores /\ here \in Stores
  /\ budget \in [records : Nat, stops : Nat, leaves : Nat]
  /\ there.revs = 1 .. there.main
  /\ there.contents \cup there.standins = there.revs /\ there.contents \cap there.standins = {}
  /\ here.revs \subseteq there.revs /\ here.standins \subseteq there.revs /\ here.main \in there.revs \cup {0}

LEMMA ThereGrows ==
  ASSUME IInv, TypeOK', UNCHANGED <<pages, present, manifest, publishing, reader>>,
         there.revs \subseteq there'.revs, there.standins \subseteq there'.standins
  PROVE  IInv'
<1>1. UNCHANGED <<here, memory, fetch, evicting, away>>
  BY DEF reader
<1>2. PagesAreWhole'
  BY DEF IInv, PagesAreWhole
<1>3. PublishedInOrder'
  BY DEF IInv, PublishedInOrder, Stands, Later, Composed
<1>4. ReadEarlier'
  BY <1>1 DEF IInv, ReadEarlier, Older, Later, Composed
<1>5. OneAtATime'
  BY <1>1 DEF IInv, OneAtATime
<1>6. ForgottenApart' /\ ContentIsAsked' /\ RevisionsFindTheirContent'
  BY <1>1 DEF IInv, ForgottenApart, ContentIsAsked, RevisionsFindTheirContent
<1>7. MemoryHolds'
  BY <1>1 DEF IInv, MemoryHolds, Current, Composed
<1>8. FetchHolds'
  BY <1>1 DEF IInv, FetchHolds, Current, Composed
<1>. QED
  BY <1>2, <1>3, <1>4, <1>5, <1>6, <1>7, <1>8 DEF IInv

LEMMA RecordThereKeeps == IInv /\ RecordThere => IInv'
<1>. SUFFICES ASSUME IInv, RecordThere PROVE IInv'
  OBVIOUS
<1>1. UNCHANGED <<pages, present, manifest, publishing, reader>>
  BY DEF RecordThere
<1>2. PICK n : n = there.main + 1 /\ there' = [there EXCEPT !.revs = @ \cup {n}, !.contents = @ \cup {n}, !.main = n]
  BY DEF RecordThere
<1>3. there \in Stores /\ there.revs = 1 .. there.main /\ there.main \in Nat /\ n \in Number /\ n \notin there.revs
  BY <1>2 DEF IInv, TypeOK, Stores, Number
<1>4. /\ there' \in Stores /\ there'.revs = there.revs \cup {n} /\ there'.main = n
      /\ there'.contents = there.contents \cup {n} /\ there'.standins = there.standins
  BY <1>2, <1>3 DEF Stores, Number
<1>5. there'.revs = 1 .. there'.main
  BY <1>2, <1>3, <1>4
<1>6. budget' \in [records : Nat, stops : Nat, leaves : Nat]
  BY DEF RecordThere, IInv, TypeOK
<1>7. there.contents \cup there.standins = there.revs /\ there.contents \cap there.standins = {}
  BY DEF IInv, TypeOK
<1>8. TypeOK'
  <2>1. Rest'
    BY <1>1 DEF IInv, TypeOK, Rest, Chains, reader
  <2>2. /\ here' = here /\ here \in Stores /\ here.main \in there.revs \cup {0}
        /\ here.revs \subseteq there.revs /\ here.standins \subseteq there.revs
    BY <1>1 DEF IInv, TypeOK, reader
  <2>. QED
    <3>1. Stored'
      <4>1. n \notin there.revs
        BY <1>3
      <4>2. there'.contents \cup there'.standins = there'.revs /\ there'.contents \cap there'.standins = {}
        BY <4>1, <1>4, <1>7
      <4>. QED
        BY <4>2, <2>2, <1>4, <1>5, <1>6 DEF Stored
    <3>. QED
      BY <2>1, <3>1 DEF TypeOK, Rest, Stored
<1>. QED
  BY <1>1, <1>4, <1>8, ThereGrows

LEMMA ForgetThereKeeps == IInv /\ ForgetThere => IInv'
<1>. SUFFICES ASSUME IInv, ForgetThere PROVE IInv'
  OBVIOUS
<1>1. UNCHANGED <<pages, present, manifest, publishing, reader, budget>>
  BY DEF ForgetThere
<1>2. PICK i \in there.contents : there' = [there EXCEPT !.contents = @ \ {i}, !.standins = @ \cup {i}]
  BY DEF ForgetThere
<1>3. there \in Stores /\ i \in Number
  BY <1>2 DEF IInv, TypeOK, Stores
<1>4. /\ there' \in Stores /\ there'.revs = there.revs /\ there'.main = there.main
      /\ there'.contents = there.contents \ {i} /\ there'.standins = there.standins \cup {i}
  BY <1>2, <1>3 DEF Stores
<1>5. /\ there.contents \cup there.standins = there.revs /\ there.contents \cap there.standins = {}
      /\ there.revs = 1 .. there.main /\ budget' \in [records : Nat, stops : Nat, leaves : Nat]
  BY <1>1 DEF IInv, TypeOK
<1>6. TypeOK'
  <2>1. Rest'
    BY <1>1 DEF IInv, TypeOK, Rest, Chains, reader
  <2>2. /\ here' = here /\ here \in Stores /\ here.main \in there.revs \cup {0}
        /\ here.revs \subseteq there.revs /\ here.standins \subseteq there.revs
    BY <1>1 DEF IInv, TypeOK, reader
  <2>3. there'.contents \cup there'.standins = there'.revs /\ there'.contents \cap there'.standins = {}
    BY <1>4, <1>5
  <2>. QED
    <3>1. Stored'
      BY <2>2, <2>3, <1>4, <1>5 DEF Stored
    <3>. QED
      BY <2>1, <3>1 DEF TypeOK, Rest, Stored
<1>. QED
  BY <1>1, <1>4, <1>6, ThereGrows

LEMMA WritePageKeeps == IInv /\ WritePage => IInv'
<1>. SUFFICES ASSUME IInv, WritePage PROVE IInv'
  OBVIOUS
<1>. DEFINE n == Len(pages) + 1
            L == Composed(manifest)
            O == Offer(there)
<1>0. /\ UNCHANGED <<there, manifest, here, memory, fetch, evicting, away, budget>>
      /\ present' = present \cup {n} /\ publishing.step = "idle" /\ publishing'.step = "manifest"
      /\ publishing' = [step |-> "manifest", chain |-> publishing'.chain]
  BY DEF WritePage, reader
<1>1. /\ pages \in Seq(Page) /\ manifest \in Seq(1 .. Len(pages)) /\ there \in Stores
      /\ Elements(manifest) \subseteq present /\ present \subseteq 1 .. Len(pages)
      /\ memory.chain \in Seq(1 .. Len(pages)) /\ fetch.chain \in Seq(1 .. Len(pages)) /\ n \in Nat \ {0}
  BY DEF IInv, TypeOK, Page, Chains
<1>2. L \in SUBSET Entries /\ L = Compose(pages, manifest)
  BY <1>1, ComposeTyped DEF Composed
<1>3. /\ O \in SUBSET Entries /\ Of("content", O) = there.contents /\ Of("standin", O) = there.standins
      /\ Of("revision", O) = there.revs /\ Of("name", O) = {there.main} \ {0}
  BY <1>1, OfOffer
<1>4. Stands(L)
  BY DEF IInv, PublishedInOrder
<1>5. /\ there.contents \cup there.standins = there.revs /\ there.contents \cap there.standins = {}
      /\ there.revs = 1 .. there.main /\ there.main \in Nat
  BY DEF IInv, TypeOK, Stores
<1>. HIDE DEF L, O
<1>6. Of("name", O) \subseteq there.revs
  BY <1>3, <1>5
<1>7. Stands(O) /\ Later(L, O)
  BY <1>3, <1>4, <1>5 DEF Stands, Later
<1>8. PICK p \in Page :
        /\ pages' = Append(pages, p)
        /\ Of("revision", p.added) \subseteq Of("content", p.added) \cup Of("standin", p.added)
        /\ Of("content", p.gone) \subseteq Of("standin", p.added)
        /\ Of("revision", p.gone) = {} /\ Of("standin", p.gone) = {}
        /\ Of("name", p.added) \subseteq there.revs
        /\ publishing'.chain \in Seq(1 .. n) /\ publishing'.chain # <<>>
        /\ Elements(publishing'.chain) \subseteq present'
        /\ manifest # <<>> => manifest[1] <= publishing'.chain[1]
        /\ Compose(pages', publishing'.chain) = O
  <2>1. CASE manifest # <<>> /\ pages' = Append(pages, Between(L, O)) /\ publishing'.chain = Append(manifest, n)
    <3>. DEFINE p == Between(L, O)
    <3>1. p \in Page /\ p.added = O \ L /\ p.gone = L \ O
      BY <1>2, <1>3 DEF Between, Page
    <3>2. \A k \in Kinds : Of(k, p.added) = Of(k, O) \ Of(k, L) /\ Of(k, p.gone) = Of(k, L) \ Of(k, O)
      BY <1>2, <1>3, <3>1, OfDifference
    <3>3. Compose(pages', publishing'.chain) = (L \ p.gone) \cup p.added
      <4>. HIDE DEF p
      <4>1. Compose(Append(pages, p), Append(manifest, Len(pages) + 1)) = (Compose(pages, manifest) \ p.gone) \cup p.added
        BY <3>1, <1>1, ComposeNext
      <4>. QED
        BY <2>1, <4>1, <1>2 DEF p
    <3>4. Compose(pages', publishing'.chain) = O
      BY <3>1, <3>3
    <3>. HIDE DEF p
    <3>5. /\ Of("revision", p.added) \subseteq Of("content", p.added) \cup Of("standin", p.added)
          /\ Of("content", p.gone) \subseteq Of("standin", p.added)
          /\ Of("revision", p.gone) = {} /\ Of("standin", p.gone) = {}
          /\ Of("name", p.added) \subseteq there.revs
      BY <3>2, <1>3, <1>4, <1>5, <1>6 DEF Kinds, Stands
    <3>6. /\ publishing'.chain \in Seq(1 .. n) /\ publishing'.chain # <<>>
          /\ Elements(publishing'.chain) = Elements(manifest) \cup {n}
          /\ publishing'.chain[1] = manifest[1] /\ manifest[1] \in 1 .. Len(pages)
      <4>. DEFINE c == publishing'.chain
      <4>1. c = Append(manifest, n) /\ manifest # <<>>
        BY <2>1
      <4>. HIDE DEF c
      <4>2. /\ c \in Seq(1 .. n) /\ Len(c) = Len(manifest) + 1 /\ c[Len(manifest) + 1] = n
            /\ Len(manifest) \in Nat \ {0} /\ manifest[1] \in 1 .. Len(pages)
        BY <4>1, <1>1
      <4>3. \A i \in 1 .. Len(manifest) : c[i] = manifest[i]
        BY <4>1, <1>1
      <4>4. Elements(c) = Elements(manifest) \cup {n}
        <5>1. DOMAIN c = DOMAIN manifest \cup {Len(manifest) + 1} /\ DOMAIN manifest = 1 .. Len(manifest)
          BY <4>2, <1>1
        <5>. QED
          BY <5>1, <4>2, <4>3 DEF Elements
      <4>5. c # <<>> /\ c[1] = manifest[1]
        BY <4>2, <4>3
      <4>. QED
        BY <4>2, <4>4, <4>5 DEF c
    <3>7. Elements(publishing'.chain) \subseteq present' /\ manifest[1] <= publishing'.chain[1]
      BY <3>6, <1>0, <1>1
    <3>. QED
      BY <2>1, <3>1, <3>4, <3>5, <3>6, <3>7 DEF p
  <2>2. CASE pages' = Append(pages, [added |-> O, gone |-> {}]) /\ publishing'.chain = <<n>>
    <3>. DEFINE p == [added |-> O, gone |-> {}]
    <3>1. p \in Page /\ p.added = O /\ p.gone = {}
      BY <1>3 DEF Page
    <3>2. Compose(pages', publishing'.chain) = O
      BY <2>2, <3>1, <1>1, ComposeFirst
    <3>3. \A k : Of(k, p.gone) = {}
      BY <3>1, OfNone
    <3>. HIDE DEF p
    <3>4. /\ Of("revision", p.added) \subseteq Of("content", p.added) \cup Of("standin", p.added)
          /\ Of("content", p.gone) \subseteq Of("standin", p.added)
          /\ Of("revision", p.gone) = {} /\ Of("standin", p.gone) = {}
          /\ Of("name", p.added) \subseteq there.revs
      BY <3>1, <3>3, <1>3, <1>5, <1>6
    <3>5. /\ publishing'.chain \in Seq(1 .. n) /\ publishing'.chain # <<>>
          /\ Elements(publishing'.chain) = {n} /\ publishing'.chain[1] = n
          /\ manifest # <<>> => manifest[1] \in 1 .. Len(pages)
      BY <2>2, <1>1 DEF Elements
    <3>6. Elements(publishing'.chain) \subseteq present' /\ (manifest # <<>> => manifest[1] <= publishing'.chain[1])
      BY <3>5, <1>0, <1>1
    <3>. QED
      BY <2>2, <3>1, <3>2, <3>4, <3>5, <3>6 DEF p
  <2>. QED
    BY <2>1, <2>2 DEF WritePage, L, O
<1>9. pages' \in Seq(Page) /\ Len(pages') = n /\ DOMAIN pages' = DOMAIN pages \cup {n}
       /\ (\A m \in DOMAIN pages : pages'[m] = pages[m]) /\ pages'[n] = p
  <2>1. pages' = Append(pages, p) /\ pages \in Seq(Page) /\ p \in Page
    BY <1>1, <1>8
  <2>2. DOMAIN pages = 1 .. Len(pages) /\ Len(pages) \in Nat
    BY <2>1
  <2>3. Append(pages, p) \in Seq(Page) /\ Len(Append(pages, p)) = n /\ DOMAIN Append(pages, p) = 1 .. n
    BY <2>1
  <2>4. (\A m \in 1 .. Len(pages) : Append(pages, p)[m] = pages[m]) /\ Append(pages, p)[n] = p
    BY <2>1
  <2>5. 1 .. n = (1 .. Len(pages)) \cup {n}
    BY <2>2
  <2>. QED
    BY <2>1, <2>2, <2>3, <2>4, <2>5
<1>10. \A c \in Seq(1 .. Len(pages)) : Compose(pages', c) = Compose(pages, c)
  BY <1>1, <1>8, ComposeKept
<1>11. \A c \in Seq(1 .. Len(pages)) : c \in Seq(1 .. n)
  BY <1>1
<1>12. TypeOK'
  <2>1. publishing' \in [step : {"idle", "manifest", "sweep"}, chain : Seq(1 .. n)]
    BY <1>0, <1>8
  <2>2. memory' \in [chain : Seq(1 .. n), heads : SUBSET Number, left : SUBSET Number, earned : BOOLEAN]
    BY <1>0, <1>1, <1>11 DEF IInv, TypeOK
  <2>3. fetch' \in [step : {"idle", "pages", "take", "left", "remember", "move"}, chain : Seq(1 .. n), applied : Nat,
                tries : 0 .. Tries, leave : BOOLEAN, wanted : SUBSET Entries, destroys : SUBSET Number,
                left : SUBSET Number, leaving : SUBSET Number, contested : SUBSET Number]
    BY <1>0, <1>1, <1>11 DEF IInv, TypeOK
  <2>4. manifest' \in Seq(1 .. n) /\ Elements(manifest)' \subseteq present' /\ present' \subseteq 1 .. n
    BY <1>0, <1>1, <1>11 DEF Elements
  <2>. QED
    BY <2>1, <2>2, <2>3, <2>4, <1>0, <1>9 DEF IInv, TypeOK, Page, Chains
<1>13. PagesAreWhole'
  BY <1>0, <1>8, <1>9 DEF IInv, PagesAreWhole
<1>14. PublishedInOrder'
  <2>1. Composed(manifest)' = L /\ Composed(publishing.chain)' = O
    BY <1>0, <1>1, <1>2, <1>8, <1>10 DEF Composed
  <2>2. Stands(Composed(manifest))' /\ Stands(Composed(publishing.chain))'
        /\ Later(Composed(manifest), Composed(publishing.chain))'
    BY <2>1, <1>0, <1>4, <1>7 DEF Stands, Later
  <2>. QED
    BY <2>2, <1>0, <1>8 DEF PublishedInOrder, Elements
<1>15. Composed(memory.chain)' = Composed(memory.chain) /\ Composed(fetch.chain)' = Composed(fetch.chain)
       /\ Composed(manifest)' = Composed(manifest)
  BY <1>0, <1>1, <1>10 DEF Composed
<1>16. ReadEarlier'
  BY <1>15, <1>0 DEF IInv, ReadEarlier, Older, Later
<1>17. OneAtATime' /\ ForgottenApart' /\ ContentIsAsked' /\ RevisionsFindTheirContent'
  BY <1>0 DEF IInv, OneAtATime, ForgottenApart, ContentIsAsked, RevisionsFindTheirContent
<1>18. MemoryHolds' /\ FetchHolds'
  BY <1>15, <1>0 DEF IInv, MemoryHolds, FetchHolds, Current
<1>. QED
  BY <1>12, <1>13, <1>14, <1>16, <1>17, <1>18 DEF IInv

\* What the new manifest has withdrawn since, no memory is asked for; and a memory
\* of another base is not one of the new.
LEMMA NewManifest ==
  ASSUME IInv, NEW chain \in Chains, Older(chain), NEW next \in Chains,
         next # <<>>, manifest # <<>> => manifest[1] <= next[1],
         Stands(Composed(next)), Later(Composed(manifest), Composed(next))
  PROVE  /\ Later(Composed(chain), Composed(next))
         /\ Of("content", Composed(chain)) \subseteq Of("revision", Composed(next))
         /\ chain # <<>> => chain[1] <= next[1]
         /\ chain # <<>> /\ chain[1] = next[1] => manifest # <<>> /\ chain[1] = manifest[1]
         /\ Of("content", Composed(chain)) \cap Of("content", Composed(next)) \subseteq Current(chain)
<1>1. /\ Later(Composed(chain), Composed(manifest))
      /\ Of("content", Composed(chain)) \subseteq Of("revision", Composed(manifest))
      /\ chain # <<>> => manifest # <<>> /\ chain[1] <= manifest[1]
  BY DEF Older
<1>2. Stands(Composed(manifest)) /\ manifest \in Chains
  BY DEF IInv, PublishedInOrder, TypeOK
<1>3. /\ chain # <<>> => chain[1] \in Nat
      /\ manifest # <<>> => manifest[1] \in Nat
      /\ next[1] \in Nat
  <2>1. Len(pages) \in Nat
    BY DEF IInv, TypeOK
  <2>2. \A c \in Seq(1 .. Len(pages)) : c # <<>> => c[1] \in 1 .. Len(pages)
    OBVIOUS
  <2>3. \A c \in Chains : c # <<>> => c[1] \in Nat
    BY <2>1, <2>2 DEF Chains
  <2>. QED
    BY <2>3, <1>2
<1>4. Later(Composed(chain), Composed(next)) /\ Of("content", Composed(chain)) \subseteq Of("revision", Composed(next))
  BY <1>1 DEF Later
<1>5. Of("content", Composed(chain)) \cap Of("content", Composed(next)) \subseteq Current(chain)
  BY <1>1, <1>2 DEF Current, Stands, Later
<1>. QED
  BY <1>1, <1>3, <1>4, <1>5

LEMMA WriteManifestKeeps == IInv /\ WriteManifest => IInv'
<1>. SUFFICES ASSUME IInv, WriteManifest PROVE IInv'
  OBVIOUS
<1>1. /\ UNCHANGED <<there, pages, present, here, memory, fetch, evicting, away, budget>>
      /\ publishing.step = "manifest" /\ manifest' = publishing.chain
      /\ publishing' = [publishing EXCEPT !.step = "sweep"]
  BY DEF WriteManifest, reader
<1>2. /\ manifest' \in Chains /\ manifest' # <<>> /\ Elements(manifest') \subseteq present
      /\ manifest # <<>> => manifest[1] <= manifest'[1]
      /\ Stands(Composed(publishing.chain)) /\ Later(Composed(manifest), Composed(publishing.chain))
      /\ memory.chain \in Chains /\ fetch.chain \in Chains /\ Older(memory.chain) /\ Older(fetch.chain)
  BY <1>1 DEF IInv, PublishedInOrder, ReadEarlier, TypeOK
<1>3. publishing'.step = "sweep" /\ publishing' \in [step : {"idle", "manifest", "sweep"}, chain : Chains]
  BY <1>1 DEF IInv, TypeOK
<1>4. TypeOK'
  BY <1>1, <1>2, <1>3 DEF IInv, TypeOK, Chains, Elements
<1>5. PagesAreWhole'
  BY <1>1 DEF IInv, PagesAreWhole
<1>6. \A c : Compose(pages', c) = Composed(c)
  BY <1>1 DEF Composed
<1>7. PublishedInOrder'
  BY <1>1, <1>2, <1>3 DEF PublishedInOrder, Stands, Composed
<1>8. ASSUME NEW c \in Chains, Older(c)
      PROVE  /\ Later(Composed(c), Composed(publishing.chain))
             /\ Of("content", Composed(c)) \subseteq Of("revision", Composed(publishing.chain))
             /\ c # <<>> => c[1] <= publishing.chain[1]
             /\ c # <<>> /\ c[1] = publishing.chain[1] => manifest # <<>> /\ c[1] = manifest[1]
             /\ Of("content", Composed(c)) \cap Of("content", Composed(publishing.chain)) \subseteq Current(c)
  BY <1>1, <1>2, <1>8, NewManifest
<1>9. ReadEarlier'
  BY <1>1, <1>2, <1>8 DEF ReadEarlier, Older, Later, Composed
<1>10. OneAtATime' /\ ForgottenApart' /\ ContentIsAsked' /\ RevisionsFindTheirContent'
  BY <1>1 DEF IInv, OneAtATime, ForgottenApart, ContentIsAsked, RevisionsFindTheirContent
<1>11. /\ Current(memory.chain)' \subseteq Current(memory.chain)
       /\ Current(fetch.chain)' \subseteq Current(fetch.chain)
  BY <1>1, <1>2, <1>6, <1>8 DEF Current, Composed
<1>12. MemoryHolds'
  <2>. SUFFICES ASSUME memory.earned, memory.chain # <<>> PROVE MemoryHolds'
    BY <1>1 DEF MemoryHolds
  <2>1. memory.chain[1] = manifest'[1] => memory.chain[1] = manifest[1]
    BY <1>1, <1>2, <1>8
  <2>. QED
    BY <2>1, <1>1, <1>6, <1>11 DEF IInv, MemoryHolds, Composed
<1>13. FetchHolds'
  <2>. SUFFICES ASSUME fetch.step \in {"take", "left", "remember"} PROVE FetchHolds'
    BY <1>1 DEF FetchHolds
  <2>1. fetch.chain[1] = manifest'[1] => fetch.chain[1] = manifest[1]
    BY <1>1, <1>2, <1>8 DEF IInv, OneAtATime
  <2>. QED
    BY <2>1, <1>1, <1>6, <1>11 DEF IInv, FetchHolds, Composed
<1>. QED
  BY <1>4, <1>5, <1>7, <1>9, <1>10, <1>12, <1>13 DEF IInv

\* What leaves the pages and the manifest alone leaves the rest as it was.
LEMMA PublishingResets ==
  ASSUME IInv, TypeOK', UNCHANGED <<there, pages, manifest, reader>>, publishing'.step # "manifest"
  PROVE  IInv'
<1>1. UNCHANGED <<here, memory, fetch, evicting, away>>
  BY DEF reader
<1>2. PagesAreWhole'
  BY DEF IInv, PagesAreWhole
<1>3. PublishedInOrder'
  BY DEF IInv, PublishedInOrder, Stands, Later, Composed
<1>4. ReadEarlier' /\ OneAtATime'
  BY <1>1 DEF IInv, ReadEarlier, Older, Later, OneAtATime, Composed
<1>5. ForgottenApart' /\ ContentIsAsked' /\ RevisionsFindTheirContent'
  BY <1>1 DEF IInv, ForgottenApart, ContentIsAsked, RevisionsFindTheirContent
<1>6. MemoryHolds' /\ FetchHolds'
  BY <1>1 DEF IInv, MemoryHolds, FetchHolds, Current, Composed
<1>. QED
  BY <1>2, <1>3, <1>4, <1>5, <1>6 DEF IInv

LEMMA SweepKeeps == IInv /\ Sweep => IInv'
<1>. SUFFICES ASSUME IInv, Sweep PROVE IInv'
  OBVIOUS
<1>1. /\ UNCHANGED <<there, pages, manifest, reader, budget>> /\ present' = present \cap Elements(manifest)
      /\ publishing' = [step |-> "idle", chain |-> <<>>]
  BY DEF Sweep, Kept
<1>2. publishing' \in [step : {"idle", "manifest", "sweep"}, chain : Chains] /\ publishing'.step = "idle"
  BY <1>1 DEF Chains
<1>3. TypeOK'
  BY <1>1, <1>2 DEF IInv, TypeOK, Chains, Elements, reader
<1>. QED
  BY <1>1, <1>2, <1>3, PublishingResets
-----------------------------------------------------------------------------
(* The reader's steps.                                                     *)
Memories == [chain : Chains, heads : SUBSET Number, left : SUBSET Number, earned : BOOLEAN]
Fetches ==
  [step : {"idle", "pages", "take", "left", "remember", "move"}, chain : Chains, applied : Nat,
   tries : 0 .. Tries, leave : BOOLEAN, wanted : SUBSET Entries, destroys : SUBSET Number,
   left : SUBSET Number, leaving : SUBSET Number, contested : SUBSET Number]
Counted == [records : Nat, stops : Nat, leaves : Nat]

LEMMA ReaderTyped ==
  ASSUME IInv, UNCHANGED world,
         memory' \in Memories, fetch' \in Fetches, evicting' \in SUBSET Number, away' \in SUBSET Number,
         budget' \in Counted, here' \in Stores,
         here'.revs \subseteq there.revs, here'.standins \subseteq there.revs, here'.main \in there.revs \cup {0}
  PROVE  /\ TypeOK' /\ PagesAreWhole' /\ PublishedInOrder'
         /\ \A c : Composed(c)' = Compose(pages, c')
<1>1. UNCHANGED <<there, pages, present, manifest, publishing>>
  BY DEF world
<1>2. Rest /\ Stored
  BY DEF IInv, TypeOK, Rest, Stored
<1>3. Rest'
  BY <1>1, <1>2 DEF Rest, Chains, Memories, Fetches, Elements
<1>4. Stored'
  BY <1>1, <1>2 DEF Stored, Counted
<1>5. TypeOK'
  BY <1>3, <1>4 DEF TypeOK, Rest, Stored
<1>6. PagesAreWhole'
  BY <1>1 DEF IInv, PagesAreWhole
<1>7. PublishedInOrder'
  BY <1>1 DEF IInv, PublishedInOrder, Stands, Later, Composed
<1>8. \A c : Composed(c)' = Compose(pages, c')
  BY <1>1 DEF Composed
<1>. QED
  BY <1>5, <1>6, <1>7, <1>8

\* A fetch that asks for nothing yet: begun, begun again, over or stopped.
Fresh(f) == f.wanted = {} /\ f.destroys = {} /\ f.left = {} /\ f.contested = {}
LEMMA ResetKeeps ==
  ASSUME IInv, UNCHANGED <<world, memory, away>>,
         here' \in Stores, here'.revs = here.revs, here'.standins = here.standins,
         here.contents \subseteq here'.contents, here'.contents \subseteq there.revs,
         here'.main \in there.revs \cup {0}, evicting' \subseteq evicting, budget' \in Counted,
         fetch' \in Fetches, Fresh(fetch'),
         \/ fetch'.step = "idle" /\ fetch'.chain = <<>>
         \/ fetch'.step = "pages" /\ fetch'.chain = manifest /\ manifest # <<>> /\ evicting' = {}
  PROVE  IInv'
<1>1. UNCHANGED <<there, pages, present, manifest, publishing>>
  BY DEF world
<1>2. /\ here.revs \subseteq there.revs /\ here.standins \subseteq there.revs
      /\ evicting \in SUBSET Number /\ away \in SUBSET Number /\ memory \in Memories
  BY DEF IInv, TypeOK, Memories
<1>3. TypeOK' /\ PagesAreWhole' /\ PublishedInOrder'
  BY <1>2, ReaderTyped
<1>4. ReadEarlier'
  <2>1. Older(<<>>) /\ Older(manifest) /\ Older(memory.chain)
    BY OlderNone, OlderNow DEF IInv, ReadEarlier
  <2>2. Older(memory.chain)' /\ (Older(fetch'.chain) => Older(fetch.chain)')
    BY <2>1, <1>1 DEF Older, Later, Composed
  <2>. QED
    BY <2>1, <2>2 DEF ReadEarlier
<1>5. OneAtATime'
  BY <1>1 DEF IInv, OneAtATime, Fresh
<1>6. Of("content", fetch'.wanted) = {} /\ Of("standin", fetch'.wanted) = {} /\ Of("revision", fetch'.wanted) = {}
  BY OfNone DEF Fresh
<1>7. ForgottenApart'
  BY <1>6 DEF ForgottenApart, Fresh
<1>8. ContentIsAsked' /\ RevisionsFindTheirContent'
  BY <1>6 DEF IInv, ContentIsAsked, RevisionsFindTheirContent
<1>9. MemoryHolds'
  BY <1>1 DEF IInv, MemoryHolds, Current, Composed
<1>10. FetchHolds'
  BY DEF FetchHolds
<1>. QED
  BY <1>3, <1>4, <1>5, <1>7, <1>8, <1>9, <1>10 DEF IInv

LEMMA NothingIs == Nothing \in Fetches /\ Fresh(Nothing) /\ Nothing.step = "idle" /\ Nothing.chain = <<>>
<1>1. <<>> \in Chains /\ Tries \in 0 .. Tries
  BY TriesAssumption DEF Chains
<1>. QED
  BY <1>1 DEF Nothing, Fetches, Fresh

\* What a step that leaves a part of the state alone needs to know of it.
LEMMA FromHere ==
  ASSUME IInv
  PROVE  /\ here \in Stores /\ here.contents \subseteq there.revs /\ here.main \in there.revs \cup {0}
         /\ here.revs \subseteq there.revs /\ here.standins \subseteq there.revs
         /\ there.contents \subseteq there.revs /\ there.standins \subseteq there.revs
         /\ budget \in Counted /\ fetch \in Fetches /\ memory \in Memories /\ manifest \in Chains
         /\ evicting \in SUBSET Number /\ away \in SUBSET Number /\ there \in Stores
BY DEF IInv, TypeOK, OneAtATime, Counted, Fetches, Memories

LEMMA BeginKeeps == IInv /\ Begin => IInv'
<1>. SUFFICES ASSUME IInv, Begin PROVE IInv'
  OBVIOUS
<1>1. PICK leave \in BOOLEAN :
        /\ leave => budget.leaves > 0
        /\ fetch' = [Nothing EXCEPT !.step = "pages", !.chain = manifest, !.leave = leave]
        /\ budget' = [budget EXCEPT !.leaves = @ - (IF leave THEN 1 ELSE 0)]
  BY DEF Begin
<1>2. manifest # <<>> /\ evicting = {} /\ UNCHANGED <<world, here, memory, evicting, away>>
  BY DEF Begin, Idle
<1>3. budget' \in Counted
  BY <1>1, FromHere DEF Counted
<1>4. fetch' \in Fetches /\ Fresh(fetch') /\ fetch'.step = "pages" /\ fetch'.chain = manifest
  BY <1>1, NothingIs, FromHere DEF Fetches, Fresh, Nothing
<1>. QED
  BY <1>2, <1>3, <1>4, FromHere, ResetKeeps

\* A fetch that reads the manifest again, or is given up.
LEMMA AgainKeeps ==
  ASSUME IInv, Again, fetch.step # "idle", UNCHANGED <<world, here, memory, evicting, away, budget>>
  PROVE  IInv'
<1>1. evicting = {} /\ manifest # <<>>
  BY DEF IInv, OneAtATime, ReadEarlier, Older
<1>2. CASE fetch.tries = 0
  BY <1>2, NothingIs, FromHere, ResetKeeps DEF Again
<1>3. CASE fetch.tries # 0
  <2>1. fetch' = [Nothing EXCEPT !.step = "pages", !.chain = manifest, !.leave = fetch.leave, !.tries = fetch.tries - 1]
    BY <1>3 DEF Again
  <2>2. fetch.leave \in BOOLEAN /\ fetch.tries - 1 \in 0 .. Tries
    BY <1>3, FromHere, TriesAssumption DEF Fetches
  <2>3. fetch' \in Fetches /\ Fresh(fetch') /\ fetch'.step = "pages" /\ fetch'.chain = manifest
    BY <2>1, <2>2, NothingIs, FromHere DEF Fetches, Fresh, Nothing
  <2>. QED
    BY <2>3, <1>1, FromHere, ResetKeeps
<1>. QED
  BY <1>2, <1>3

LEMMA ReadPagesKeeps == IInv /\ ReadPages => IInv'
<1>. SUFFICES ASSUME IInv, ReadPages PROVE IInv'
  OBVIOUS
<1>. DEFINE k == IF Believed(fetch.chain) THEN Len(memory.chain) ELSE 0
            unread == SubSeq(fetch.chain, k + 1, Len(fetch.chain))
            U == Composed(unread)
            before == IF k = 0 THEN {} ELSE memory.left
            plan == Wanted(U, before, fetch.leave)
<1>1. /\ fetch.step = "pages" /\ evicting = {} /\ fetch.chain # <<>>
      /\ UNCHANGED <<world, here, memory, evicting, budget>>
  BY DEF ReadPages, IInv, OneAtATime
<1>2. CASE Again /\ UNCHANGED away
  BY <1>1, <1>2, AgainKeeps
<1>3. CASE /\ fetch' = [fetch EXCEPT !.step = "take", !.applied = k, !.wanted = plan.wanted, !.destroys = plan.destroys,
                                     !.left = plan.left, !.leaving = plan.leaving, !.contested = plan.contested]
           /\ away' = away \cup plan.leaving
  <2>1. /\ fetch \in Fetches /\ memory \in Memories /\ memory.chain \in Chains /\ fetch.chain \in Chains
        /\ fetch.leave \in BOOLEAN /\ before \in SUBSET Number
    BY FromHere DEF Fetches, Memories
  <2>2. k \in 0 .. Len(fetch.chain)
    BY <2>1 DEF Believed, Begins, Chains
  <2>. HIDE DEF k
  <2>3. /\ SubSeq(fetch.chain, 1, k) \in Chains /\ unread \in Chains
        /\ Composed(fetch.chain) \subseteq Composed(SubSeq(fetch.chain, 1, k)) \cup U
    <3>1. pages \in Seq(Page) /\ fetch.chain \in Seq(1 .. Len(pages))
      BY <2>1 DEF IInv, TypeOK, Page, Chains
    <3>. QED
      BY <3>1, <2>2, ComposeParts DEF Composed, Chains
  <2>4. k = 0 => unread = fetch.chain
    BY <2>1 DEF Chains
  <2>5. k # 0 => /\ memory.chain # <<>> /\ SubSeq(fetch.chain, 1, k) = memory.chain
                 /\ fetch.chain[1] = memory.chain[1]
    <3>. SUFFICES ASSUME k # 0
                  PROVE  /\ memory.chain # <<>> /\ SubSeq(fetch.chain, 1, k) = memory.chain
                         /\ fetch.chain[1] = memory.chain[1]
      OBVIOUS
    <3>1. memory.chain # <<>> /\ k = Len(memory.chain) /\ SubSeq(fetch.chain, 1, k) = memory.chain
      BY DEF k, Believed, Begins
    <3>2. SubSeq(fetch.chain, 1, k)[1] = fetch.chain[1]
      BY <2>1, <2>2 DEF Chains
    <3>. QED
      BY <3>1, <3>2
  <2>. HIDE DEF unread, before
  <2>6. U \in SUBSET Entries /\ Of("revision", U) \subseteq Of("content", U) \cup Of("standin", U)
        /\ Of("name", U) \subseteq there.revs
    BY <2>3, ComposedTyped, ListingWhole DEF IInv
  <2>. HIDE DEF U
  <2>20. PICK leave \in BOOLEAN : leave = fetch.leave
    BY <2>1
  <2>7. /\ plan.wanted \in SUBSET Entries /\ plan.destroys \in SUBSET Number /\ plan.left \in SUBSET Number
        /\ plan.leaving \in SUBSET Number /\ plan.contested \in SUBSET Number
        /\ \A i : i \in Of("content", plan.wanted) <=> ~leave /\ i \in Missing(U)
        /\ \A i : i \in Of("standin", plan.wanted) <=> i \in Of("standin", U) /\ i \notin here.standins
        /\ \A i : i \in Of("revision", plan.wanted) <=> i \in Of("revision", U) /\ i \notin here.revs
        /\ \A i : i \in plan.destroys <=> i \in here.contents /\ i \in here.standins \cup Of("standin", U)
        /\ \A i : i \in plan.left <=> ~leave /\ i \in Left(U, before)
        /\ \A i : i \in plan.leaving <=> leave /\ i \in Missing(U) \cup Left(U, before)
        /\ plan.contested \subseteq Of("name", U)
    <3>1. U \in SUBSET Entries /\ before \in SUBSET Number /\ TypeOK /\ plan = Wanted(U, before, leave)
      BY <2>1, <2>6, <2>20 DEF IInv
    <3>. HIDE DEF plan
    <3>2. plan.wanted \in SUBSET Entries /\ plan.destroys \in SUBSET Number /\ plan.left \in SUBSET Number
      BY <3>1, WantedParts
    <3>3. plan.leaving \in SUBSET Number /\ plan.contested \in SUBSET Number
      BY <3>1, WantedParts
    <3>4. \A i : i \in Of("content", plan.wanted) <=> ~leave /\ i \in Missing(U)
      BY <3>1, WantedContent
    <3>5. \A i : i \in Of("standin", plan.wanted) <=> i \in Of("standin", U) /\ i \notin here.standins
      BY <3>1, WantedParts
    <3>6. \A i : i \in Of("revision", plan.wanted) <=> i \in Of("revision", U) /\ i \notin here.revs
      BY <3>1, WantedParts
    <3>7. \A i : i \in plan.destroys <=> i \in here.contents /\ i \in here.standins \cup Of("standin", U)
      BY <3>1, WantedParts
    <3>8. \A i : i \in plan.left <=> ~leave /\ i \in Left(U, before)
      BY <3>1, WantedParts
    <3>9. \A i : i \in plan.leaving <=> leave /\ i \in Missing(U) \cup Left(U, before)
      BY <3>1, WantedParts
    <3>10. plan.contested \subseteq Of("name", U)
      BY <3>1, WantedParts
    <3>. QED
      BY <3>2, <3>3, <3>4, <3>5, <3>6, <3>7, <3>8, <3>9, <3>10
  <2>. HIDE DEF plan
  <2>8. /\ fetch'.step = "take" /\ fetch'.applied = k /\ fetch'.wanted = plan.wanted /\ fetch'.destroys = plan.destroys
        /\ fetch'.left = plan.left /\ fetch'.leaving = plan.leaving /\ fetch'.contested = plan.contested
        /\ fetch'.chain = fetch.chain
    BY <1>3, <2>1 DEF Fetches
  <2>9. fetch' \in Fetches /\ away' \in SUBSET Number
    <3>1. k \in Nat
      BY <2>1, <2>2 DEF Chains
    <3>. QED
      BY <1>3, <2>1, <3>1, <2>7, FromHere DEF Fetches
  <2>10. /\ TypeOK' /\ PagesAreWhole' /\ PublishedInOrder'
         /\ UNCHANGED <<here, memory, evicting, there, pages, manifest>>
    BY <1>1, <2>9, FromHere, ReaderTyped DEF world
  <2>11. ReadEarlier'
    BY <2>8, <2>10 DEF IInv, ReadEarlier, Older, Later, Composed
  <2>12. OneAtATime'
    BY <1>1, <1>3, <2>6, <2>7, <2>8, <2>10 DEF IInv, OneAtATime
  <2>13. ForgottenApart'
    BY <2>7, <2>8, <2>10 DEF ForgottenApart, Missing, Left
  <2>14. Missing(U) \subseteq Of("content", plan.wanted) \cup plan.leaving
         /\ Left(U, before) \subseteq plan.left \cup plan.leaving
    BY <2>1, <2>7
  <2>15. \A i \in Of("content", U) : i \in Missing(U) \/ i \in here.contents \/ i \in here.standins \/ i \in Of("standin", plan.wanted)
    BY <2>7 DEF Missing
  <2>16. ContentIsAsked'
    BY <2>6, <2>7, <2>8, <2>10, <2>14, <2>15, <1>3 DEF ContentIsAsked
  <2>17. RevisionsFindTheirContent'
    BY <2>10, <1>3 DEF IInv, RevisionsFindTheirContent
  <2>18. MemoryHolds'
    BY <2>10 DEF IInv, MemoryHolds, Current, Composed
  <2>19. FetchHolds'
    <3>. SUFFICES ASSUME memory.earned \/ k = 0
                  PROVE  /\ Of("revision", Composed(fetch.chain)) \subseteq here.revs \cup Of("revision", plan.wanted)
                         /\ Of("standin", Composed(fetch.chain)) \subseteq here.standins \cup Of("standin", plan.wanted)
                         /\ fetch.chain[1] = manifest[1] =>
                              Current(fetch.chain) \subseteq here.contents \cup here.standins \cup plan.leaving
                                \cup Of("content", plan.wanted) \cup Of("standin", plan.wanted) \cup plan.left
      <4>1. Composed(fetch.chain)' = Composed(fetch.chain) /\ Current(fetch.chain)' = Current(fetch.chain)
        BY <2>8, <2>10 DEF Composed, Current
      <4>. QED
        BY <4>1, <2>8, <2>10 DEF FetchHolds
    <3>1. CASE k = 0
      <4>1. Composed(fetch.chain) = U
        BY <3>1, <2>4 DEF U
      <4>. QED
        BY <4>1, <2>7, <2>14, <2>15 DEF Current
    <3>2. CASE k # 0
      <4>. DEFINE M == Composed(memory.chain)
      <4>1. Composed(fetch.chain) \subseteq M \cup U /\ memory.chain # <<>> /\ fetch.chain[1] = memory.chain[1]
            /\ memory.earned
        BY <3>2, <2>3, <2>5
      <4>2. \A q \in Kinds : Of(q, Composed(fetch.chain)) \subseteq Of(q, M) \cup Of(q, U)
        BY <4>1, OfWithin
      <4>3. /\ Of("revision", M) \subseteq here.revs /\ Of("standin", M) \subseteq here.standins
            /\ memory.chain[1] = manifest[1] =>
                 Of("content", M) \cap Of("content", Composed(manifest)) \subseteq here.contents \cup here.standins \cup memory.left
        BY <4>1 DEF IInv, MemoryHolds, Current
      <4>. HIDE DEF M
      <4>4. Of("revision", Composed(fetch.chain)) \subseteq here.revs \cup Of("revision", plan.wanted)
            /\ Of("standin", Composed(fetch.chain)) \subseteq here.standins \cup Of("standin", plan.wanted)
        BY <4>2, <4>3, <2>7 DEF Kinds
      <4>5. before = memory.left
        BY <3>2 DEF before
      <4>6. ASSUME fetch.chain[1] = manifest[1], NEW i \in Current(fetch.chain)
            PROVE  i \in here.contents \cup here.standins \cup plan.leaving
                           \cup Of("content", plan.wanted) \cup Of("standin", plan.wanted) \cup plan.left
        <5>1. i \in Of("content", Composed(manifest)) /\ (i \in Of("content", M) \/ i \in Of("content", U))
          BY <4>2, <4>6 DEF Current, Kinds
        <5>2. CASE i \in Of("content", U)
          BY <5>2, <2>14, <2>15
        <5>3. CASE i \in Of("content", M)
          <6>1. i \in here.contents \cup here.standins \cup memory.left
            BY <5>1, <5>3, <4>1, <4>3, <4>6
          <6>2. ASSUME i \in memory.left, i \notin here.contents \cup here.standins, i \notin Of("standin", plan.wanted)
                PROVE  i \in Missing(U) \/ i \in Left(U, before)
            BY <6>2, <4>5, <2>7 DEF Missing, Left
          <6>. QED
            BY <6>1, <6>2, <2>14
        <5>. QED
          BY <5>1, <5>2, <5>3
      <4>. QED
        BY <4>4, <4>6
    <3>. QED
      BY <3>1, <3>2
  <2>. QED
    BY <2>10, <2>11, <2>12, <2>13, <2>16, <2>17, <2>18, <2>19 DEF IInv
<1>. QED
  BY <1>2, <1>3 DEF ReadPages

LEMMA ComplyKeeps == IInv /\ Comply => IInv'
<1>. SUFFICES ASSUME IInv, Comply PROVE IInv'
  OBVIOUS
<1>1. /\ fetch.step = "take" /\ \A e \in fetch.wanted : e.kind \in {"revision", "name"}
      /\ here' = [here EXCEPT !.contents = @ \ fetch.destroys]
      /\ UNCHANGED <<world, memory, fetch, evicting, away, budget>>
  BY DEF Comply
<1>2. /\ here' \in Stores /\ here'.revs = here.revs /\ here'.standins = here.standins /\ here'.main = here.main
      /\ here'.contents = here.contents \ fetch.destroys
  BY <1>1, FromHere DEF Stores
<1>3. Of("content", fetch.wanted) = {} /\ Of("standin", fetch.wanted) = {}
  BY <1>1 DEF Of
<1>4. fetch.destroys \subseteq here.standins
  BY <1>3 DEF IInv, ForgottenApart
<1>5. TypeOK' /\ PagesAreWhole' /\ PublishedInOrder' /\ UNCHANGED <<there, pages, manifest>>
  BY <1>1, <1>2, FromHere, ReaderTyped DEF world
<1>6. ReadEarlier' /\ OneAtATime' /\ ForgottenApart'
  BY <1>1, <1>2, <1>5 DEF IInv, ReadEarlier, Older, Later, OneAtATime, ForgottenApart, Composed
<1>7. ContentIsAsked' /\ RevisionsFindTheirContent'
  BY <1>1, <1>2, <1>4 DEF IInv, ContentIsAsked, RevisionsFindTheirContent
<1>8. MemoryHolds'
  BY <1>1, <1>2, <1>4, <1>5 DEF IInv, MemoryHolds, Current, Composed
<1>9. FetchHolds'
  BY <1>1, <1>2, <1>4, <1>5 DEF IInv, FetchHolds, Current, Composed
<1>. QED
  BY <1>5, <1>6, <1>7, <1>8, <1>9 DEF IInv

\* What is taken is added to the store, and no longer asked for.
LEMMA TakeOneKeeps ==
  ASSUME IInv, fetch.step = "take", NEW e \in fetch.wanted, First(e), e.kind \in {"revision", "name"} => Complied,
         e \in Offer(there), here' = Add(e), fetch' = [fetch EXCEPT !.wanted = @ \ {e}],
         UNCHANGED <<world, memory, evicting, away, budget>>
  PROVE  IInv'
<1>. DEFINE i == e.of
            W == fetch.wanted
<1>1. W \in SUBSET Entries /\ evicting = {} /\ e \in W /\ i = e.of
  BY FromHere DEF Fetches, IInv, OneAtATime
<1>2. /\ fetch' \in Fetches /\ fetch'.wanted = W \ {e} /\ fetch'.step = "take" /\ fetch'.chain = fetch.chain
      /\ fetch'.destroys = fetch.destroys /\ fetch'.left = fetch.left /\ fetch'.leaving = fetch.leaving
      /\ fetch'.contested = fetch.contested /\ fetch'.applied = fetch.applied
  BY FromHere DEF Fetches
<1>. HIDE DEF W, i
<1>3. /\ e.kind \in Kinds /\ i \in Number /\ i \in Of(e.kind, W)
      /\ \A k \in Kinds : Of(k, W \ {e}) = Of(k, W) \ (IF e.kind = k THEN {i} ELSE {})
  <2>1. "content" \in Kinds
    BY DEF Kinds
  <2>2. e.kind \in Kinds /\ i \in Number /\ i \in Of(e.kind, W)
    BY <2>1, <1>1, OfTaken
  <2>3. ASSUME NEW k \in Kinds
        PROVE  Of(k, W \ {e}) = Of(k, W) \ (IF e.kind = k THEN {i} ELSE {})
    BY <1>1, OfTaken
  <2>. QED
    BY <2>2, <2>3
<1>4. i \in Of(e.kind, Offer(there))
  BY DEF Of, i
<1>5. /\ e.kind = "content" => i \in there.contents
      /\ e.kind = "standin" => i \in there.standins
      /\ e.kind = "revision" => i \in there.revs
      /\ e.kind = "name" => i \in there.revs
  <2>1. there.main \in Nat /\ there.revs = 1 .. there.main
    BY DEF IInv, TypeOK, Stores
  <2>2. \A j \in {there.main} \ {0} : j \in there.revs
    BY <2>1
  <2>. QED
    BY <1>4, <2>2, FromHere, OfOffer
<1>6. /\ here' \in Stores
      /\ here'.contents = here.contents \cup (IF e.kind = "content" THEN {i} ELSE {})
      /\ here'.standins = here.standins \cup (IF e.kind = "standin" THEN {i} ELSE {})
      /\ here'.revs = here.revs \cup (IF e.kind = "revision" THEN {i} ELSE {})
      /\ here'.main = IF e.kind = "name" THEN i ELSE here.main
  <2>1. CASE e.kind = "content"
    <3>1. here' = [here EXCEPT !.contents = @ \cup {i}]
      BY <2>1 DEF Add, i
    <3>. QED
      BY <2>1, <3>1, <1>3, FromHere DEF Stores
  <2>2. CASE e.kind = "standin"
    <3>1. here' = [here EXCEPT !.standins = @ \cup {i}]
      BY <2>2 DEF Add, i
    <3>. QED
      BY <2>2, <3>1, <1>3, FromHere DEF Stores
  <2>3. CASE e.kind = "revision"
    <3>1. here' = [here EXCEPT !.revs = @ \cup {i}]
      BY <2>3 DEF Add, i
    <3>. QED
      BY <2>3, <3>1, <1>3, FromHere DEF Stores
  <2>4. CASE e.kind = "name"
    <3>1. here' = [here EXCEPT !.main = i]
      BY <2>4 DEF Add, i
    <3>. QED
      BY <2>4, <3>1, <1>3, FromHere DEF Stores, Number
  <2>. QED
    BY <1>3, <2>1, <2>2, <2>3, <2>4 DEF Kinds
<1>7. TypeOK' /\ PagesAreWhole' /\ PublishedInOrder' /\ UNCHANGED <<there, pages, manifest>>
  <2>1. here'.revs \subseteq there.revs /\ here'.standins \subseteq there.revs /\ here'.main \in there.revs \cup {0}
    BY <1>5, <1>6, FromHere
  <2>2. memory' \in Memories /\ evicting' \in SUBSET Number /\ away' \in SUBSET Number /\ budget' \in Counted
    BY FromHere
  <2>. QED
    BY <2>1, <2>2, <1>2, <1>6, ReaderTyped DEF world
<1>8. /\ Of("content", fetch'.wanted) = Of("content", W) \ (IF e.kind = "content" THEN {i} ELSE {})
      /\ Of("standin", fetch'.wanted) = Of("standin", W) \ (IF e.kind = "standin" THEN {i} ELSE {})
      /\ Of("revision", fetch'.wanted) = Of("revision", W) \ (IF e.kind = "revision" THEN {i} ELSE {})
      /\ e.kind = "standin" => i \in Of("standin", W)
  BY <1>2, <1>3 DEF Kinds
<1>9. e.kind = "revision" => i \in Of("revision", W) /\ Of("content", W) = {} /\ Of("standin", W) = {}
  <2>. SUFFICES ASSUME e.kind = "revision" PROVE Of("content", W) = {} /\ Of("standin", W) = {}
    BY <1>3
  <2>1. \A x \in W : x.kind # "content" /\ x.kind # "standin"
    <3>1. \A x \in W : 1 <= Order[x.kind]
      BY DEF First, Order, W
    <3>2. Order["content"] = 0 /\ Order["standin"] = 0
      BY DEF Order
    <3>. QED
      BY <3>1, <3>2
  <2>. QED
    BY <2>1 DEF Of
<1>10. ReadEarlier'
  BY <1>2, <1>7 DEF IInv, ReadEarlier, Older, Later, Composed
<1>11. OneAtATime'
  BY <1>1, <1>2, <1>5, <1>6, <1>7, FromHere DEF IInv, OneAtATime
<1>12. ForgottenApart'
  BY <1>2, <1>6, <1>8 DEF IInv, ForgottenApart, W
<1>13. ContentIsAsked'
  BY <1>6, <1>8 DEF IInv, ContentIsAsked, W
<1>14. RevisionsFindTheirContent'
  <2>1. e.kind = "revision" => i \in here.contents \cup here.standins \cup away
    BY <1>9 DEF IInv, ContentIsAsked, W
  <2>. QED
    BY <2>1, <1>6 DEF IInv, RevisionsFindTheirContent
<1>15. MemoryHolds'
  BY <1>6, <1>7, <1>1 DEF IInv, MemoryHolds, Current, Composed
<1>16. FetchHolds'
  <2>1. Composed(fetch.chain)' = Composed(fetch.chain) /\ Current(fetch.chain)' = Current(fetch.chain)
    BY <1>2, <1>7 DEF Composed, Current
  <2>. SUFFICES ASSUME memory.earned \/ fetch.applied = 0
                PROVE  /\ Of("revision", Composed(fetch.chain)) \subseteq here'.revs \cup Of("revision", fetch'.wanted)
                       /\ Of("standin", Composed(fetch.chain)) \subseteq here'.standins \cup Of("standin", fetch'.wanted)
                       /\ fetch.chain[1] = manifest[1] =>
                            Current(fetch.chain) \subseteq here'.contents \cup here'.standins \cup fetch.leaving
                              \cup Of("content", fetch'.wanted) \cup Of("standin", fetch'.wanted) \cup fetch.left
    BY <2>1, <1>2, <1>7 DEF FetchHolds
  <2>2. /\ Of("revision", Composed(fetch.chain)) \subseteq here.revs \cup Of("revision", W)
        /\ Of("standin", Composed(fetch.chain)) \subseteq here.standins \cup Of("standin", W)
        /\ fetch.chain[1] = manifest[1] =>
             Current(fetch.chain) \subseteq here.contents \cup here.standins \cup fetch.leaving
               \cup Of("content", W) \cup Of("standin", W) \cup fetch.left
    BY DEF IInv, FetchHolds, W
  <2>. QED
    BY <2>2, <1>6, <1>8
<1>. QED
  BY <1>7, <1>10, <1>11, <1>12, <1>13, <1>14, <1>15, <1>16 DEF IInv

LEMMA GivenUpKeeps ==
  ASSUME IInv, fetch' = Nothing, UNCHANGED <<world, here, memory, evicting, away, budget>>
  PROVE  IInv'
BY NothingIs, FromHere, ResetKeeps

LEMMA TakeKeeps == IInv /\ Take => IInv'
<1>. SUFFICES ASSUME IInv, Take PROVE IInv'
  OBVIOUS
<1>1. fetch.step = "take" /\ UNCHANGED <<world, memory, evicting, away, budget>>
  BY DEF Take
<1>2. PICK e \in fetch.wanted :
        /\ First(e) /\ (e.kind \in {"revision", "name"} => Complied)
        /\ \/ e \in Offer(there) /\ here' = Add(e) /\ fetch' = [fetch EXCEPT !.wanted = @ \ {e}]
           \/ (fetch' = Nothing \/ Again) /\ UNCHANGED here
  BY DEF Take
<1>3. CASE e \in Offer(there) /\ here' = Add(e) /\ fetch' = [fetch EXCEPT !.wanted = @ \ {e}]
  BY <1>1, <1>2, <1>3, TakeOneKeeps
<1>4. CASE (fetch' = Nothing \/ Again) /\ UNCHANGED here
  BY <1>1, <1>4, AgainKeeps, GivenUpKeeps
<1>. QED
  BY <1>2, <1>3, <1>4

\* Steps that only turn the page of a fetch.
LEMMA ReadingsKeeps == IInv /\ Readings => IInv'
<1>. SUFFICES ASSUME IInv, Readings PROVE IInv'
  OBVIOUS
<1>1. fetch.step = "take" /\ fetch.wanted = {} /\ UNCHANGED <<world, here, memory, evicting, away, budget>>
      /\ (fetch' = [fetch EXCEPT !.step = "left"] \/ fetch' = Nothing)
  BY DEF Readings
<1>2. CASE fetch' = Nothing
  BY <1>1, <1>2, GivenUpKeeps
<1>3. CASE fetch' = [fetch EXCEPT !.step = "left"]
  <2>1. /\ fetch' \in Fetches /\ fetch'.wanted = fetch.wanted /\ fetch'.step = "left" /\ fetch'.chain = fetch.chain
        /\ fetch'.destroys = fetch.destroys /\ fetch'.left = fetch.left /\ fetch'.leaving = fetch.leaving
        /\ fetch'.contested = fetch.contested /\ fetch'.applied = fetch.applied
    BY <1>3, FromHere DEF Fetches
  <2>2. TypeOK' /\ PagesAreWhole' /\ PublishedInOrder' /\ UNCHANGED <<there, pages, manifest>>
    BY <1>1, <2>1, FromHere, ReaderTyped DEF world
  <2>3. ReadEarlier' /\ OneAtATime' /\ ForgottenApart'
    BY <1>1, <2>1, <2>2 DEF IInv, ReadEarlier, Older, Later, OneAtATime, ForgottenApart, Composed
  <2>4. ContentIsAsked' /\ RevisionsFindTheirContent' /\ MemoryHolds'
    BY <1>1, <2>1, <2>2 DEF IInv, ContentIsAsked, RevisionsFindTheirContent, MemoryHolds, Current, Composed
  <2>5. FetchHolds'
    BY <1>1, <2>1, <2>2 DEF IInv, FetchHolds, Current, Composed
  <2>. QED
    BY <2>2, <2>3, <2>4, <2>5 DEF IInv
<1>. QED
  BY <1>1, <1>2, <1>3

LEMMA TakeRememberedKeeps == IInv /\ TakeRemembered => IInv'
<1>. SUFFICES ASSUME IInv, TakeRemembered PROVE IInv'
  OBVIOUS
<1>. DEFINE lost == fetch.left \ there.contents
            still == lost \cap Of("content", Composed(manifest))
<1>1. /\ fetch.step = "left" /\ UNCHANGED <<world, memory, evicting, away, budget>>
      /\ here' = [here EXCEPT !.contents = @ \cup (fetch.left \cap there.contents)]
      /\ \/ fetch' = [fetch EXCEPT !.step = "remember", !.leaving = @ \cup still]
         \/ fetch' = Nothing
  BY DEF TakeRemembered
<1>2. /\ here' \in Stores /\ here'.revs = here.revs /\ here'.standins = here.standins /\ here'.main = here.main
      /\ here'.contents = here.contents \cup (fetch.left \cap there.contents)
  BY <1>1, FromHere DEF Stores, Fetches
<1>3. here.contents \subseteq here'.contents /\ here'.contents \subseteq there.revs
  BY <1>2, FromHere
<1>4. CASE fetch' = Nothing
  BY <1>1, <1>2, <1>3, <1>4, NothingIs, FromHere, ResetKeeps
<1>5. CASE fetch' = [fetch EXCEPT !.step = "remember", !.leaving = @ \cup still]
  <2>1. still \in SUBSET Number
    BY FromHere DEF Fetches
  <2>2. /\ fetch' \in Fetches /\ fetch'.wanted = fetch.wanted /\ fetch'.step = "remember" /\ fetch'.chain = fetch.chain
        /\ fetch'.destroys = fetch.destroys /\ fetch'.left = fetch.left /\ fetch'.leaving = fetch.leaving \cup still
        /\ fetch'.contested = fetch.contested /\ fetch'.applied = fetch.applied
    <3>. HIDE DEF still
    <3>. QED
      BY <1>5, <2>1, FromHere DEF Fetches
  <2>3. TypeOK' /\ PagesAreWhole' /\ PublishedInOrder' /\ UNCHANGED <<there, pages, manifest>>
    BY <1>1, <1>2, <2>2, FromHere, ReaderTyped DEF world
  <2>4. ReadEarlier' /\ OneAtATime' /\ ForgottenApart'
    BY <1>1, <1>2, <1>3, <2>2, <2>3 DEF IInv, ReadEarlier, Older, Later, OneAtATime, ForgottenApart, Composed
  <2>5. ContentIsAsked' /\ RevisionsFindTheirContent' /\ MemoryHolds'
    BY <1>1, <1>2, <1>3, <2>2, <2>3 DEF IInv, ContentIsAsked, RevisionsFindTheirContent, MemoryHolds, Current, Composed
  <2>6. FetchHolds'
    <3>. SUFFICES ASSUME memory.earned \/ fetch.applied = 0
                  PROVE  /\ Of("revision", Composed(fetch.chain)) \subseteq here.revs \cup Of("revision", fetch.wanted)
                         /\ Of("standin", Composed(fetch.chain)) \subseteq here.standins \cup Of("standin", fetch.wanted)
                         /\ fetch.chain[1] = manifest[1] =>
                              Current(fetch.chain) \subseteq here'.contents \cup here.standins \cup fetch'.leaving
                                \cup Of("content", fetch.wanted) \cup Of("standin", fetch.wanted)
      <4>1. Composed(fetch.chain)' = Composed(fetch.chain) /\ Current(fetch.chain)' = Current(fetch.chain)
        BY <2>2, <2>3 DEF Composed, Current
      <4>. QED
        BY <4>1, <1>1, <1>2, <2>2, <2>3 DEF FetchHolds
    <3>1. /\ Of("revision", Composed(fetch.chain)) \subseteq here.revs \cup Of("revision", fetch.wanted)
          /\ Of("standin", Composed(fetch.chain)) \subseteq here.standins \cup Of("standin", fetch.wanted)
          /\ fetch.chain[1] = manifest[1] =>
               Current(fetch.chain) \subseteq here.contents \cup here.standins \cup fetch.leaving
                 \cup Of("content", fetch.wanted) \cup Of("standin", fetch.wanted) \cup fetch.left
      BY <1>1 DEF IInv, FetchHolds
    <3>2. \A i \in Current(fetch.chain) : i \in fetch.left => i \in here'.contents \/ i \in fetch'.leaving
      BY <1>2, <2>2 DEF Current
    <3>. QED
      BY <3>1, <3>2, <1>3, <2>2
  <2>. QED
    BY <2>3, <2>4, <2>5, <2>6 DEF IInv
<1>. QED
  BY <1>1, <1>4, <1>5

LEMMA RememberKeeps == IInv /\ Remember => IInv'
<1>. SUFFICES ASSUME IInv, Remember PROVE IInv'
  OBVIOUS
<1>1. /\ fetch.step = "remember" /\ fetch' = [fetch EXCEPT !.step = "move"]
      /\ UNCHANGED <<world, here, evicting, away, budget>>
      /\ memory' = [chain |-> fetch.chain, heads |-> Heads(Composed(fetch.chain)),
                    left |-> fetch.leaving, earned |-> memory.earned \/ fetch.applied = 0]
  BY DEF Remember, Applied
<1>2. evicting = {} /\ fetch.wanted = {} /\ fetch.chain \in Chains
  BY <1>1, FromHere DEF IInv, OneAtATime, Fetches
<1>3. Heads(Composed(fetch.chain)) \subseteq Of("revision", Composed(fetch.chain))
      /\ Heads(Composed(fetch.chain)) \in SUBSET Number
  BY <1>2, ComposedTyped, OfTyped DEF Heads, IInv
<1>4. (memory.earned \/ fetch.applied = 0) \in BOOLEAN
  OBVIOUS
<1>5. memory' \in Memories
  BY <1>1, <1>2, <1>3, <1>4, FromHere DEF Memories, Fetches
<1>6. /\ fetch' \in Fetches /\ fetch'.wanted = fetch.wanted /\ fetch'.step = "move" /\ fetch'.chain = fetch.chain
      /\ fetch'.destroys = fetch.destroys /\ fetch'.left = fetch.left /\ fetch'.leaving = fetch.leaving
      /\ fetch'.contested = fetch.contested
  BY <1>1, FromHere DEF Fetches
<1>7. TypeOK' /\ PagesAreWhole' /\ PublishedInOrder' /\ UNCHANGED <<there, pages, manifest>>
  BY <1>1, <1>5, <1>6, FromHere, ReaderTyped DEF world
<1>8. ReadEarlier'
  BY <1>1, <1>6, <1>7 DEF IInv, ReadEarlier, Older, Later, Composed
<1>9. OneAtATime' /\ ForgottenApart' /\ ContentIsAsked' /\ RevisionsFindTheirContent'
  BY <1>1, <1>2, <1>6, <1>7 DEF IInv, OneAtATime, ForgottenApart, ContentIsAsked, RevisionsFindTheirContent
<1>10. MemoryHolds'
  <2>1. Composed(memory.chain)' = Composed(fetch.chain) /\ Current(memory.chain)' = Current(fetch.chain)
        /\ memory'.chain = fetch.chain /\ memory'.left = fetch.leaving
        /\ memory'.heads = Heads(Composed(fetch.chain))
    BY <1>1, <1>7 DEF Composed, Current
  <2>2. memory'.earned => memory.earned \/ fetch.applied = 0
    BY <1>1
  <2>3. Of("content", fetch.wanted) = {} /\ Of("standin", fetch.wanted) = {} /\ Of("revision", fetch.wanted) = {}
    BY <1>2, OfNone
  <2>4. memory.earned \/ fetch.applied = 0 =>
          /\ Of("revision", Composed(fetch.chain)) \subseteq here.revs
          /\ Of("standin", Composed(fetch.chain)) \subseteq here.standins
          /\ fetch.chain[1] = manifest[1] =>
               Current(fetch.chain) \subseteq here.contents \cup here.standins \cup fetch.leaving
    BY <1>1, <2>3 DEF IInv, FetchHolds
  <2>. QED
    BY <2>1, <2>2, <2>4, <1>1, <1>2, <1>3, <1>7 DEF MemoryHolds
<1>11. FetchHolds'
  BY <1>6 DEF FetchHolds
<1>. QED
  BY <1>7, <1>8, <1>9, <1>10, <1>11 DEF IInv

LEMMA MoveKeeps == IInv /\ Move => IInv'
<1>. SUFFICES ASSUME IInv, Move PROVE IInv'
  OBVIOUS
<1>1. fetch' = Nothing /\ UNCHANGED <<world, memory, evicting, away, budget>>
  BY DEF Move
<1>2. fetch.contested \subseteq there.revs /\ there.revs \subseteq Nat
  BY DEF IInv, OneAtATime, TypeOK
<1>3. PICK m \in there.revs \cup {0} : here' = [here EXCEPT !.main = m]
  <2>1. CASE \E i \in fetch.contested : i > here.main
    <3>1. (CHOOSE i \in fetch.contested : TRUE) \in fetch.contested
      BY <2>1
    <3>2. here' = [here EXCEPT !.main = CHOOSE i \in fetch.contested : TRUE]
      BY <2>1 DEF Move
    <3>. QED
      BY <3>1, <3>2, <1>2
  <2>2. CASE ~ \E i \in fetch.contested : i > here.main
    <3>1. here' = [here EXCEPT !.main = here.main]
      BY <2>2 DEF Move
    <3>. QED
      BY <3>1, FromHere
  <2>. QED
    BY <2>1, <2>2
<1>4. /\ here' \in Stores /\ here'.revs = here.revs /\ here'.standins = here.standins /\ here'.main = m
      /\ here'.contents = here.contents
  BY <1>2, <1>3, FromHere DEF Stores
<1>. QED
  BY <1>1, <1>3, <1>4, NothingIs, FromHere, ResetKeeps

\* The rest happens between two fetches, when nothing is asked for.
LEMMA IdleIs ==
  ASSUME IInv, fetch.step = "idle"
  PROVE  /\ Of("content", fetch.wanted) = {} /\ Of("standin", fetch.wanted) = {} /\ Of("revision", fetch.wanted) = {}
         /\ fetch.left = {} /\ fetch.destroys = {}
<1>1. fetch.wanted = {} /\ fetch.left = {} /\ fetch.destroys = {}
  BY DEF IInv, OneAtATime
<1>. QED
  BY <1>1, OfNone

LEMMA PlanEvictionKeeps == IInv /\ PlanEviction => IInv'
<1>. SUFFICES ASSUME IInv, PlanEviction PROVE IInv'
  OBVIOUS
<1>1. /\ fetch.step = "idle" /\ evicting = {} /\ budget.leaves > 0
      /\ budget' = [budget EXCEPT !.leaves = @ - 1]
      /\ UNCHANGED <<world, here, fetch>>
  BY DEF PlanEviction, Idle
<1>2. PICK i \in here.contents :
        /\ evicting' = {i} /\ away' = away \cup {i}
        /\ memory' = IF memory.chain # <<>> /\ memory.chain[1] = manifest[1] /\ memory.heads \subseteq here.revs
                     THEN Noted(i) ELSE memory
  BY DEF PlanEviction
<1>3. i \in Number
  BY FromHere DEF Stores
<1>4. memory' \in Memories /\ memory'.chain = memory.chain /\ memory'.heads = memory.heads
      /\ memory'.earned = memory.earned /\ memory.left \subseteq memory'.left
  BY <1>2, <1>3, FromHere DEF Noted, Memories
<1>5. memory.chain # <<>> /\ memory.chain[1] = manifest[1] /\ memory.heads \subseteq here.revs => i \in memory'.left
  BY <1>2, FromHere DEF Noted, Memories
<1>6. budget' \in Counted /\ evicting' \in SUBSET Number /\ away' \in SUBSET Number
  BY <1>1, <1>2, <1>3, FromHere DEF Counted
<1>7. TypeOK' /\ PagesAreWhole' /\ PublishedInOrder' /\ UNCHANGED <<there, pages, manifest>>
  BY <1>1, <1>4, <1>6, FromHere, ReaderTyped DEF world
<1>8. ReadEarlier'
  BY <1>1, <1>4, <1>7 DEF IInv, ReadEarlier, Older, Later, Composed
<1>9. OneAtATime'
  BY <1>1, <1>2, <1>7 DEF IInv, OneAtATime
<1>10. ForgottenApart'
  BY <1>1 DEF IInv, ForgottenApart
<1>11. ContentIsAsked' /\ RevisionsFindTheirContent'
  BY <1>1, <1>2 DEF IInv, ContentIsAsked, RevisionsFindTheirContent
<1>12. MemoryHolds'
  <2>1. Composed(memory.chain)' = Composed(memory.chain) /\ Current(memory.chain)' = Current(memory.chain)
    BY <1>4, <1>7 DEF Composed, Current
  <2>2. memory.earned /\ memory.chain # <<>> =>
          /\ Of("revision", Composed(memory.chain)) \subseteq here.revs
          /\ Of("standin", Composed(memory.chain)) \subseteq here.standins
          /\ memory.heads \subseteq Of("revision", Composed(memory.chain))
          /\ memory.chain[1] = manifest[1] =>
               Current(memory.chain) \subseteq here.contents \cup here.standins \cup memory.left
    BY <1>1 DEF IInv, MemoryHolds
  <2>. QED
    BY <2>1, <2>2, <1>1, <1>2, <1>4, <1>5, <1>7 DEF MemoryHolds
<1>13. FetchHolds'
  BY <1>1 DEF FetchHolds
<1>. QED
  BY <1>7, <1>8, <1>9, <1>10, <1>11, <1>12, <1>13 DEF IInv

LEMMA EvictKeeps == IInv /\ Evict => IInv'
<1>. SUFFICES ASSUME IInv, Evict PROVE IInv'
  OBVIOUS
<1>1. /\ fetch.step = "idle" /\ evicting' = {} /\ evicting \subseteq away
      /\ here' = [here EXCEPT !.contents = @ \ evicting]
      /\ UNCHANGED <<world, memory, fetch, away, budget>>
  BY DEF Evict, IInv, OneAtATime
<1>2. /\ here' \in Stores /\ here'.revs = here.revs /\ here'.standins = here.standins /\ here'.main = here.main
      /\ here'.contents = here.contents \ evicting
  BY <1>1, FromHere DEF Stores
<1>3. TypeOK' /\ PagesAreWhole' /\ PublishedInOrder' /\ UNCHANGED <<there, pages, manifest>>
  BY <1>1, <1>2, FromHere, ReaderTyped DEF world
<1>4. ReadEarlier' /\ OneAtATime'
  BY <1>1, <1>2, <1>3 DEF IInv, ReadEarlier, Older, Later, OneAtATime, Composed
<1>5. ForgottenApart' /\ ContentIsAsked'
  BY <1>1, IdleIs DEF ForgottenApart, ContentIsAsked
<1>6. RevisionsFindTheirContent'
  BY <1>1, <1>2 DEF IInv, RevisionsFindTheirContent
<1>7. MemoryHolds'
  BY <1>1, <1>2, <1>3 DEF IInv, MemoryHolds, Current, Composed
<1>8. FetchHolds'
  BY <1>1 DEF FetchHolds
<1>. QED
  BY <1>3, <1>4, <1>5, <1>6, <1>7, <1>8 DEF IInv

LEMMA ForgetHereKeeps == IInv /\ ForgetHere => IInv'
<1>. SUFFICES ASSUME IInv, ForgetHere PROVE IInv'
  OBVIOUS
<1>1. /\ fetch.step = "idle" /\ evicting = {}
      /\ UNCHANGED <<world, memory, fetch, evicting, away, budget>>
  BY DEF ForgetHere, Idle
<1>2. PICK i \in here.contents : here' = [here EXCEPT !.contents = @ \ {i}, !.standins = @ \cup {i}]
  BY DEF ForgetHere
<1>3. i \in Number /\ i \in there.revs
  BY FromHere DEF Stores
<1>4. /\ here' \in Stores /\ here'.revs = here.revs /\ here'.main = here.main
      /\ here'.contents = here.contents \ {i} /\ here'.standins = here.standins \cup {i}
  BY <1>2, <1>3, FromHere DEF Stores
<1>5. TypeOK' /\ PagesAreWhole' /\ PublishedInOrder' /\ UNCHANGED <<there, pages, manifest>>
  BY <1>1, <1>3, <1>4, FromHere, ReaderTyped DEF world
<1>6. ReadEarlier' /\ OneAtATime'
  BY <1>1, <1>4, <1>5 DEF IInv, ReadEarlier, Older, Later, OneAtATime, Composed
<1>7. ForgottenApart' /\ ContentIsAsked'
  BY <1>1, IdleIs DEF ForgottenApart, ContentIsAsked
<1>8. RevisionsFindTheirContent'
  BY <1>1, <1>4 DEF IInv, RevisionsFindTheirContent
<1>9. MemoryHolds'
  BY <1>1, <1>4, <1>5 DEF IInv, MemoryHolds, Current, Composed
<1>10. FetchHolds'
  BY <1>1 DEF FetchHolds
<1>. QED
  BY <1>5, <1>6, <1>7, <1>8, <1>9, <1>10 DEF IInv

LEMMA RemakeKeeps == IInv /\ Remake => IInv'
<1>. SUFFICES ASSUME IInv, Remake PROVE IInv'
  OBVIOUS
<1>1. /\ fetch.step = "idle" /\ evicting = {} /\ budget.stops > 0
      /\ here' = Empty /\ away' = {} /\ memory' = [memory EXCEPT !.earned = memory.chain = <<>>]
      /\ budget' = [budget EXCEPT !.stops = @ - 1]
      /\ UNCHANGED <<world, fetch, evicting>>
  BY DEF Remake, Idle
<1>2. /\ here' \in Stores /\ here'.revs = {} /\ here'.standins = {} /\ here'.main = 0 /\ here'.contents = {}
  BY <1>1 DEF Stores, Empty
<1>3. (memory.chain = <<>>) \in BOOLEAN
  OBVIOUS
<1>4. memory' \in Memories /\ memory'.chain = memory.chain /\ memory'.earned = (memory.chain = <<>>)
  BY <1>1, <1>3, FromHere DEF Memories
<1>5. budget' \in Counted
  BY <1>1, FromHere DEF Counted
<1>6. TypeOK' /\ PagesAreWhole' /\ PublishedInOrder' /\ UNCHANGED <<there, pages, manifest>>
  BY <1>1, <1>2, <1>4, <1>5, FromHere, ReaderTyped DEF world
<1>7. ReadEarlier'
  BY <1>1, <1>4, <1>6 DEF IInv, ReadEarlier, Older, Later, Composed
<1>8. OneAtATime'
  BY <1>1, <1>2, <1>6 DEF IInv, OneAtATime
<1>9. ForgottenApart' /\ ContentIsAsked'
  BY <1>1, IdleIs DEF ForgottenApart, ContentIsAsked
<1>10. RevisionsFindTheirContent'
  BY <1>2 DEF RevisionsFindTheirContent
<1>11. MemoryHolds'
  BY <1>4 DEF MemoryHolds
<1>12. FetchHolds'
  BY <1>1 DEF FetchHolds
<1>. QED
  BY <1>6, <1>7, <1>8, <1>9, <1>10, <1>11, <1>12 DEF IInv

LEMMA StopKeeps == IInv /\ Stop => IInv'
<1>. SUFFICES ASSUME IInv, Stop PROVE IInv'
  OBVIOUS
<1>1. budget' \in Counted
  <2>1. budget.stops > 0 /\ budget' = [budget EXCEPT !.stops = @ - 1]
    BY DEF Stop
  <2>. QED
    BY <2>1, FromHere DEF Counted
<1>2. CASE publishing' = [step |-> "idle", chain |-> <<>>] /\ UNCHANGED <<there, pages, present, manifest, reader>>
  <2>1. Rest'
    <3>1. publishing' \in [step : {"idle", "manifest", "sweep"}, chain : Chains]
      BY <1>2 DEF Chains
    <3>. QED
      BY <3>1, <1>2 DEF IInv, TypeOK, Rest, Chains, Elements, reader
  <2>2. Stored'
    BY <1>1, <1>2 DEF IInv, TypeOK, Stored, Counted, reader
  <2>3. TypeOK'
    BY <2>1, <2>2 DEF TypeOK, Rest, Stored
  <2>. QED
    BY <2>3, <1>2, PublishingResets
<1>3. CASE fetch' = Nothing /\ evicting' = {} /\ UNCHANGED <<world, here, memory, away>>
  BY <1>1, <1>3, NothingIs, FromHere, ResetKeeps
<1>. QED
  BY <1>2, <1>3 DEF Stop
-----------------------------------------------------------------------------
LEMMA Initially == Init => IInv
<1>. SUFFICES ASSUME Init PROVE IInv
  OBVIOUS
<1>1. /\ there = Empty /\ pages = <<>> /\ present = {} /\ manifest = <<>> /\ here = Empty
      /\ memory = NoMemory /\ fetch = Nothing /\ evicting = {} /\ away = {} /\ budget \in Counted
      /\ publishing = [step |-> "idle", chain |-> <<>>]
  BY BudgetsAssumption DEF Init, Counted
<1>2. Empty \in Stores /\ Empty.revs = {} /\ Empty.contents = {} /\ Empty.standins = {} /\ Empty.main = 0
  BY DEF Empty, Stores
<1>3. Stored
  BY <1>1, <1>2 DEF Stored, Counted
<1>4. <<>> \in Chains /\ Elements(<<>>) = {}
  BY DEF Chains, Elements
<1>5. NoMemory \in Memories /\ NoMemory.chain = <<>>
  BY <1>4 DEF NoMemory, Memories
<1>6. publishing \in [step : {"idle", "manifest", "sweep"}, chain : Chains]
  BY <1>1, <1>4
<1>7. Rest
  BY <1>1, <1>4, <1>5, <1>6, NothingIs DEF Rest, Memories, Fetches
<1>8. TypeOK
  BY <1>3, <1>7 DEF TypeOK, Rest, Stored
<1>9. PagesAreWhole
  BY <1>1 DEF PagesAreWhole
<1>10. PublishedInOrder
  <2>1. Composed(manifest) = {}
    BY <1>1, ComposeNone DEF Composed
  <2>. QED
    BY <2>1, <1>1, OfNone DEF PublishedInOrder, Stands
<1>11. ReadEarlier
  BY <1>1, <1>5, NothingIs, OlderNone DEF ReadEarlier
<1>12. OneAtATime
  BY <1>1, <1>2, NothingIs DEF OneAtATime, Fresh
<1>13. ForgottenApart /\ ContentIsAsked
  BY <1>1, NothingIs, OfNone DEF ForgottenApart, ContentIsAsked, Fresh
<1>14. RevisionsFindTheirContent /\ MemoryHolds /\ FetchHolds
  BY <1>1, <1>2, <1>5, NothingIs DEF RevisionsFindTheirContent, MemoryHolds, FetchHolds
<1>. QED
  BY <1>8, <1>9, <1>10, <1>11, <1>12, <1>13, <1>14 DEF IInv

LEMMA Stutters == IInv /\ UNCHANGED vars => IInv'
<1>. SUFFICES ASSUME IInv, UNCHANGED vars PROVE IInv'
  OBVIOUS
<1>1. UNCHANGED <<there, pages, manifest, reader>> /\ UNCHANGED <<publishing, present, budget>>
  BY DEF vars, reader
<1>2. Rest' /\ Stored'
  BY <1>1 DEF IInv, TypeOK, Rest, Stored, Chains, Elements, reader
<1>3. TypeOK'
  BY <1>2 DEF TypeOK, Rest, Stored
<1>4. PublishedInOrder' /\ PagesAreWhole'
  BY <1>1 DEF IInv, PublishedInOrder, PagesAreWhole, Stands, Later, Composed
<1>5. ReadEarlier' /\ OneAtATime' /\ ForgottenApart' /\ ContentIsAsked' /\ RevisionsFindTheirContent'
  BY <1>1 DEF IInv, ReadEarlier, Older, Later, OneAtATime, ForgottenApart, ContentIsAsked,
              RevisionsFindTheirContent, Composed, reader
<1>6. MemoryHolds' /\ FetchHolds'
  BY <1>1 DEF IInv, MemoryHolds, FetchHolds, Current, Composed, reader
<1>. QED
  BY <1>3, <1>4, <1>5, <1>6 DEF IInv

(* However the publisher and the reader take their turns, are stopped, or  *)
(* forget, the parts of IInv hold together (store/offer.rs publish_offer,  *)
(* store/fetch.rs fetch, store/evict.rs).                                  *)
THEOREM Invariance == Spec => []IInv
<1>1. IInv /\ Next => IInv'
  BY RecordThereKeeps, ForgetThereKeeps, WritePageKeeps, WriteManifestKeeps, SweepKeeps, BeginKeeps, ReadPagesKeeps,
     ComplyKeeps, TakeKeeps, ReadingsKeeps, TakeRememberedKeeps, RememberKeeps, MoveKeeps, PlanEvictionKeeps,
     EvictKeeps, ForgetHereKeeps, RemakeKeeps, StopKeeps DEF Next, Publishing, Reading
<1>2. IInv /\ [Next]_vars => IInv'
  BY <1>1, Stutters
<1>. QED
  BY <1>2, Initially, PTL DEF Spec

(* The types of the publisher's and the reader's state.                    *)
THEOREM TypeCorrect == Spec => []TypeOK
<1>1. IInv => TypeOK
  BY DEF IInv
<1>. QED
  BY <1>1, Invariance, PTL

(* A reader's store never holds a revision without its content, what stands*)
(* in for it or its having been asked to leave it, and a memory it earned  *)
(* and believes misses nothing (store/fetch.rs fetch_memory, fetch_plan).  *)
THEOREM MissesNothingApplied == Spec => []FetchingMissesNothing
<1>1. IInv => FetchingMissesNothing
  <2>. SUFFICES ASSUME IInv PROVE MemoryMissesNothing
    BY DEF IInv, FetchingMissesNothing
  <2>. SUFFICES ASSUME memory.earned, Believed(manifest) PROVE MissesNothing
    BY DEF MemoryMissesNothing
  <2>1. memory.chain \in Chains /\ manifest \in Chains
    BY FromHere DEF Memories
  <2>2. /\ memory.chain # <<>> /\ Len(memory.chain) <= Len(manifest)
        /\ SubSeq(manifest, 1, Len(memory.chain)) = memory.chain
    BY DEF Believed, Begins
  <2>3. SubSeq(manifest, 1, Len(memory.chain))[1] = manifest[1]
    BY <2>1, <2>2 DEF Chains
  <2>4. memory.chain[1] = manifest[1]
    BY <2>2, <2>3
  <2>. QED
    BY <2>2, <2>4 DEF IInv, MemoryHolds, MissesNothing, Current
<1>. QED
  BY <1>1, Invariance, PTL

(* What stands in here for a forgotten content keeps that content from     *)
(* coming back, whatever was planned before it was forgotten (fetch_plan,  *)
(* take_remembered).                                                       *)
THEOREM WhatIsForgottenStaysSo == Spec => ForgottenStaysForgotten
<1>1. IInv /\ [Next]_vars => \A i \in here.standins : i \in here'.contents => i \in here.contents
  <2>. SUFFICES ASSUME IInv, [Next]_vars, NEW i \in here.standins, i \in here'.contents, i \notin here.contents
                PROVE  FALSE
    OBVIOUS
  <2>1. here' # here
    OBVIOUS
  <2>2. CASE Comply \/ Evict \/ Move
    BY <2>2, FromHere DEF Comply, Evict, Move, Stores
  <2>3. CASE ForgetHere \/ Remake
    <3>1. CASE ForgetHere
      <4>1. PICK j \in here.contents : here' = [here EXCEPT !.contents = @ \ {j}, !.standins = @ \cup {j}]
        BY <3>1 DEF ForgetHere
      <4>2. here'.contents = here.contents \ {j}
        BY <4>1, FromHere DEF Stores
      <4>. QED
        BY <4>2
    <3>2. CASE Remake
      <4>1. here'.contents = {}
        BY <3>2 DEF Remake, Empty
      <4>. QED
        BY <4>1
    <3>. QED
      BY <2>3, <3>1, <3>2
  <2>4. CASE TakeRemembered
    <3>1. here' = [here EXCEPT !.contents = @ \cup (fetch.left \cap there.contents)]
      BY <2>4 DEF TakeRemembered
    <3>2. i \in fetch.left
      BY <3>1, FromHere DEF Stores
    <3>. QED
      BY <3>2 DEF IInv, ForgottenApart
  <2>5. CASE Take
    <3>1. PICK e \in fetch.wanted : here' = Add(e)
      BY <2>1, <2>5 DEF Take
    <3>2. fetch.wanted \in SUBSET Entries
      BY FromHere DEF Fetches
    <3>3. e.kind = "content" /\ i = e.of
      <4>1. e.kind \in Kinds
        BY <3>2 DEF Entries
      <4>2. CASE e.kind = "content"
        <5>1. here'.contents = here.contents \cup {e.of}
          BY <3>1, <4>2, FromHere DEF Add, Stores
        <5>. QED
          BY <4>2, <5>1
      <4>3. CASE e.kind # "content"
        <5>1. here'.contents = here.contents
          BY <3>1, <4>1, <4>3, FromHere DEF Add, Stores, Kinds
        <5>. QED
          BY <5>1
      <4>. QED
        BY <4>2, <4>3
    <3>4. i \in Of("content", fetch.wanted)
      BY <3>3 DEF Of
    <3>. QED
      BY <3>4 DEF IInv, ForgottenApart
  <2>6. CASE RecordThere \/ ForgetThere \/ Publishing \/ Stop \/ UNCHANGED vars
    BY <2>1, <2>6 DEF RecordThere, ForgetThere, Publishing, WritePage, WriteManifest, Sweep, Stop, vars, reader
  <2>7. CASE Begin \/ ReadPages \/ Readings \/ Remember \/ PlanEviction
    BY <2>1, <2>7 DEF Begin, ReadPages, Readings, Remember, PlanEviction
  <2>. QED
    BY <2>2, <2>3, <2>4, <2>5, <2>6, <2>7 DEF Next, Reading
<1>. QED
  BY <1>1, Invariance, PTL DEF Spec, ForgottenStaysForgotten
=============================================================================
