------------------------------ MODULE Fetching ------------------------------
(***************************************************************************)
(* A copy published as a listing in pages, and one that fetches from it    *)
(* (store/offer.rs, store/fetch.rs, store/evict.rs).                       *)
(*                                                                         *)
(* The publisher's revisions stand in a line, 1 to n, each with a content  *)
(* of its own, and its one bookmark is on the last.  What it offers is a   *)
(* set of entries; a page states what one publishing added to the pages    *)
(* before and withdrew from them, and is never written again.  The reader  *)
(* remembers, in a cache that outlives its store, which pages it applied   *)
(* and what it left behind, and reads only the pages after those; whether  *)
(* the store that stands there now earned that is kept for the properties. *)
(***************************************************************************)
EXTENDS Naturals, Sequences, FiniteSets

CONSTANTS
  MaxForgets,   \* how many contents are ever forgotten
  MostPages,    \* how many pages a listing has after its base
  Tries,        \* how often one fetch reads the listing again
  Budgets       \* how many revisions are recorded, how often a command is
                \* stopped half-way, and how often content is left or let go

VARIABLES
  there,        \* the publisher's store
  pages,        \* every page ever written, by number
  present,      \* the pages still at their addresses
  manifest,     \* the pages the manifest names, the base first
  publishing,   \* the manifest a publishing is about to write, or none
  here,         \* the reader's store
  memory,       \* what the reader's cache remembers
  fetch,        \* the fetch under way
  evicting,     \* the content being let go of, or none
  away,         \* content the reader has been asked to hold elsewhere
  budget        \* how often each bounded thing may still happen
world == <<there, pages, present, manifest, publishing>>
reader == <<here, memory, fetch, evicting, away>>
vars == <<there, pages, present, manifest, publishing, here, memory, fetch, evicting, away, budget>>

ASSUME TriesAssumption == Tries \in Nat
ASSUME BudgetsAssumption == Budgets \subseteq [records : Nat, stops : Nat, leaves : Nat]

Entry(kind, of) == [kind |-> kind, of |-> of]
Of(kind, entries) == {e.of : e \in {x \in entries : x.kind = kind}}
Elements(s) == {s[i] : i \in DOMAIN s}

Empty == [revs |-> {}, contents |-> {}, standins |-> {}, main |-> 0]

\* Store::offer: content, what stands in for forgotten content, revisions, the bookmark.
Offer(store) ==
  {Entry("content", i) : i \in store.contents} \cup {Entry("standin", i) : i \in store.standins}
    \cup {Entry("revision", i) : i \in store.revs} \cup {Entry("name", i) : i \in {store.main} \ {0}}

\* Offer::composed: pages applied in order, each withdrawing before it adds; so
\* what stands in the end is what a page added and no later one withdrew.
Compose(from, chain) ==
  UNION {from[chain[i]].added \ UNION {from[chain[j]].gone : j \in i + 1 .. Len(chain)} : i \in DOMAIN chain}
Composed(chain) == Compose(pages, chain)

Between(before, after) == [added |-> after \ before, gone |-> before \ after]
-----------------------------------------------------------------------------
(* The publisher.                                                          *)
RecordThere ==
  LET n == there.main + 1 IN
  /\ budget.records > 0
  /\ there' = [there EXCEPT !.revs = @ \cup {n}, !.contents = @ \cup {n}, !.main = n]
  /\ budget' = [budget EXCEPT !.records = @ - 1]
  /\ UNCHANGED <<pages, present, manifest, publishing, reader>>

ForgetThere ==
  /\ Cardinality(there.standins) < MaxForgets
  /\ \E i \in there.contents :
       there' = [there EXCEPT !.contents = @ \ {i}, !.standins = @ \cup {i}]
  /\ UNCHANGED <<pages, present, manifest, publishing, reader, budget>>

\* publish_offer: a page of the difference, or a fresh base where the pages are
\* many or outweigh theirs; the page first, the manifest, and last what it no longer names.
WritePage ==
  LET page == Between(Composed(manifest), Offer(there))
      fresh == [added |-> Offer(there), gone |-> {}]
      Put(p, chain) == /\ pages' = Append(pages, p)
                       /\ present' = present \cup {Len(pages) + 1}
                       /\ publishing' = [step |-> "manifest", chain |-> chain]
  IN /\ publishing.step = "idle" /\ Offer(there) # {}
     /\ manifest = <<>> \/ Offer(there) # Composed(manifest)
     /\ \/ manifest # <<>> /\ Len(manifest) <= MostPages /\ Put(page, Append(manifest, Len(pages) + 1))
        \/ Put(fresh, <<Len(pages) + 1>>)
     /\ UNCHANGED <<there, manifest, reader, budget>>

WriteManifest ==
  /\ publishing.step = "manifest"
  /\ manifest' = publishing.chain
  /\ publishing' = [publishing EXCEPT !.step = "sweep"]
  /\ UNCHANGED <<there, pages, present, reader, budget>>

\* The pages a sweep keeps.
Kept_AfterTheBase == {manifest[i] : i \in 2 .. Len(manifest)}
Kept == Elements(manifest)
Sweep ==
  /\ publishing.step = "sweep"
  /\ present' = present \cap Kept
  /\ publishing' = [step |-> "idle", chain |-> <<>>]
  /\ UNCHANGED <<there, pages, manifest, reader, budget>>
-----------------------------------------------------------------------------
(* The reader.                                                             *)
Nothing == [step |-> "idle", chain |-> <<>>, applied |-> 0, tries |-> Tries, leave |-> FALSE,
            wanted |-> {}, destroys |-> {}, left |-> {}, leaving |-> {}, contested |-> {}]
NoMemory == [chain |-> <<>>, heads |-> {}, left |-> {}, earned |-> TRUE]

\* fetch_memory: believed only by a store that holds every head it was earned
\* with, of the base the manifest names, and where its pages begin with those applied.
Begins(chain) ==
  memory.chain # <<>> /\ Len(memory.chain) <= Len(chain) /\ SubSeq(chain, 1, Len(memory.chain)) = memory.chain
Believed_ByAnyStore(chain) == Begins(chain)
Believed(chain) == Begins(chain) /\ memory.heads \subseteq here.revs

Lacks(i) == i \notin here.contents \cup here.standins

\* What either side forgets is not wanted.
Forgotten_Offered(listing) == Of("standin", listing)
Forgotten(listing) == here.standins \cup Of("standin", listing)

\* fetch_plan, and what leave and still_left make of it, over the pages read.
\* still_left: what an earlier fetch left, the listing does not say again, and is not here.
Remains(listing, left, contents) == {i \in left \ (Of("standin", listing) \cup contents) : Lacks(i)}
\* leave: of content the listing or the memory names, everything stays behind.
Leaving(leave, contents, remains) ==
  IF leave THEN [left |-> {}, leaving |-> contents \cup remains, taken |-> {}]
  ELSE [left |-> remains, leaving |-> {}, taken |-> contents]

Wanted(listing, left, leave) ==
  LET contents == (Of("content", listing) \ here.contents) \ Forgotten(listing)
      apart    == Leaving(leave, contents, Remains(listing, left, contents))
  IN [ destroys  |-> Forgotten(listing) \cap here.contents,
       left      |-> apart.left,
       leaving   |-> apart.leaving,
       contested |-> IF here.main = 0 THEN {} ELSE Of("name", listing) \ {here.main},
       wanted    |->
         {Entry("content", i) : i \in apart.taken}
           \cup {Entry("standin", i) : i \in Of("standin", listing) \ here.standins}
           \cup {Entry("revision", i) : i \in Of("revision", listing) \ here.revs}
           \cup {Entry("name", i) : i \in IF here.main = 0 THEN Of("name", listing) ELSE {}} ]

Idle == fetch.step = "idle" /\ evicting = {}

\* A fetch reads the manifest, which names the pages as they then stand.
Begin ==
  /\ Idle /\ manifest # <<>>
  /\ \E leave \in BOOLEAN :
       /\ leave => budget.leaves > 0
       /\ fetch' = [Nothing EXCEPT !.step = "pages", !.chain = manifest, !.leave = leave]
       /\ budget' = [budget EXCEPT !.leaves = @ - (IF leave THEN 1 ELSE 0)]
  /\ UNCHANGED <<world, here, memory, evicting, away>>

\* again: what was not there has moved, and the manifest is read again, so often.
Again ==
  fetch' = IF fetch.tries = 0 THEN Nothing
           ELSE [Nothing EXCEPT !.step = "pages", !.chain = manifest, !.leave = fetch.leave, !.tries = fetch.tries - 1]

ReadPages ==
  LET applied == IF Believed(fetch.chain) THEN Len(memory.chain) ELSE 0
      unread  == SubSeq(fetch.chain, applied + 1, Len(fetch.chain))
      plan    == Wanted(Composed(unread), IF applied = 0 THEN {} ELSE memory.left, fetch.leave)
  IN /\ fetch.step = "pages"
     /\ \/ /\ Elements(unread) \subseteq present
           /\ fetch' = [fetch EXCEPT !.step = "take", !.applied = applied, !.wanted = plan.wanted,
                                     !.destroys = plan.destroys, !.left = plan.left,
                                     !.leaving = plan.leaving, !.contested = plan.contested]
           /\ away' = away \cup plan.leaving
        \/ ~(Elements(unread) \subseteq present) /\ Again /\ UNCHANGED away
     /\ UNCHANGED <<world, here, memory, evicting, budget>>

\* The order a plan is taken in: content first, and revisions only once what
\* this fetch learned is forgotten has been destroyed here.
Order_Reversed == [content |-> 1, standin |-> 1, revision |-> 0, name |-> 2]
Order == [content |-> 0, standin |-> 0, revision |-> 1, name |-> 2]
First(e) == \A x \in fetch.wanted : Order[e.kind] <= Order[x.kind]

Complied == fetch.destroys \cap here.contents = {}
Comply ==
  /\ fetch.step = "take" /\ ~Complied /\ \A e \in fetch.wanted : e.kind \in {"revision", "name"}
  /\ here' = [here EXCEPT !.contents = @ \ fetch.destroys]
  /\ UNCHANGED <<world, memory, fetch, evicting, away, budget>>

Add(e) ==
  CASE e.kind = "content"  -> [here EXCEPT !.contents = @ \cup {e.of}]
    [] e.kind = "standin"  -> [here EXCEPT !.standins = @ \cup {e.of}]
    [] e.kind = "revision" -> [here EXCEPT !.revs = @ \cup {e.of}]
    [] e.kind = "name"     -> [here EXCEPT !.main = e.of]

\* An address that answers nothing has moved; a bookmark's answers with what it
\* names now, which the listing did not say, and the fetch is refused.
Take ==
  /\ fetch.step = "take"
  /\ \E e \in fetch.wanted :
       /\ First(e) /\ (e.kind \in {"revision", "name"} => Complied)
       /\ \/ /\ e \in Offer(there)
             /\ here' = Add(e)
             /\ fetch' = [fetch EXCEPT !.wanted = @ \ {e}]
          \/ /\ e \notin Offer(there)
             /\ IF e.kind = "name" THEN fetch' = Nothing ELSE Again
             /\ UNCHANGED here
  /\ UNCHANGED <<world, memory, evicting, away, budget>>

\* The publisher's reading of a bookmark both hold, once everything is taken.
Readings ==
  /\ fetch.step = "take" /\ fetch.wanted = {} /\ Complied
  /\ fetch' = IF fetch.contested \subseteq {there.main} THEN [fetch EXCEPT !.step = "left"] ELSE Nothing
  /\ UNCHANGED <<world, here, memory, evicting, away, budget>>

\* take_remembered: what an earlier fetch left, at its address or the whole listing's.
TakeRemembered ==
  LET lost == fetch.left \ there.contents
      still == lost \cap Of("content", Composed(manifest))
  IN /\ fetch.step = "left"
     /\ here' = [here EXCEPT !.contents = @ \cup (fetch.left \cap there.contents)]
     /\ fetch' = IF lost = {} \/ Elements(manifest) \subseteq present
                 THEN [fetch EXCEPT !.step = "remember", !.leaving = @ \cup still] ELSE Nothing
     /\ UNCHANGED <<world, memory, evicting, away, budget>>

\* The heads the manifest names: the last revision of the line.
Heads(listing) == {i \in Of("revision", listing) : \A j \in Of("revision", listing) : j <= i}
Applied_AsItStands == manifest
Applied == fetch.chain
Remember ==
  /\ fetch.step = "remember"
  /\ memory' = [chain |-> Applied, heads |-> Heads(Composed(fetch.chain)),
               left |-> fetch.leaving, earned |-> memory.earned \/ fetch.applied = 0]
  /\ fetch' = [fetch EXCEPT !.step = "move"]
  /\ UNCHANGED <<world, here, evicting, away, budget>>

\* moving::decide, and the moves: here the copy follows the publisher, and has
\* no work of its own on the bookmark.
Move ==
  /\ fetch.step = "move"
  /\ here' = [here EXCEPT !.main = IF \E i \in fetch.contested : i > @ THEN CHOOSE i \in fetch.contested : TRUE ELSE @]
  /\ fetch' = Nothing
  /\ UNCHANGED <<world, memory, evicting, away, budget>>
-----------------------------------------------------------------------------
(* Letting go of content the publisher offers: noted, and then removed.    *)
Noted_Never(i) == memory
Noted(i) == [memory EXCEPT !.left = @ \cup {i}]

PlanEviction ==
  /\ Idle /\ budget.leaves > 0
  /\ Elements(manifest) \subseteq present
  /\ \E i \in here.contents \cap Of("content", Composed(manifest)) :
       /\ i \notin here.standins
       /\ evicting' = {i}
       /\ away' = away \cup {i}
       /\ memory' = IF memory.chain # <<>> /\ memory.chain[1] = manifest[1] /\ memory.heads \subseteq here.revs THEN Noted(i) ELSE memory
  /\ budget' = [budget EXCEPT !.leaves = @ - 1]
  /\ UNCHANGED <<world, here, fetch>>

Evict ==
  /\ evicting # {}
  /\ here' = [here EXCEPT !.contents = @ \ evicting]
  /\ evicting' = {}
  /\ UNCHANGED <<world, memory, fetch, away, budget>>

\* This copy forgets a content itself.
ForgetHere ==
  /\ Idle /\ Cardinality(here.standins \ there.standins) < MaxForgets
  /\ \E i \in here.contents \ here.standins :
       here' = [here EXCEPT !.contents = @ \ {i}, !.standins = @ \cup {i}]
  /\ UNCHANGED <<world, memory, fetch, evicting, away, budget>>

\* The store is deleted and made again where it was; the cache is elsewhere.
Remake ==
  /\ Idle /\ budget.stops > 0 /\ here # Empty
  /\ here' = Empty /\ away' = {} /\ memory' = [memory EXCEPT !.earned = memory.chain = <<>>]
  /\ budget' = [budget EXCEPT !.stops = @ - 1]
  /\ UNCHANGED <<world, fetch, evicting>>

\* Either side's command is stopped where it stands.
Stop ==
  /\ budget.stops > 0
  /\ budget' = [budget EXCEPT !.stops = @ - 1]
  /\ \/ /\ publishing.step # "idle"
        /\ publishing' = [step |-> "idle", chain |-> <<>>]
        /\ UNCHANGED <<there, pages, present, manifest, reader>>
     \/ /\ ~Idle
        /\ fetch' = Nothing /\ evicting' = {}
        /\ UNCHANGED <<world, here, memory, away>>
-----------------------------------------------------------------------------
Init ==
  /\ there = Empty /\ pages = <<>> /\ present = {} /\ manifest = <<>>
  /\ publishing = [step |-> "idle", chain |-> <<>>]
  /\ here = Empty /\ memory = NoMemory /\ fetch = Nothing /\ evicting = {} /\ away = {}
  /\ budget \in Budgets

Publishing == WritePage \/ WriteManifest \/ Sweep
Reading == Begin \/ ReadPages \/ Comply \/ Take \/ Readings \/ TakeRemembered \/ Remember \/ Move
Next == RecordThere \/ ForgetThere \/ Publishing \/ Reading \/ PlanEviction \/ Evict \/ ForgetHere \/ Remake \/ Stop

\* A publisher publishes what it changed, and a reader fetches again and again.
Spec == Init /\ [][Next]_vars /\ WF_vars(Publishing) /\ WF_vars(Reading) /\ WF_vars(Evict)
-----------------------------------------------------------------------------
Number == Nat \ {0}
Kinds == {"content", "standin", "revision", "name"}
Entries == [kind : Kinds, of : Number]
Stores == [revs : SUBSET Number, contents : SUBSET Number, standins : SUBSET Number, main : Nat]
Chains == Seq(1 .. Len(pages))

TypeOK ==
  /\ there \in Stores /\ here \in Stores
  /\ pages \in Seq([added : SUBSET Entries, gone : SUBSET Entries])
  /\ manifest \in Chains /\ Elements(manifest) \subseteq present /\ present \subseteq 1 .. Len(pages)
  /\ publishing \in [step : {"idle", "manifest", "sweep"}, chain : Chains]
  /\ memory \in [chain : Chains, heads : SUBSET Number, left : SUBSET Number, earned : BOOLEAN]
  /\ fetch \in [step : {"idle", "pages", "take", "left", "remember", "move"}, chain : Chains, applied : Nat,
                tries : 0 .. Tries, leave : BOOLEAN, wanted : SUBSET Entries, destroys : SUBSET Number,
                left : SUBSET Number, leaving : SUBSET Number, contested : SUBSET Number]
  /\ evicting \in SUBSET Number /\ away \in SUBSET Number
  /\ budget \in [records : Nat, stops : Nat, leaves : Nat]
  /\ there.revs = 1 .. there.main
  /\ there.contents \cup there.standins = there.revs /\ there.contents \cap there.standins = {}
  /\ here.revs \subseteq there.revs /\ here.standins \subseteq there.revs
  /\ here.main \in there.revs \cup {0}

(* A revision is here only with its content, or with what stands in for    *)
(* it, or without content somebody asked this copy to hold elsewhere:      *)
(* whatever is forgotten, moved or stopped while the revisions arrive.     *)
RevisionsFindTheirContent ==
  \A i \in here.revs : i \in here.contents \cup here.standins \cup away

(* Whatever has once stood in for a content here keeps it from coming back.*)
ForgottenStaysForgotten ==
  [][\A i \in here.standins : i \in here'.contents => i \in here.contents]_vars

(* What the pages remembered as applied offer, and the publisher has not   *)
(* withdrawn since, is here, or forgotten, or remembered as left behind:   *)
(* no later fetch would look for it again.                                 *)
MissesNothing ==
  LET listing == Composed(memory.chain) IN
  /\ Of("revision", listing) \subseteq here.revs
  /\ Of("standin", listing) \subseteq here.standins
  /\ Of("content", listing) \cap Of("content", Composed(manifest)) \subseteq here.contents \cup here.standins \cup memory.left
MemoryMissesNothing == memory.earned /\ Believed(manifest) => MissesNothing

(* A reader's store never holds a revision whose content it was not given, *)
(* and what its memory says is applied is.                                 *)
FetchingMissesNothing == TypeOK /\ RevisionsFindTheirContent /\ MemoryMissesNothing

(* A store made again where another was finds a cache it did not earn, and *)
(* is not to believe it: no fetch passes over a page of revisions it never *)
(* took.                                                                   *)
UnearnedIsNotBelieved ==
  fetch.step = "idle" /\ Believed(manifest) => Of("revision", Composed(memory.chain)) \subseteq here.revs

(* A bookmark behind the publisher's is not taken for one already weighed. *)
NamesAreNotPassedOver ==
  LET stated == Of("name", Composed(memory.chain)) IN
  fetch.step = "idle" /\ memory.earned /\ Believed(memory.chain) => \A i \in stated : here.main >= i

(* A reader that goes on fetching comes to hold what was published.        *)
CatchesUp ==
  <>[](manifest # <<>> /\ memory.earned => /\ there.revs = here.revs /\ there.standins \subseteq here.standins
                                           /\ here.contents \cap here.standins = {})
=============================================================================
