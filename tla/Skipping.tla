------------------------------ MODULE Skipping ------------------------------
(***************************************************************************)
(* What recording does not take (src/working/mod.rs and the command        *)
(* `skip').                                                                *)
(*                                                                         *)
(* A store states rules, one to a file; a replica's rules are united with  *)
(* another's, so a rule may arrive that nobody could have written here.    *)
(* The walk of the folder asks them, of a directory before it goes in and  *)
(* of a file before it is offered, and what a record is not offered it     *)
(* takes for deleted.                                                      *)
(***************************************************************************)
EXTENDS SkipRules

CONSTANTS Path,        \* the paths a file may stand at
          Rules,       \* the rules a replica may state
          StoreName,   \* `history'
          HeaderName,  \* `historica.txt'
          MaxRules

VARIABLES rules, folder, tracked   \* what is stated, what stands, what the head holds

vars == <<rules, folder, tracked>>
-----------------------------------------------------------------------------
Covering == [rule \in Rules |-> [path \in Path |-> Covers(rule, path)]]

Closing == [rule \in Rules |-> [directory \in UNION {Above(path) : path \in Path} |->
              Closes(rule, directory)]]
-----------------------------------------------------------------------------
\* The walk: a store further down is another working copy's.
Under(directory, path) == IsStrictPrefix(directory, path)

IsStore(directory) ==
  \/ directory = <<StoreName>>
  \/ Last(directory) = StoreName /\ Append(directory, HeaderName) \in folder

Walked(path) ==
  /\ \A above \in Above(path) : ~IsStore(above) /\ \A rule \in rules : ~Closing[rule][above]
  /\ \A rule \in rules : ~Covering[rule][path]

Taken == {path \in folder : Walked(path)}

\* The stores the walk met and went round (`Working::store_holding').
Met == {store \in UNION {Above(path) : path \in folder} :
          /\ Len(store) > 1 /\ IsStore(store)
          /\ \A above \in Above(store) :
               ~IsStore(above) /\ \A rule \in rules : ~Closing[rule][above]}

CoversTracked(rule) == \E path \in tracked : Covering[rule][path]
-----------------------------------------------------------------------------
Init == rules = {} /\ folder = {} /\ tracked = {}

Create(path) ==
  /\ \A other \in folder : other # path /\ ~Under(other, path) /\ ~Under(path, other)
  /\ folder' = folder \cup {path}
  /\ UNCHANGED <<rules, tracked>>

Delete(path) ==
  /\ path \in folder
  /\ folder' = folder \ {path}
  /\ UNCHANGED <<rules, tracked>>

\* `skip': refused where a head holds what it would cover.  A path is taken
\* for a directory where one stands there (`path_scope').
Stands(rule) ==
  LET directory == \E path \in folder : Under(rule.what, path)
  IN  rule.kind = "Path" => ~directory

Skip(rule) ==
  /\ Cardinality(rules \cup {rule}) <= MaxRules
  /\ Stands(rule) /\ ~CoversTracked(rule)
  /\ rules' = rules \cup {rule}
  /\ UNCHANGED <<folder, tracked>>

\* A rule another replica stated: rules are united, and none is asked about.
Receive(rule) ==
  /\ Cardinality(rules \cup {rule}) <= MaxRules
  /\ rules' = rules \cup {rule}
  /\ UNCHANGED <<folder, tracked>>

Drop(rule) ==
  /\ rule \in rules
  /\ rules' = rules \ {rule}
  /\ UNCHANGED <<folder, tracked>>

\* Slip: no store further down is asked about.
Unstated_OfRulesOnly == \A rule \in rules : ~CoversTracked(rule)

\* `record', which refuses (SkipsTracked, TracksAnotherStore) before it
\* describes anything, and otherwise takes what the walk offered.
Unstated == /\ \A rule \in rules : ~CoversTracked(rule)
            /\ \A store \in Met, path \in tracked : ~Under(store, path)

Record ==
  /\ Unstated
  /\ tracked' = Taken
  /\ UNCHANGED <<rules, folder>>

Next ==
  \/ \E path \in Path : Create(path) \/ Delete(path)
  \/ \E rule \in Rules : Skip(rule) \/ Receive(rule) \/ Drop(rule)
  \/ Record

Spec == Init /\ [][Next]_vars
-----------------------------------------------------------------------------
Said == [rule \in Rules, path \in Path |-> Says(rule, path)]
SaidReadably == [rule \in Rules, path \in Path |->
                   \A plain \in Readable(rule) : Says(plain, path) = Says(rule, path)]

\* Everything is what it says it is: rules stated, and files no two of which
\* stand one inside the other.
TypeOK ==
  /\ rules \subseteq Rules /\ Cardinality(rules) <= MaxRules
  /\ tracked \subseteq Path /\ folder \subseteq Path
  /\ \A one, other \in folder : ~Under(one, other)

\* A rule covers the paths its value names and no other: the leftmost run, the
\* one star that is tried again, the `**' that takes no directory and the last
\* `**' that takes at least one lose no cut of the path that fits; and the
\* plain rule `check' and the import put in a glob's place says what it said
\* (working/mod.rs 282-303, 404-421, 616-635; glob.rs 336-376).
RulesCoverWhatTheySay ==
  \A rule \in rules, path \in Path :
    Covering[rule][path] = Said[rule, path] /\ SaidReadably[rule, path]

\* The walk, which asks about whole directories, leaves out the files a rule
\* covers and those of another store, and no others: the file a record would
\* take for deleted is one `record', `skip' and `check' can see the rule
\* covers.  A rule for one exact path is the exception, below
\* (working/mod.rs 754-766 against 404-421).
NamedAsAFile(path) == \E rule \in rules : rule.kind = "Path" /\ Under(rule.what, path)

WalkTakesTheRest ==
  Taken = {path \in folder : /\ \A rule \in rules : ~Said[rule, path]
                             /\ \A above \in Above(path) : ~IsStore(above)
                             /\ ~NamedAsAFile(path)}

\* A record drops a file that is gone from the folder, and never one a rule
\* that arrived after it was recorded keeps from the walk, nor one a store
\* made around it does (record/mod.rs 671-704).
RecordsDropWhatIsGone ==
  [][\A path \in tracked \ tracked' : path \notin folder \/ NamedAsAFile(path)]_vars

\* What the rule for one exact path is said to be: a file of that name and
\* nothing beneath it (cli/src/cli/mod.rs, `path_scope').
RecordsDropOnlyWhatIsGone == [][\A path \in tracked \ tracked' : path \notin folder]_vars
=============================================================================
