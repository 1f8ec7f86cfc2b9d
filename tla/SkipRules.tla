----------------------------- MODULE SkipRules -----------------------------
(***************************************************************************)
(* What a rule of `skipped/' takes (working/mod.rs, working/glob.rs).      *)
(*                                                                         *)
(* A name is a sequence of characters and a path one of names.  A name     *)
(* pattern is the runs between its stars.  A glob is a sequence of parts,  *)
(* a part one of tokens, and a token the set of the characters it takes,   *)
(* save that the empty set is a star; the part `**' is two stars.  A rule  *)
(* has its kind, its value, and for a glob the exceptions to it.           *)
(***************************************************************************)
EXTENDS Naturals, FiniteSets, Sequences, SequencesExt

\* `Pattern::matches': each run between stars where it is first found.
FoundAfter(name, at, run) ==
  LET ends == {n + Len(run) : n \in {m \in at..Len(name) - Len(run) :
                                       SubSeq(name, m + 1, m + Len(run)) = run}}
  IN  IF ends = {} THEN Len(name) + 1 ELSE Min(ends)

\* Slip: the ending is looked for in the whole name.
PatternMatches_OverTheLast(runs, name) ==
  LET after == FoldLeft(LAMBDA at, run : FoundAfter(name, at, run),
                        Len(runs[1]), SubSeq(runs, 2, Len(runs) - 1))
  IN  /\ IsPrefix(runs[1], name)
      /\ IF Len(runs) = 1 THEN name = runs[1]
         ELSE Len(name) >= after /\ IsSuffix(Last(runs), name)

PatternMatches(runs, name) ==
  LET after == FoldLeft(LAMBDA at, run : FoundAfter(name, at, run),
                        Len(runs[1]), SubSeq(runs, 2, Len(runs) - 1))
  IN  /\ IsPrefix(runs[1], name)
      /\ IF Len(runs) = 1 THEN name = runs[1]
         ELSE Len(name) >= after + Len(Last(runs)) /\ IsSuffix(Last(runs), name)

\* `name_matches': a star takes as little as it can, and the last star
\* reached is the one a later failure gives a character to.
Star == {}
AnyDepth == <<Star, Star>>

NameMatches(tokens, name) ==
  LET Loop[token, at, star, from \in Nat] ==
        IF at = Len(name) THEN \A rest \in token + 1..Len(tokens) : tokens[rest] = Star
        ELSE IF token < Len(tokens) /\ tokens[token + 1] = Star
               THEN Loop[token + 1, at, token + 1, at]
        ELSE IF token < Len(tokens) /\ name[at + 1] \in tokens[token + 1]
               THEN Loop[token + 1, at + 1, star, from]
        ELSE star > 0 /\ Loop[star, from + 1, star, from + 1]
  IN  Loop[0, 0, 0, 0]

PartsMatch(parts, path) ==
  LET Rest[part, at \in Nat] ==
        IF part > Len(parts) THEN at > Len(path)
        ELSE IF parts[part] # AnyDepth
               THEN at <= Len(path) /\ NameMatches(parts[part], path[at]) /\ Rest[part + 1, at + 1]
        ELSE IF part = Len(parts) THEN at <= Len(path)
        ELSE \E next \in at..Len(path) + 1 : Rest[part + 1, next]
  IN  Rest[1, 1]

\* A rule: its kind, its value, and for a glob the exceptions to it.
Admits(rule, path) ==
  /\ PartsMatch(rule.what, path)
  /\ \A except \in rule.except : ~PartsMatch(except, path)

Above(path) == {SubSeq(path, 1, n) : n \in 1..Len(path) - 1}

Covers(rule, path) ==
  CASE rule.kind = "Path" -> path = rule.what
    [] rule.kind = "Under" -> IsStrictPrefix(rule.what, path)
    [] rule.kind = "Name" -> PatternMatches(rule.what, Last(path))
    [] rule.kind = "NameUnder" -> \E n \in 1..Len(path) - 1 : PatternMatches(rule.what, path[n])
    [] rule.kind = "Glob" -> Admits(rule, path)
    [] rule.kind = "GlobUnder" -> \E above \in Above(path) : Admits(rule, above)

\* Slip: a rule for files of a name shuts the directories of that name too.
Closes_AnyOfTheName(rule, directory) ==
  \/ rule.kind \in {"Under", "Path"} /\ directory = rule.what
  \/ rule.kind \in {"Name", "NameUnder"} /\ PatternMatches(rule.what, Last(directory))
  \/ rule.kind = "GlobUnder" /\ Admits(rule, directory)

\* `skips_directory', which the walk asks before it goes in.
Closes(rule, directory) ==
  \/ rule.kind \in {"Under", "Path"} /\ directory = rule.what
  \/ rule.kind = "NameUnder" /\ PatternMatches(rule.what, Last(directory))
  \/ rule.kind = "GlobUnder" /\ Admits(rule, directory)

\* `Rule::readable': the plain rule that says what a glob without exceptions says.
Runs(tokens) ==
  FoldLeft(LAMBDA runs, token :
             IF token = Star THEN Append(runs, <<>>)
             ELSE [runs EXCEPT ![Len(runs)] = Append(@, CHOOSE c \in token : TRUE)],
           << <<>> >>, tokens)

Literal(tokens) == \A n \in DOMAIN tokens : Cardinality(tokens[n]) = 1
Starred(tokens) == \A n \in DOMAIN tokens : Cardinality(tokens[n]) <= 1

Readable(rule) ==
  LET under == rule.kind = "GlobUnder"
      kinds == IF under THEN <<"Under", "NameUnder">> ELSE <<"Path", "Name">>
  IN  IF rule.kind \notin {"Glob", "GlobUnder"} \/ rule.except # {} THEN {}
      ELSE IF \A n \in DOMAIN rule.what : Literal(rule.what[n])
        THEN {[kind |-> kinds[1], except |-> {},
               what |-> [n \in DOMAIN rule.what |-> Runs(rule.what[n])[1]]]}
      ELSE IF Len(rule.what) = 2 /\ rule.what[1] = AnyDepth /\ Starred(rule.what[2])
        THEN {[kind |-> kinds[2], except |-> {}, what |-> Runs(rule.what[2])]}
      ELSE {}
-----------------------------------------------------------------------------
\* What each kind of rule is said to take: a value names a path, and a
\* directory's rule takes what is beneath a directory it names.
Cuts(n, length) == {cut \in [0..n -> 0..length] :
                      /\ cut[0] = 0 /\ cut[n] = length
                      /\ \A i \in 1..n : cut[i - 1] <= cut[i]}

TokensSay(tokens, name) ==
  \E cut \in Cuts(Len(tokens), Len(name)) : \A i \in DOMAIN tokens :
    tokens[i] = Star \/ (cut[i] = cut[i - 1] + 1 /\ name[cut[i]] \in tokens[i])

PartsSay(parts, path) ==
  \E cut \in Cuts(Len(parts), Len(path)) : \A i \in DOMAIN parts :
    IF parts[i] = AnyDepth THEN i = Len(parts) => cut[i - 1] < cut[i]
    ELSE cut[i] = cut[i - 1] + 1 /\ TokensSay(parts[i], path[cut[i]])

\* The tokens of a name pattern: its runs, and a star between each two.
Spelled(runs) ==
  LET Letters(run) == [n \in DOMAIN run |-> {run[n]}]
  IN  FoldLeft(LAMBDA tokens, run : tokens \o <<Star>> \o Letters(run),
               Letters(runs[1]), Tail(runs))

NamesPath(rule, path) ==
  CASE rule.kind \in {"Path", "Under"} -> path = rule.what
    [] rule.kind \in {"Name", "NameUnder"} -> TokensSay(Spelled(rule.what), Last(path))
    [] OTHER -> /\ PartsSay(rule.what, path)
                /\ \A except \in rule.except : ~PartsSay(except, path)

Says(rule, path) ==
  IF rule.kind \in {"Under", "NameUnder", "GlobUnder"}
    THEN \E above \in Above(path) : NamesPath(rule, above)
    ELSE NamesPath(rule, path)
=============================================================================
