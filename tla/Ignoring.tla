------------------------------ MODULE Ignoring ------------------------------
(***************************************************************************)
(* What git ignores, said as skip rules (git/src/ignored.rs).              *)
(*                                                                         *)
(* An import into a folder git keeps too reads git's ignore files, lowest  *)
(* precedence first, and carries the lines a rule can say exactly.  A line *)
(* is `!' or not, ends in `/' or not, starts with `/' or not, and has its  *)
(* parts, as a glob has them.  A nested file's lines apply beneath Nest.   *)
(***************************************************************************)
EXTENDS SkipRules

CONSTANTS Path, Lines, Nest, MaxLines

VARIABLES lines, nested, tracked   \* git's ignore files, and what its index holds

vars == <<lines, nested, tracked>>
-----------------------------------------------------------------------------
\* `scopes': the rules that together say what a line says, none where it is
\* left to be said by hand.
Rule(kind, what) == [kind |-> kind, what |-> what, except |-> {}]

Plainly(parts) == \A n \in DOMAIN parts : Literal(parts[n])

\* Slip: only the first slash anchors a line.
Anchored_ByTheFirst(line) == line.lead

\* A slash anywhere but at the end.
Anchored(line) == line.lead \/ Len(line.parts) > 1
AtAnyDepth(line) == ~line.lead /\ Len(line.parts) > 1 /\ line.parts[1] = AnyDepth
Beneath(line) == Anchored(line) /\ Last(line.parts) = AnyDepth /\ ~AtAnyDepth(line)

Scopes(line) ==
  LET value == IF AtAnyDepth(line) THEN Tail(line.parts)
               ELSE IF Beneath(line) THEN Front(line.parts) ELSE line.parts
      under == line.directory \/ Beneath(line)
      Both(file, directory, what) ==
        {Rule(directory, what)} \cup (IF under THEN {} ELSE {Rule(file, what)})
  IN  IF value = <<>> \/ AnyDepth \in ToSet(value) THEN {}
      ELSE IF Anchored(line) /\ ~AtAnyDepth(line)
        THEN IF Plainly(value)
               THEN Both("Path", "Under", [n \in DOMAIN value |-> Runs(value[n])[1]])
               ELSE {}
      ELSE IF Len(value) = 1 /\ Starred(value[1]) /\ ToSet(value[1]) # {Star}
        THEN Both("Name", "NameUnder", Runs(value[1]))
      ELSE {}

Scoped == [line \in Lines |-> Scopes(line)]
Covering(line, path) == \E rule \in Scoped[line] : Covers(rule, path)
Covered == [line \in Lines, path \in Path |-> Covering(line, path)]

\* Slip: the files further down are not looked in.
NegatedAfter_InTheFile(at) == \E n \in at + 1..Len(lines) : lines[n].negated

\* Slip: the lines before are looked at.
NegatedAfter_Before(at) == \/ \E n \in 1..at - 1 : lines[n].negated
                           \/ \E n \in DOMAIN nested : nested[n].negated

\* `negated_after': a later `!', or any in a file further down.
NegatedAfter(at) == \/ \E n \in at + 1..Len(lines) : lines[n].negated
                    \/ \E n \in DOMAIN nested : nested[n].negated

Carried(at) ==
  /\ ~lines[at].negated /\ Scoped[lines[at]] # {}
  /\ ~NegatedAfter(at)
  /\ \A path \in tracked : ~Covered[lines[at], path]

\* `translate', and the import that adds what it came to.
Translated == {at \in DOMAIN lines : Carried(at)}
Left == (DOMAIN lines \ Translated) \cup DOMAIN nested

Skips(path) == \E at \in Translated : Covered[lines[at], path]
-----------------------------------------------------------------------------
Init == lines = <<>> /\ nested = <<>> /\ tracked = {}

WriteLine(line) ==
  /\ Len(lines) + Len(nested) < MaxLines
  /\ \/ lines' = Append(lines, line) /\ UNCHANGED nested
     \/ nested' = Append(nested, line) /\ UNCHANGED lines
  /\ UNCHANGED tracked

Add(path) ==
  /\ tracked' = tracked \cup {path}
  /\ UNCHANGED <<lines, nested>>

Next == (\E line \in Lines : WriteLine(line)) \/ (\E path \in Path : Add(path))

Spec == Init /\ [][Next]_vars
-----------------------------------------------------------------------------
\* git's own reading (external): the last line that matches decides, a file
\* further down has the last word, and what is in a directory that is ignored
\* is not looked at.
Matches(line, path, directory) ==
  /\ line.directory => directory
  /\ IF Anchored(line) THEN PartsSay(line.parts, path)
     ELSE TokensSay(line.parts[1], Last(path))

Matched == [line \in Lines, path \in Path \cup UNION {Above(path) : path \in Path},
              directory \in BOOLEAN |-> Matches(line, path, directory)]

Excluded(path, directory) ==
  LET inside == IF IsStrictPrefix(Nest, path) THEN SubSeq(path, Len(Nest) + 1, Len(path)) ELSE <<>>
      below == {n \in DOMAIN nested : inside # <<>> /\ Matches(nested[n], inside, directory)}
      above == {n \in DOMAIN lines : Matched[lines[n], path, directory]}
  IN  IF below # {} THEN ~nested[Max(below)].negated
      ELSE above # {} /\ ~lines[Max(above)].negated

Ignored(path) ==
  \/ \E above \in Above(path) : Excluded(above, TRUE)
  \/ Excluded(path, FALSE)

\* The files are what they say.
TypeOK == /\ lines \in Seq(Lines) /\ nested \in Seq(Lines)
          /\ Len(lines) + Len(nested) <= MaxLines /\ tracked \subseteq Path

\* A rule made of git's lines keeps out nothing git would commit: no file its
\* index holds, none a `!' anywhere lets in again, and none its line does not
\* name.  The line `a/**/' is the exception: git takes it for the directories
\* in a and the rule takes the files there too (ignored.rs 8-15, 45-60).
NothingGitKeepsIsSkipped ==
  \A path \in Path : Skips(path) =>
    /\ path \notin tracked
    /\ Ignored(path) \/ \E at \in Translated : Beneath(lines[at]) /\ lines[at].directory

\* Where no line was left to be said by hand the rules say all of it
\* (ignored.rs 13-15).
CarriedWholeIsExact == Left = {} => \A path \in Path : Ignored(path) => Skips(path)

\* What the module says without the exception.
RulesSkipNothingGitKeeps == \A path \in Path : Skips(path) => Ignored(path)

=============================================================================
