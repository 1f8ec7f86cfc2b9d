------------------------------ MODULE Contents ------------------------------
(***************************************************************************)
(* What `operations/` promises: it is a set of contents.  A command is     *)
(* asked, and what it says of a content was so at some moment while it ran;*)
(* one that files or destroys does it at a moment of its own, and to that  *)
(* content only.  What the files are called, and what any catalogue says   *)
(* of them, changes no content.  But a command that looks for one finds it *)
(* for certain only if nobody brought it, took it away or moved it about   *)
(* meanwhile: it lists the files before it reads them, and locks nothing.  *)
(***************************************************************************)
EXTENDS Naturals

CONSTANTS
    Documents, Payloads,   \* the contents
    Forgets,               \* which content each forgetting document stands in for
    Commands

VARIABLES
    here,    \* the contents the directory has
    ask,     \* what each command was asked, how far it is, what it said, and
             \* which contents others have stirred since
    acts     \* how often somebody else did something

vars == <<here, ask, acts>>

Ids == Documents \cup Payloads
Questions == [does : {"read", "file", "holds", "drop", "arrange"}, id : Ids \cup {"none"},
              stage : {"asked"}, said : {"nothing"}, stirred : {{}}]
Unasked == [does |-> "nothing", id |-> "none", stage |-> "idle", said |-> "nothing", stirred |-> {}]

\* What was here at some moment since a command was asked, and what stood here,
\* where it was, all along.
EverHere(c) == here \cup ask[c].stirred
AllAlong(c) == here \ ask[c].stirred

\* Others are told of a content that is brought, taken away or moved.
Stirring(id, but) ==
    [c \in Commands |-> IF c = but \/ ask[c].stage # "asked" THEN ask[c]
                        ELSE [ask[c] EXCEPT !.stirred = @ \cup {id}]]

\* What a command may say without having changed anything.
MaySay(c, does, id, said) ==
    \/ does = "read" /\ said = "whole" /\ id \in EverHere(c)
    \/ does = "read" /\ said \in {"redacted", "refused"}
         /\ \E s \in EverHere(c) : s \in DOMAIN Forgets /\ Forgets[s] = id
    \/ does = "read" /\ said = "absent" /\ id \notin AllAlong(c)
    \/ does = "read" /\ said = "failed" /\ id \in ask[c].stirred
    \/ does = "holds" /\ said = "held" /\ id \in here
    \/ does = "holds" /\ said = "elsewhere"
    \/ does = "file" /\ said = "held" /\ id \in here
    \/ does = "file" /\ said = "refused"
    \/ does = "drop" /\ said = "absent"
    \/ does = "arrange" /\ said \in {"dropped", "failed"}

-----------------------------------------------------------------------------
Init ==
    /\ here = {}
    /\ ask = [c \in Commands |-> Unasked]
    /\ acts = 0

Ask(c) ==
    /\ ask[c].stage \in {"idle", "done"}
    /\ ask'[c] \in Questions
    /\ ask' = [ask EXCEPT ![c] = ask'[c]]
    /\ UNCHANGED <<here, acts>>

Say(c) ==
    /\ ask[c].stage = "asked"
    /\ ask'[c].stage = "done"
    /\ MaySay(c, ask[c].does, ask[c].id, ask'[c].said)
    /\ ask' = [ask EXCEPT ![c].stage = "done", ![c].said = ask'[c].said, ![c].stirred = {}]
    /\ UNCHANGED <<here, acts>>

File(c) ==
    /\ ask[c].does = "file"
    /\ ask[c].stage = "asked"
    /\ here' = here \cup {ask[c].id}
    /\ ask' = [Stirring(ask[c].id, c) EXCEPT ![c].stage = "acted", ![c].stirred = {}]
    /\ UNCHANGED acts

\* There may be another copy of what is destroyed.
Drop(c) ==
    /\ ask[c].does = "drop"
    /\ ask[c].stage = "asked"
    /\ ask[c].id \in here
    /\ here' \in {here, here \ {ask[c].id}}
    /\ ask' = [Stirring(ask[c].id, c) EXCEPT ![c].stage = "acted", ![c].stirred = {}]
    /\ UNCHANGED acts

\* Arranging moves one content and changes none.
Arrange(c) ==
    /\ ask[c].does = "arrange"
    /\ ask[c].stage = "asked"
    /\ \E id \in here : ask' = Stirring(id, c)
    /\ UNCHANGED <<here, acts>>

End(c) ==
    /\ ask[c].stage = "acted"
    /\ ask' = [ask EXCEPT ![c].stage = "done",
                          ![c].said = IF ask[c].does = "file" THEN "filed" ELSE "dropped"]
    /\ UNCHANGED <<here, acts>>

Stop(c) ==
    /\ acts' = acts + 1
    /\ ask' = [ask EXCEPT ![c] = Unasked]
    /\ UNCHANGED here

\* A hand or a syncer brings one content, takes one away or moves it; or clears a
\* cache, which is nothing to anybody.
Meddle ==
    /\ acts' = acts + 1
    /\ \/ \E id \in Ids : /\ here' \in {here, here \cup {id}, here \ {id}}
                          /\ ask' = Stirring(id, "nobody")
       \/ UNCHANGED <<here, ask>>

Next ==
    \/ \E c \in Commands : Ask(c) \/ Say(c) \/ File(c) \/ Drop(c) \/ Arrange(c) \/ End(c) \/ Stop(c)
    \/ Meddle

Spec == Init /\ [][Next]_vars

=============================================================================
