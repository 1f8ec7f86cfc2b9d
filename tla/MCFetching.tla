---------------------------- MODULE MCFetching ----------------------------
(* One publisher and one reader. *)
EXTENDS Fetching

\* Two revisions and a stop, or two and a content left behind, or one and both.
MCBudgets == {[records |-> 2, stops |-> 1, leaves |-> 0],
              [records |-> 2, stops |-> 0, leaves |-> 1],
              [records |-> 1, stops |-> 1, leaves |-> 1]}
===========================================================================
