---------------------------- MODULE MCChangeSets ----------------------------
(***************************************************************************)
(* Two copies that exchange one change set.  In three scenes any two       *)
(* processes are at work at once, a command and the host's sync of one     *)
(* copy among them: on its submissions, on its tip, and on the decision.   *)
(* Two more have it all, a process at a time.  Five revisions at most: the *)
(* base, other work, the opening, and two of steps, merges and tombstones. *)
(***************************************************************************)
EXTENDS ChangeSets

Scene(atOnce, commands) == [proposer |-> "here", revs |-> 5, atOnce |-> atOnce, commands |-> commands]
MCScenes ==
  {Scene(2, {"submit", "decline"}), Scene(2, {"advance", "decline"}), Scene(2, {"accept", "decline"}),
   Scene(1, {"advance", "submit"}), Scene(1, {"advance", "accept", "decline"})}
=============================================================================
