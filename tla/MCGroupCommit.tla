----------------------------- MODULE MCGroupCommit -----------------------------
(***************************************************************************)
(* Small instances of GroupCommit.                                         *)
(***************************************************************************)
EXTENDS GroupCommit

\* One stamp that merges at every wall clock and one that can be over epsilon;
\* the first makes merge carry.
RemoteStamps == {[l |-> 1, c |-> 1], [l |-> 2, c |-> 0]}
\* Everything at once, and each kind alone or none.
AllFaults == SUBSET {"invalid", "crash"}
================================================================================
