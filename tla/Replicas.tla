------------------------------- MODULE Replicas -------------------------------
(***************************************************************************)
(* What synchronisation promises of the logs, whatever the messages do: an *)
(* author extends its own stream, and a replica only ever moves on to a    *)
(* prefix of what another replica holds of it.  Nothing is invented,       *)
(* reordered or shortened, and a sealed stream moves no more.  Nothing is  *)
(* skipped or taken back either, but where another replica has pruned rows *)
(* this one lacks: a retention floor is adopted on trust (SPEC.md 7.10),   *)
(* and what the replica held until then may still be about.                *)
(***************************************************************************)
EXTENDS Integers, Sequences, SequencesExt

CONSTANTS Node, Stream, Author, Starts
VARIABLES log, floor, sealed, left

\* What is, or was, to be had of stream s from the others.
Source(n, s) ==
  {log[m][s] : m \in Node \ {n}} \cup {c.chain : c \in {d \in left : d.s = s}}

Moves(n, s, new) ==
  /\ s \notin sealed[n] /\ Len(log[n][s]) < Len(new)
  /\ log' = [log EXCEPT ![n][s] = new]

Extends(n, s) == IsPrefix(log[n][s], log'[n][s]) /\ UNCHANGED left

\* The rows replica n lacks are pruned elsewhere, and it leaves its own behind.
Jumps(n, s) ==
  /\ \E m \in Node \ {n} : Len(log[n][s]) < floor[m][s]
  /\ left' = left \cup {[s |-> s, chain |-> log[n][s]]}

Write(n, s) == Author[s] = n /\ Extends(n, s) /\ Moves(n, s, log'[n][s]) /\ UNCHANGED sealed

Learn(n, s) ==
  /\ \E h \in Source(n, s) : IsPrefix(log'[n][s], h)
  /\ Extends(n, s) \/ Jumps(n, s)
  /\ Moves(n, s, log'[n][s])
  /\ \/ UNCHANGED sealed
     \/ sealed' = [sealed EXCEPT ![n] = @ \cup {s}]   \* a pending entry contradicted it

Seal(n, s) == sealed' = [sealed EXCEPT ![n] = @ \cup {s}] /\ UNCHANGED <<log, left>>

ReplicasInit == sealed = [n \in Node |-> {}] /\ left = {} /\ \E c \in Starts : log = c.log
ReplicasNext == \E n \in Node, s \in Stream : Write(n, s) \/ Learn(n, s) \/ Seal(n, s)
ReplicasSpec == ReplicasInit /\ [][ReplicasNext]_<<log, sealed, left>>
================================================================================
