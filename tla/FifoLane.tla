------------------------------- MODULE FifoLane -------------------------------
(***************************************************************************)
(* What one direction of a session's data lane promises the layer above:   *)
(* messages are handed over once, in the order they were accepted, with    *)
(* bounded backlog, until the session closes.                              *)
(***************************************************************************)
EXTENDS Integers, Sequences

CONSTANTS Data, Backlog

VARIABLES accepted, handed, open

Init == accepted = << >> /\ handed = << >> /\ open = TRUE

Send(d) ==
  /\ open /\ Len(accepted) < Len(handed) + Backlog
  /\ accepted' = Append(accepted, d)
  /\ UNCHANGED <<handed, open>>

\* The receiver of a message may close the session.
HandOver(n) ==
  /\ open /\ n > Len(handed) /\ n <= Len(accepted)
  /\ handed' = [i \in 1..n |-> accepted[i]]
  /\ open' \in BOOLEAN
  /\ UNCHANGED accepted

Close ==
  /\ open /\ open' = FALSE
  /\ UNCHANGED <<accepted, handed>>

Next ==
  \/ \E d \in Data : Send(d)
  \/ \E n \in 1..Len(accepted) : HandOver(n)
  \/ Close

Spec == Init /\ [][Next]_<<accepted, handed, open>>
================================================================================
