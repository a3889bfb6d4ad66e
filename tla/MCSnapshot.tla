------------------------------ MODULE MCSnapshot ------------------------------
(* Instances of Snapshot for TLC. *)
EXTENDS Snapshot

Both == [p |-> 2, q |-> 1]
Ones == [p |-> 1, q |-> 1]
One == [p |-> 1]
Times(l, s, c, o) == [loss |-> l, slow |-> s, close |-> c, overflow |-> o]
Faults == Times(1, 1, 1, 1)
Closing == Times(0, 0, 1, 0)
Slow == Times(0, 1, 0, 0)
Never == Times(0, 0, 0, 0)
================================================================================
