-------------------------------- MODULE MCSubs --------------------------------
(* Instances of Subs for TLC. *)
EXTENDS Subs

Times(r, l, c, d, t, u, n) ==
  [reset |-> r, loss |-> l, race |-> c, redial |-> d, throw |-> t, close |-> u, deny |-> n]
Faults == Times(1, 1, 1, 1, 0, 1, 1)
Throwing == Times(0, 0, 0, 0, 1, 0, 0)
================================================================================
