------------------------------- MODULE MCViews -------------------------------
(* Instances of Views for TLC. *)
EXTENDS Views

Puts4 == (1 :> [key |-> "k", del |-> FALSE]) @@ (2 :> [key |-> "m", del |-> FALSE])
  @@ (3 :> [key |-> "k", del |-> TRUE]) @@ (4 :> [key |-> "k", del |-> FALSE])

Times(f, b, r, u, t, a, i) ==
  [fault |-> f, rebuild |-> b, restart |-> r, upgrade |-> u, torn |-> t, archive |-> a, install |-> i]
Faults == Times(1, 1, 1, 1, 1, 1, 1)
Restarting == Times(0, 0, 1, 0, 0, 0, 0)
Archiving == Times(0, 0, 0, 0, 0, 1, 0)
Never == Times(0, 0, 0, 0, 0, 0, 0)
================================================================================
