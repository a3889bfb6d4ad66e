-------------------------------- MODULE MCSync --------------------------------
(* Instances of Sync for TLC. *)
EXTENDS Sync

AB == {<<"a", "b">>, <<"b", "a">>}
AuthorAB == [s \in Stream |-> IF s = "s1" THEN "a" ELSE "b"]

\* A start in which node n holds seq l[n][s] of stream s (others nothing).
Holds(l) == [n \in Node |-> [s \in Stream |->
               IF n \in DOMAIN l /\ s \in DOMAIN l[n] THEN l[n][s] ELSE << >>]]
NoFloor == [n \in Node |-> [s \in Stream |-> 0]]
Start(l, f, c, v) ==
  [log |-> Holds(l), floor |-> f, cert |-> c, proto |-> v, faults |-> {}]

X == <<"x">>
XX == <<"x", "x">>

\* a is ahead on s1.
Ahead == Start([a |-> [s1 |-> XX]], NoFloor, {}, 3)
\* a is ahead on s1, b on s2.
Crossed == Start([a |-> [s1 |-> XX], b |-> [s2 |-> X]], NoFloor, {}, 3)
\* a and b hold contradicting second entries of s1.
Forked == Start([a |-> [s1 |-> XX], b |-> [s1 |-> <<"x", "y", "y">>]], NoFloor, {}, 3)
\* a has pruned the first entry of s1; b holds nothing.
Pruned(v) == Start([a |-> [s1 |-> XX]], [NoFloor EXCEPT !["a"]["s1"] = 1], {}, v)
\* a has pruned the first two entries of s1; b holds another first entry, which
\* adopting a's floor covers up.
Covered == Start([a |-> [s1 |-> <<"x", "x", "x">>], b |-> [s1 |-> <<"y">>]],
                 [NoFloor EXCEPT !["a"]["s1"] = 2], {}, 3)
\* Nodes cs hold the certificate, which refuses s2's first entry.
Certified(cs) == Start([a |-> [s1 |-> X, s2 |-> X]], NoFloor, cs, 3)

With(starts, kinds) == {[c EXCEPT !.faults = kinds] : c \in starts}
Each == {Ahead, Forked, Pruned(2), Pruned(3), Covered, Certified({"a"}), Certified({"b"})}
Everything == {"append", "prune", "tick", "loss", "race", "reopen"}

\* Every start loses a message or a session; the slower faults meet one start each.
Faulty ==
  With(Each, {"loss", "reopen"}) \cup With({Ahead}, {"append", "prune", "race", "tick"})
Wide == With((Each \cup {Crossed}) \ {Ahead}, Everything)
Steady == With({Ahead}, {})
Busy == With({Crossed}, Everything)
Refuse == {<<"s2", 1>>}
================================================================================
