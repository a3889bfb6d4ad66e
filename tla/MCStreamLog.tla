----------------------------- MODULE MCStreamLog -----------------------------
(***************************************************************************)
(* Small instances of StreamLog: two branches of one stream that split     *)
(* after the first entry (a writer restored from a backup), as peers send  *)
(* them.                                                                   *)
(***************************************************************************)
EXTENDS StreamLog

CONSTANTS a, b    \* the payloads of the two branches

\* The entry that extends chain ch with body x stamped h.
Extend(ch, x, h) ==
  LET e == [seq |-> Len(ch) + 1, hlc |-> h, body |-> x]
  IN [seq |-> e.seq, hlc |-> h, body |-> x, chain |-> chainOf(ch, e)]

A1 == Extend(Seed, a, 1)
A2 == Extend(A1.chain, a, 2)
A3 == Extend(A2.chain, a, 3)
B2 == Extend(A1.chain, b, 2)
B3 == Extend(B2.chain, b, 4)

PointOf(e) == [seq |-> e.seq, chain |-> e.chain]
Retire(g, e) == [rgen |-> g, state |-> "retired", finalSeq |-> e.seq, finalChain |-> e.chain]
Live(g) == [rgen |-> g, state |-> "live", finalSeq |-> 0, finalChain |-> Seed]

\* Bounded inputs of the runs.
AllEntries == {A1, A2, A3, B2, B3}
OneBranch == {A1, A2, A3}
ThreeDirectives == {Retire(1, A2), Live(2), Retire(3, B3)}
TwoDirectives == {Retire(1, A2), Live(2)}
RetireTwice == {Retire(1, A1), Retire(2, A2)}
RetireUnretire == {Retire(1, A1), Live(2)}
RetireOther == {Retire(1, B3), Live(2)}
LateCerts == {[generation |-> 1, hlc |-> 2, tie |-> 9, cut |-> PointOf(A1)],
              [generation |-> 2, hlc |-> 3, tie |-> 9, cut |-> PointOf(A2)]}
CutAt2 == {[generation |-> 1, hlc |-> 3, tie |-> 9, cut |-> PointOf(A2)]}
CutAt1 == {[generation |-> 1, hlc |-> 2, tie |-> 9, cut |-> PointOf(A1)]}
TwoCerts == {[generation |-> 1, hlc |-> 1, tie |-> 9, cut |-> PointOf(A1)],
             [generation |-> 2, hlc |-> 2, tie |-> 9, cut |-> PointOf(A2)]}
SnapshotAt2 == {PointOf(A2)}
FloorAt2 == {PointOf(A2)}
None == {}
================================================================================
