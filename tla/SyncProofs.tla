------------------------------ MODULE SyncProofs ------------------------------
(***************************************************************************)
(* Synchronisation implements Replicas, for any number of replicas,        *)
(* streams, links, faults and any starting logs.                           *)
(*                                                                         *)
(* The logs move in three steps only: an append, a flushed ENTRIES frame   *)
(* and an adopted floor.  What the last two apply was put in a message     *)
(* long before, by a replica that may have moved since, and reached the    *)
(* log through a lane, a commit queue and perhaps the pending table.  The  *)
(* invariant follows those chains: wherever one is, it is a prefix of what *)
(* some other replica holds or has left behind (Backed).  The rest of the  *)
(* invariant says as much of the peer states and the control messages as   *)
(* it takes to know which messages they turn into.                         *)
(*                                                                         *)
(* The predicates take the logs they speak of as an argument W, so that a  *)
(* lemma can compare two states: an action is first shown to leave         *)
(* everything right by the old logs, and Grows then carries it to the new. *)
(***************************************************************************)
EXTENDS Sync, FiniteSetTheorems, SequenceTheorems, WellFoundedInduction, TLAPS

World == [log |-> log, floor |-> floor, left |-> left]

SourceOf(W, n, s) ==
  {W.log[m][s] : m \in Node \ {n}} \cup {c.chain : c \in {d \in W.left : d.s = s}}

\* A chain that n may be given for stream s, and a floor: pruned by some other replica.
Backed(W, n, s, c) == c \in Seq(Content) /\ \E h \in SourceOf(W, n, s) : IsPrefix(c, h)
FloorBacked(W, n, s, c) == Backed(W, n, s, c) /\ \E m \in Node \ {n} : Len(c) <= W.floor[m][s]

IsSeq(q) == \E S : q \in Seq(S)
AllBacked(W, n, s, cs) == IsSeq(cs) /\ \A c \in ToSet(cs) : Backed(W, n, s, c)

WorldOK(W) ==
  /\ W.log \in [Node -> [Stream -> Seq(Content)]] /\ W.floor \in [Node -> [Stream -> Nat]]
  /\ \A n \in Node, s \in Stream : Len(W.log[n][s]) <= MaxSeq /\ W.floor[n][s] <= Len(W.log[n][s])
  /\ \A d \in W.left : d.chain \in Seq(Content) /\ Len(d.chain) <= MaxSeq

PendingOK(W, P) ==
  /\ P \in [Node -> [Stream -> SUBSET Seq(Content)]]
  /\ \A n \in Node, s \in Stream : \A c \in P[n][s] : Backed(W, n, s, c)

LogInv == WorldOK(World) /\ PendingOK(World, pending) /\ sealed \in [Node -> SUBSET Stream]

\* The requests of a session, and the pages of a HAVE round.
ReqOK(r) ==
  \/ r.t = "HAVE_GET"
  \/ r.t = "WANT" /\ r.s \in Stream /\ r.from \in 1..MaxSeq + 1
  \/ r.t = "PROBE" /\ r.s \in Stream /\ r.seqs \subseteq Nat

PageOK(p) ==
  /\ p.t = "HAVE" /\ IsFiniteSet(p.vector)
  /\ \A w \in p.vector : w.s \in Stream /\ w.chain \in Seq(Content)

PeerFields == {"expected", "pages", "captured", "active", "wantQueue", "wanted", "progress",
               "stalled", "known", "dirty", "pump", "reqs", "proto"}

PeerOK(x) ==
  /\ DOMAIN x = PeerFields
  /\ \A r \in x.reqs : ReqOK(r)
  /\ IsFiniteSet(x.pages) /\ \A p \in x.pages : PageOK(p)
  /\ \A c \in x.captured : \A p \in c.pages : PageOK(p)
  /\ x.wantQueue \in Seq(Stream) /\ x.known \in [Stream -> Nat] /\ x.dirty \subseteq Stream

\* A control message from l[1] to l[2], and a data frame.
ProbeOK(W, n, m) ==
  m.s \in Stream /\ \A c \in m.points : /\ c \in Seq(Content)
                                        /\ W.left = {} => IsPrefix(c, W.log[n][m.s])

MsgOK(W, l, m) ==
  \/ ReqOK(m) \/ PageOK(m) \/ m.t = "FINALITY"
  \/ m.t = "TRUNCATED" /\ m.s \in Stream /\ FloorBacked(W, l[2], m.s, m.chain)
  \/ m.t = "PROBE_RES" /\ ProbeOK(W, l[1], m)

FrameOK(W, l, f) == f.s \in Stream /\ f.to \in Nat /\ AllBacked(W, l[2], f.s, f.entries)

\* An operation in the commit queue of n, and one whose callback is due.
DoneOK(n, q) ==
  {"t", "link", "s"} \subseteq DOMAIN q /\ q.s \in Stream /\ q.link \in Link /\ q.link[1] = n

ItemOK(W, n, q) ==
  /\ DoneOK(n, q)
  /\ q.t = "entries" => "entries" \in DOMAIN q /\ AllBacked(W, n, q.s, q.entries)
  /\ q.t = "floor" => "chain" \in DOMAIN q /\ FloorBacked(W, n, q.s, q.chain)

PeersOK(p) == DOMAIN p = Link /\ \A l \in Link : PeerOK(p[l])
CtlOK(W, c) == DOMAIN c = Link /\ \A l \in Link : \A m \in c[l] : MsgOK(W, l, m)
LaneOK(W, d) ==
  DOMAIN d = Link /\ \A l \in Link : IsSeq(d[l]) /\ \A f \in ToSet(d[l]) : FrameOK(W, l, f)
QueueOK(W, q) ==
  DOMAIN q = Node /\ \A n \in Node : IsSeq(q[n]) /\ \A e \in ToSet(q[n]) : ItemOK(W, n, e)
SettledOK(q) ==
  DOMAIN q = Node /\ \A n \in Node : IsSeq(q[n]) /\ \A e \in ToSet(q[n]) : DoneOK(n, e)

\* Until a floor covers rows up, fork evidence stays true.
Agree(W, v) ==
  /\ v.link \in Link /\ v.s \in Stream /\ v.lastCommon \in Nat
  /\ \A k \in {1, 2} : v.lastCommon <= Len(W.log[v.link[k]][v.s])
  /\ \A i \in 1..v.lastCommon : W.log[v.link[1]][v.s][i] = W.log[v.link[2]][v.s][i]

EvidenceOK(W, e) == W.left = {} => \A v \in e : Agree(W, v)

Inv ==
  /\ LogInv /\ PeersOK(ps) /\ CtlOK(World, ctl) /\ LaneOK(World, lane)
  /\ QueueOK(World, queue) /\ SettledOK(settled) /\ EvidenceOK(World, evidence)

\* Chains only get longer, or are left behind.
Grows(W, V) ==
  /\ W.left \subseteq V.left
  /\ \A n \in Node, s \in Stream :
       /\ W.floor[n][s] <= V.floor[n][s]
       /\ IsPrefix(W.log[n][s], V.log[n][s]) \/ [s |-> s, chain |-> W.log[n][s]] \in V.left
--------------------------------------------------------------------------------
(* Sequences *)

\* Append adds one element.
LEMMA AppendSet ==
  ASSUME NEW q, IsSeq(q), NEW e
  PROVE  IsSeq(Append(q, e)) /\ ToSet(Append(q, e)) = ToSet(q) \cup {e}
<1>1. PICK S : q \in Seq(S)  BY DEF IsSeq
<1> DEFINE a == Append(q, e)
<1>2. q \in Seq(S \cup {e})  BY <1>1
<1>3. a \in Seq(S \cup {e})  BY <1>2
<1>4. Len(a) = Len(q) + 1 /\ a[Len(q) + 1] = e /\ \A i \in 1..Len(q) : a[i] = q[i]  BY <1>2
<1>5. DOMAIN q = 1..Len(q) /\ DOMAIN a = 1..Len(a) /\ Len(q) \in Nat  BY <1>1, <1>3
<1> HIDE DEF a
<1>6. ToSet(a) = ToSet(q) \cup {e}
  <2>1. ASSUME NEW i \in 1..Len(a) PROVE a[i] \in ToSet(q) \cup {e}
    <3>1. i \in 1..Len(q) \/ i = Len(q) + 1  BY <1>4, <1>5
    <3> QED BY <1>4, <1>5, <3>1 DEF ToSet
  <2>2. \A i \in 1..Len(q) : i \in 1..Len(a)  BY <1>4, <1>5
  <2>3. Len(q) + 1 \in 1..Len(a)  BY <1>4, <1>5
  <2>4. ToSet(q) \subseteq ToSet(a)  BY <1>4, <1>5, <2>2 DEF ToSet
  <2>5. e \in ToSet(a)  BY <1>4, <1>5, <2>3 DEF ToSet
  <2>6. ToSet(a) \subseteq ToSet(q) \cup {e}  BY <1>5, <2>1 DEF ToSet
  <2> QED BY <2>4, <2>5, <2>6
<1>7. IsSeq(a)  BY <1>3 DEF IsSeq
<1> QED BY <1>6, <1>7 DEF a

\* Tail drops the head.
LEMMA TailSet ==
  ASSUME NEW q, IsSeq(q), q # << >>
  PROVE  IsSeq(Tail(q)) /\ ToSet(Tail(q)) \subseteq ToSet(q) /\ Head(q) \in ToSet(q)
<1>1. PICK S : q \in Seq(S)  BY DEF IsSeq
<1>2. /\ Tail(q) \in Seq(S) /\ Len(Tail(q)) = Len(q) - 1 /\ Head(q) = q[1] /\ Len(q) \in Nat
      /\ Len(q) >= 1 /\ \A i \in 1..Len(q) - 1 : Tail(q)[i] = q[i + 1]
  BY <1>1
<1>3. DOMAIN q = 1..Len(q) /\ DOMAIN Tail(q) = 1..Len(q) - 1  BY <1>1, <1>2
<1>4. Head(q) \in ToSet(q)
  <2>1. 1 \in DOMAIN q  BY <1>2, <1>3
  <2> QED BY <1>2, <2>1 DEF ToSet
<1>5. ToSet(Tail(q)) \subseteq ToSet(q)
  <2>1. \A i \in 1..Len(q) - 1 : i + 1 \in DOMAIN q  BY <1>2, <1>3
  <2> QED BY <1>2, <1>3, <2>1 DEF ToSet
<1> QED BY <1>2, <1>4, <1>5 DEF IsSeq

\* A concatenation has the elements of its parts.
LEMMA CatSet ==
  ASSUME NEW q, NEW r, IsSeq(q), IsSeq(r)
  PROVE  IsSeq(q \o r) /\ ToSet(q \o r) \subseteq ToSet(q) \cup ToSet(r)
<1>1. PICK S : q \in Seq(S)  BY DEF IsSeq
<1>2. PICK T : r \in Seq(T)  BY DEF IsSeq
<1>3. q \in Seq(S \cup T) /\ r \in Seq(S \cup T)  BY <1>1, <1>2
<1> DEFINE a == q \o r
<1>4. /\ a \in Seq(S \cup T) /\ Len(a) = Len(q) + Len(r) /\ Len(q) \in Nat /\ Len(r) \in Nat
      /\ \A i \in 1..Len(q) + Len(r) : a[i] = IF i <= Len(q) THEN q[i] ELSE r[i - Len(q)]
  BY <1>3, ConcatProperties
<1>5. DOMAIN q = 1..Len(q) /\ DOMAIN r = 1..Len(r) /\ DOMAIN a = 1..Len(q) + Len(r)
  BY <1>3, <1>4
<1> HIDE DEF a
<1>6. ASSUME NEW i \in DOMAIN a PROVE a[i] \in ToSet(q) \cup ToSet(r)
  <2>1. CASE i <= Len(q)
    <3>1. i \in DOMAIN q /\ a[i] = q[i]  BY <1>4, <1>5, <1>6, <2>1
    <3> QED BY <3>1 DEF ToSet
  <2>2. CASE ~(i <= Len(q))
    <3>1. i - Len(q) \in DOMAIN r /\ a[i] = r[i - Len(q)]  BY <1>4, <1>5, <1>6, <2>2
    <3> QED BY <3>1 DEF ToSet
  <2> QED BY <2>1, <2>2
<1>7. ToSet(a) \subseteq ToSet(q) \cup ToSet(r)  BY <1>6 DEF ToSet
<1>8. IsSeq(a)  BY <1>4 DEF IsSeq
<1> QED BY <1>7, <1>8 DEF a

\* A prefix has no element of its own.
LEMMA CutSet ==
  ASSUME NEW q, IsSeq(q), NEW k \in Int, k <= Len(q)
  PROVE  IsSeq(SubSeq(q, 1, k)) /\ ToSet(SubSeq(q, 1, k)) \subseteq ToSet(q)
<1>1. PICK S : q \in Seq(S)  BY DEF IsSeq
<1> DEFINE a == SubSeq(q, 1, k)
<1>2. a \in Seq(S)  BY <1>1
<1>3. DOMAIN q = 1..Len(q) /\ Len(q) \in Nat  BY <1>1
<1>4. DOMAIN a = 1..k /\ \A i \in 1..k : a[i] = q[i]
  BY <1>1
<1>5. \A i \in 1..k : i \in DOMAIN q  BY <1>3
<1> HIDE DEF a
<1>6. ToSet(a) \subseteq ToSet(q)  BY <1>4, <1>5 DEF ToSet
<1> QED BY <1>2, <1>6 DEF IsSeq, a

\* The empty sequence has none.
LEMMA NilSet ==
  ASSUME NEW q, q = << >>
  PROVE  IsSeq(q) /\ ToSet(q) = {}
<1>1. q \in Seq(Nat) /\ DOMAIN q = {}  OBVIOUS
<1>2. IsSeq(q)  BY <1>1 DEF IsSeq
<1>3. ToSet(q) = {}  BY <1>1 DEF ToSet
<1> QED BY <1>2, <1>3

\* A sequence of one.
LEMMA OneSeq == \A e : IsSeq(<<e>>) /\ ToSet(<<e>>) = {e}
<1> SUFFICES ASSUME NEW e PROVE IsSeq(<<e>>) /\ ToSet(<<e>>) = {e}  OBVIOUS
<1>1. <<e>> \in Seq({e})  OBVIOUS
<1>2. DOMAIN <<e>> = {1} /\ <<e>>[1] = e  OBVIOUS
<1> QED BY <1>1, <1>2 DEF IsSeq, ToSet

\* SetToSeq lists elements of the set.
LEMMA SetSeq ==
  ASSUME NEW S, IsFiniteSet(S)
  PROVE  SetToSeq(S) \in Seq(S) /\ IsSeq(SetToSeq(S)) /\ ToSet(SetToSeq(S)) \subseteq S
<1>1. Cardinality(S) \in Nat /\ ExistsBijection(1..Cardinality(S), S)  BY FS_CardinalityType
<1>2. PICK f : f \in Bijection(1..Cardinality(S), S)  BY <1>1 DEF ExistsBijection
<1>3. f \in [1..Cardinality(S) -> S] /\ IsInjective(f)
  BY <1>2 DEF Bijection, Injection, IsInjective
<1>4. SetToSeq(S) \in [1..Cardinality(S) -> S]  BY <1>3 DEF SetToSeq
<1>5. SetToSeq(S) \in Seq(S)  BY <1>1, <1>4
<1>6. ToSet(SetToSeq(S)) \subseteq S  BY <1>4 DEF ToSet
<1> QED BY <1>5, <1>6 DEF IsSeq
--------------------------------------------------------------------------------
(* Prefixes *)

\* IsPrefix, element by element.
LEMMA PrefixIs ==
  ASSUME NEW S, NEW c \in Seq(S), NEW d \in Seq(S)
  PROVE  IsPrefix(c, d) <=> Len(c) <= Len(d) /\ \A i \in 1..Len(c) : c[i] = d[i]
<1>1. Len(c) \in Nat /\ Len(d) \in Nat /\ DOMAIN c = 1..Len(c) /\ DOMAIN d = 1..Len(d)
  OBVIOUS
<1>2. SubSeq(c, 1, Len(c)) = [i \in 1..Len(c) |-> c[i]]  OBVIOUS
<1>3. Len(c) <= Len(d) => SubSeq(d, 1, Len(c)) = [i \in 1..Len(c) |-> d[i]]  OBVIOUS
<1> QED BY <1>1, <1>2, <1>3 DEF IsPrefix

\* A sequence is a prefix of itself.
LEMMA PrefixSelf ==
  ASSUME NEW S, NEW c \in Seq(S)
  PROVE  IsPrefix(c, c)
<1>1. Len(c) <= Len(c) OBVIOUS
<1> QED BY <1>1, PrefixIs

\* A prefix of a prefix is one.
LEMMA PrefixTrans ==
  ASSUME NEW S, NEW c \in Seq(S), NEW d \in Seq(S), NEW e \in Seq(S), IsPrefix(c, d), IsPrefix(d, e)
  PROVE  IsPrefix(c, e)
<1>1. Len(c) <= Len(d) /\ \A i \in 1..Len(c) : c[i] = d[i]  BY PrefixIs
<1>2. Len(d) <= Len(e) /\ \A i \in 1..Len(d) : d[i] = e[i]  BY PrefixIs
<1>3. Len(c) \in Nat /\ Len(d) \in Nat /\ Len(e) \in Nat  OBVIOUS
<1>4. Len(c) <= Len(e) /\ \A i \in 1..Len(c) : c[i] = e[i]  BY <1>1, <1>2, <1>3
<1> QED BY <1>4, PrefixIs

\* What Chain cuts off a log is a prefix of it.
LEMMA PrefixCut ==
  ASSUME NEW S, NEW c \in Seq(S), NEW k \in Nat, k <= Len(c)
  PROVE  /\ SubSeq(c, 1, k) \in Seq(S) /\ Len(SubSeq(c, 1, k)) = k
         /\ IsPrefix(SubSeq(c, 1, k), c)
<1> DEFINE a == SubSeq(c, 1, k)
<1>1. a \in Seq(S) /\ Len(a) = k /\ \A i \in 1..k : a[i] = c[i]  OBVIOUS
<1> HIDE DEF a
<1>2. IsPrefix(a, c)  BY <1>1, PrefixIs
<1> QED BY <1>1, <1>2 DEF a
--------------------------------------------------------------------------------
(* What is right by some logs stays right by later ones *)

\* What is to be had of a stream is a bounded sequence.
LEMMA SourceSeq ==
  ASSUME NEW W, WorldOK(W), NEW n \in Node, NEW s \in Stream
  PROVE  \A h \in SourceOf(W, n, s) : h \in Seq(Content) /\ Len(h) <= MaxSeq
BY DEF SourceOf, WorldOK

\* A chain backed by a log is backed by its extension, or by what was left behind.
LEMMA BackedGrows ==
  ASSUME NEW W, NEW V, WorldOK(W), WorldOK(V), Grows(W, V), NEW n \in Node, NEW s \in Stream,
         NEW c, Backed(W, n, s, c)
  PROVE  Backed(V, n, s, c)
<1>1. PICK h \in SourceOf(W, n, s) : IsPrefix(c, h)  BY DEF Backed
<1>2. c \in Seq(Content) /\ h \in Seq(Content)  BY SourceSeq DEF Backed
<1>3. CASE \E m \in Node \ {n} : h = W.log[m][s]
  <2>1. PICK m \in Node \ {n} : h = W.log[m][s]  BY <1>3
  <2>2. CASE IsPrefix(h, V.log[m][s])
    <3>1. V.log[m][s] \in SourceOf(V, n, s)  BY DEF SourceOf
    <3>2. IsPrefix(c, V.log[m][s])  BY <1>1, <1>2, <2>2, PrefixTrans DEF WorldOK
    <3> QED BY <1>2, <3>1, <3>2 DEF Backed
  <2>3. CASE [s |-> s, chain |-> h] \in V.left
    <3>1. h \in SourceOf(V, n, s)
      <4> DEFINE d == [s |-> s, chain |-> h]
      <4>1. d \in V.left /\ d.s = s /\ d.chain = h  BY <2>3
      <4> QED BY <4>1 DEF SourceOf
    <3> QED BY <1>1, <1>2, <3>1 DEF Backed
  <2> QED BY <2>1, <2>2, <2>3 DEF Grows
<1>4. CASE \E d \in W.left : d.s = s /\ h = d.chain
  <2>1. h \in SourceOf(V, n, s)  BY <1>4 DEF SourceOf, Grows
  <2> QED BY <1>1, <1>2, <2>1 DEF Backed
<1> QED BY <1>3, <1>4 DEF SourceOf

\* So are the entries of a frame,
LEMMA AllBackedGrows ==
  ASSUME NEW W, NEW V, WorldOK(W), WorldOK(V), Grows(W, V), NEW n \in Node, NEW s \in Stream,
         NEW cs, AllBacked(W, n, s, cs)
  PROVE  AllBacked(V, n, s, cs)
BY BackedGrows DEF AllBacked

\* and an offered floor, since floors only rise.
LEMMA FloorGrows ==
  ASSUME NEW W, NEW V, WorldOK(W), WorldOK(V), Grows(W, V), NEW n \in Node, NEW s \in Stream,
         NEW c, FloorBacked(W, n, s, c)
  PROVE  FloorBacked(V, n, s, c)
<1>1. Backed(V, n, s, c)  BY BackedGrows DEF FloorBacked
<1>2. PICK m \in Node \ {n} : Len(c) <= W.floor[m][s]  BY DEF FloorBacked
<1>3. Len(c) \in Nat  BY DEF FloorBacked, Backed
<1>4. W.floor[m][s] \in Nat /\ V.floor[m][s] \in Nat /\ W.floor[m][s] <= V.floor[m][s]
  BY DEF WorldOK, Grows
<1>5. Len(c) <= V.floor[m][s]  BY <1>2, <1>3, <1>4
<1> QED BY <1>1, <1>5 DEF FloorBacked

\* A link and its reverse join two different nodes.
LEMMA LinkEnds == \A l \in Link : /\ l[1] \in Node /\ l[2] \in Node /\ l[1] # l[2]
                                  /\ Back(l) \in Link /\ Back(l)[1] = l[2] /\ Back(l)[2] = l[1]
<1>1. \A l \in Link : l \in Node \X Node  BY Topology
<1> QED BY <1>1, Topology DEF Back

\* Probed points stay prefixes of the log that was probed until a floor covers rows up.
LEMMA ProbeGrows ==
  ASSUME NEW W, NEW V, WorldOK(W), WorldOK(V), Grows(W, V), NEW n \in Node,
         NEW m, ProbeOK(W, n, m)
  PROVE  ProbeOK(V, n, m)
<1>1. ASSUME NEW c \in m.points, V.left = {} PROVE IsPrefix(c, V.log[n][m.s])
  <2>1. W.left = {} /\ IsPrefix(W.log[n][m.s], V.log[n][m.s])  BY <1>1 DEF Grows, ProbeOK
  <2>2. IsPrefix(c, W.log[n][m.s]) /\ c \in Seq(Content) /\ m.s \in Stream
    BY <2>1 DEF ProbeOK
  <2> QED BY <2>1, <2>2, PrefixTrans DEF WorldOK
<1> QED BY <1>1 DEF ProbeOK

\* The same of all control messages,
LEMMA CtlGrows ==
  ASSUME NEW W, NEW V, WorldOK(W), WorldOK(V), Grows(W, V), NEW c, CtlOK(W, c)
  PROVE  CtlOK(V, c)
<1> SUFFICES ASSUME NEW l \in Link, NEW m \in c[l] PROVE MsgOK(V, l, m)  BY DEF CtlOK
<1>1. l[1] \in Node /\ l[2] \in Node  BY LinkEnds
<1>2. MsgOK(W, l, m)  BY DEF CtlOK
<1>3. CASE m.t = "TRUNCATED" /\ m.s \in Stream /\ FloorBacked(W, l[2], m.s, m.chain)
  <2>1. FloorBacked(V, l[2], m.s, m.chain)  BY <1>1, <1>3, FloorGrows
  <2> QED BY <1>3, <2>1 DEF MsgOK
<1>4. CASE m.t = "PROBE_RES" /\ ProbeOK(W, l[1], m)
  <2>1. ProbeOK(V, l[1], m)  BY <1>1, <1>4, ProbeGrows
  <2> QED BY <1>4, <2>1 DEF MsgOK
<1> QED BY <1>2, <1>3, <1>4 DEF MsgOK

\* of the frames of the data lanes,
LEMMA LaneGrows ==
  ASSUME NEW W, NEW V, WorldOK(W), WorldOK(V), Grows(W, V), NEW d, LaneOK(W, d)
  PROVE  LaneOK(V, d)
<1> SUFFICES ASSUME NEW l \in Link, NEW f \in ToSet(d[l]) PROVE FrameOK(V, l, f)
  BY DEF LaneOK
<1>1. FrameOK(W, l, f) /\ l[2] \in Node  BY LinkEnds DEF LaneOK
<1>2. AllBacked(V, l[2], f.s, f.entries)  BY <1>1, AllBackedGrows DEF FrameOK
<1> QED BY <1>1, <1>2 DEF FrameOK

\* of the operations waiting for a flush,
LEMMA QueueGrows ==
  ASSUME NEW W, NEW V, WorldOK(W), WorldOK(V), Grows(W, V), NEW q, QueueOK(W, q)
  PROVE  QueueOK(V, q)
<1> SUFFICES ASSUME NEW n \in Node, NEW e \in ToSet(q[n]) PROVE ItemOK(V, n, e)
  BY DEF QueueOK
<1>1. ItemOK(W, n, e) /\ e.s \in Stream  BY DEF QueueOK, ItemOK, DoneOK
<1>2. e.t = "entries" => AllBacked(V, n, e.s, e.entries)  BY <1>1, AllBackedGrows DEF ItemOK
<1>3. e.t = "floor" => FloorBacked(V, n, e.s, e.chain)  BY <1>1, FloorGrows DEF ItemOK
<1> QED BY <1>1, <1>2, <1>3 DEF ItemOK

\* of the pending table
LEMMA PendingGrows ==
  ASSUME NEW W, NEW V, WorldOK(W), WorldOK(V), Grows(W, V), NEW P, PendingOK(W, P)
  PROVE  PendingOK(V, P)
BY BackedGrows DEF PendingOK

\* and of the fork evidence: agreeing prefixes of two logs that grow go on agreeing.
LEMMA EvidenceGrows ==
  ASSUME NEW W, NEW V, WorldOK(W), WorldOK(V), Grows(W, V), NEW e, EvidenceOK(W, e)
  PROVE  EvidenceOK(V, e)
<1> SUFFICES ASSUME V.left = {}, NEW v \in e PROVE Agree(V, v)  BY DEF EvidenceOK
<1>1. W.left = {} /\ Agree(W, v)  BY DEF Grows, EvidenceOK
<1>2. ASSUME NEW k \in {1, 2}
      PROVE  /\ v.lastCommon <= Len(V.log[v.link[k]][v.s])
             /\ \A i \in 1..v.lastCommon : V.log[v.link[k]][v.s][i] = W.log[v.link[k]][v.s][i]
  <2> DEFINE n == v.link[k]
             c == W.log[n][v.s]
             d == V.log[n][v.s]
  <2>1. v.link[1] \in Node /\ v.link[2] \in Node  BY <1>1, LinkEnds DEF Agree
  <2>2. n \in Node  BY <1>2, <2>1
  <2> HIDE DEF n
  <2>3. v.s \in Stream /\ v.lastCommon \in Nat  BY <1>1 DEF Agree
  <2>4. c \in Seq(Content) /\ d \in Seq(Content)  BY <2>2, <2>3 DEF WorldOK
  <2>5. IsPrefix(c, d)  BY <2>2, <2>3 DEF Grows
  <2>6. v.lastCommon <= Len(c)  BY <1>1, <1>2 DEF Agree, n
  <2> HIDE DEF c, d
  <2>7. Len(c) <= Len(d) /\ \A i \in 1..Len(c) : c[i] = d[i]  BY <2>4, <2>5, PrefixIs
  <2>8. Len(c) \in Nat /\ Len(d) \in Nat  BY <2>4
  <2>9. v.lastCommon <= Len(d) /\ \A i \in 1..v.lastCommon : d[i] = c[i]
    BY <2>3, <2>6, <2>7, <2>8
  <2> QED BY <2>9 DEF c, d, n
<1>3. \A i \in 1..v.lastCommon : V.log[v.link[1]][v.s][i] = V.log[v.link[2]][v.s][i]
  BY <1>1, <1>2 DEF Agree
<1> QED BY <1>1, <1>2, <1>3, ZenonT(60) DEF Agree

\* The step that leaves everything right by the old logs leaves it right by the new.
LEMMA Carry ==
  ASSUME WorldOK(World), LogInv', Grows(World, World'),
         PeersOK(ps'), CtlOK(World, ctl'), LaneOK(World, lane'), QueueOK(World, queue'),
         SettledOK(settled'), EvidenceOK(World, evidence')
  PROVE  Inv'
<1>1. WorldOK(World')  BY DEF LogInv
<1> QED BY <1>1, CtlGrows, LaneGrows, QueueGrows, EvidenceGrows DEF Inv

\* Most steps leave the logs alone.
LEMMA Still ==
  ASSUME Inv, UNCHANGED <<log, floor, pending, sealed, left>>,
         PeersOK(ps'), CtlOK(World, ctl'), LaneOK(World, lane'), QueueOK(World, queue'),
         SettledOK(settled'), EvidenceOK(World, evidence')
  PROVE  Inv'
<1>1. World' = World  BY DEF World
<1>2. LogInv'
  <2>1. WorldOK(World') /\ PendingOK(World', pending')  BY <1>1 DEF Inv, LogInv
  <2>2. sealed' \in [Node -> SUBSET Stream]  BY DEF Inv, LogInv
  <2> QED BY <2>1, <2>2 DEF LogInv
<1> QED BY <1>1, <1>2 DEF Inv
--------------------------------------------------------------------------------
(* Induction over numbers and over finite sets, stated of sets *)

\* A set of natural numbers has a least element.
LEMMA Least ==
  ASSUME NEW S \in SUBSET Nat, S # {}
  PROVE  \E x \in S : \A y \in S : x <= y
<1> DEFINE below == OpToRel(<, Nat)
<1>1. IsWellFoundedOn(below, Nat)  BY NatLessThanWellFounded
<1>2. below = {ss \in Nat \X Nat : ss[1] < ss[2]}  BY DEF OpToRel
<1> HIDE DEF below
<1>3. PICK x \in S : \A y \in S : ~(<<y, x>> \in below)  BY <1>1, WFMin
<1>4. ASSUME NEW y \in S PROVE x <= y
  <2>1. ~(<<y, x>> \in below)  BY <1>3
  <2>2. <<y, x>> \in Nat \X Nat /\ <<y, x>>[1] = y /\ <<y, x>>[2] = x  OBVIOUS
  <2> QED BY <1>2, <2>1, <2>2
<1> QED BY <1>4

\* What has 0 and always the next number has them all.
LEMMA NatInduct ==
  ASSUME NEW S, 0 \in S, \A j \in Nat : j \in S => j + 1 \in S
  PROVE  \A j \in Nat : j \in S
<1> SUFFICES ASSUME NEW k \in Nat, k \notin S PROVE FALSE  OBVIOUS
<1> DEFINE B == {j \in Nat : j \notin S}
<1>1. B \in SUBSET Nat /\ B # {}  OBVIOUS
<1>2. PICK x \in B : \A y \in B : x <= y  BY <1>1, Least
<1>3. x \in Nat /\ x # 0 /\ x - 1 \in Nat /\ x - 1 \notin B  BY <1>2
<1>4. x - 1 \in S  BY <1>3
<1>5. (x - 1) + 1 \in S  BY <1>3, <1>4
<1> QED BY <1>3, <1>5

\* Every subset of T is in G, if G has the empty set and always one element more.
LEMMA SetInduct ==
  ASSUME NEW T, IsFiniteSet(T), NEW G, {} \in G,
         \A t \in SUBSET T : t # {} => \E e \in t : t \ {e} \in G => t \in G
  PROVE  \A t \in SUBSET T : t \in G
<1> DEFINE S == {j \in Nat : \A t \in SUBSET T : Cardinality(t) = j => t \in G}
<1>1. \A t \in SUBSET T : IsFiniteSet(t) /\ Cardinality(t) \in Nat
  BY FS_Subset, FS_CardinalityType
<1>2. 0 \in S
  <2>1. \A t \in SUBSET T : Cardinality(t) = 0 => t = {}  BY <1>1, FS_EmptySet
  <2> QED BY <2>1
<1>3. ASSUME NEW j \in Nat, j \in S PROVE j + 1 \in S
  <2>1. ASSUME NEW t \in SUBSET T, Cardinality(t) = j + 1 PROVE t \in G
    <3>1. t # {}
      <4>1. Cardinality({}) = 0  BY FS_EmptySet
      <4> QED BY ONLY <2>1, <4>1, j \in Nat
    <3>2. PICK e \in t : t \ {e} \in G => t \in G  BY <3>1
    <3>3. Cardinality(t \ {e}) = j
      <4>1. IsFiniteSet(t)  BY <1>1
      <4>2. Cardinality(t \ {e}) = Cardinality(t) - 1  BY <4>1, FS_RemoveElement
      <4> QED BY ONLY <2>1, <4>2, j \in Nat
    <3>4. t \ {e} \in SUBSET T  OBVIOUS
    <3> QED BY <1>3, <3>2, <3>3, <3>4
  <2> QED BY <2>1
<1> HIDE DEF S
<1>4. \A j \in Nat : j \in S  BY <1>2, <1>3, NatInduct
<1> QED BY <1>1, <1>4 DEF S

\* Max picks the greatest element of a bounded set.
LEMMA MaxIn ==
  ASSUME NEW n \in Nat, NEW t \in SUBSET (1..n), t # {}
  PROVE  Max(t) \in t /\ \A k \in t : k <= Max(t)
<1> DEFINE D == {n - k : k \in t}
<1>1. D \in SUBSET Nat /\ D # {}
  <2>1. \A k \in t : n - k \in Nat /\ n - k \in D  OBVIOUS
  <2> QED BY <2>1
<1>2. PICK d \in D : \A u \in D : d <= u  BY <1>1, Least
<1>3. PICK x \in t : d = n - x  OBVIOUS
<1>4. ASSUME NEW k \in t PROVE k <= x
  <2>1. n - k \in D  OBVIOUS
  <2>2. n - x <= n - k  BY <1>2, <1>3, <2>1
  <2> QED BY <2>2
<1> QED BY <1>4 DEF Max
--------------------------------------------------------------------------------
(* Peer states *)

\* Starting a HAVE round adds a request.
LEMMA RoundOK ==
  ASSUME NEW l, NEW x, PeerOK(x)
  PROVE  PeerOK(startHaveRound(l, x))
BY FS_EmptySet DEF startHaveRound, PeerOK, PeerFields, ReqOK

\* Marking a stream dirty changes no request.
LEMMA DirtyOK ==
  ASSUME NEW x, PeerOK(x), NEW s \in Stream
  PROVE  PeerOK(markDirty(x, s))
BY DEF markDirty, PeerOK, PeerFields

\* What is known of one log.
LEMMA LogBounds ==
  ASSUME WorldOK(World), NEW n \in Node, NEW s \in Stream
  PROVE  /\ log[n][s] \in Seq(Content) /\ Contig(n, s) \in Nat /\ floor[n][s] \in Nat
         /\ Contig(n, s) <= MaxSeq /\ floor[n][s] <= Contig(n, s) /\ MaxSeq \in Nat
<1>1. MaxSeq \in Nat  BY Sizes
<1> QED BY <1>1 DEF WorldOK, World, Contig

\* A turn of pumpWants asks from a seq within bounds.
LEMMA WantNextOK ==
  ASSUME WorldOK(World), NEW l \in Link, NEW x, PeerOK(x), NEW s \in Stream
  PROVE  PeerOK(wantNext(l, x, s))
<1>1. Contig(l[1], s) + 1 \in 1..MaxSeq + 1  BY LinkEnds, LogBounds
<1>2. PeerOK([x EXCEPT !.wantQueue = Append(@, s)])  BY DEF PeerOK, PeerFields
<1>3. PeerOK([x EXCEPT !.wanted = @ \ {s}])  BY DEF PeerOK, PeerFields
<1> DEFINE w == [t |-> "WANT", req |-> FreshReq(l, x), s |-> s, from |-> Contig(l[1], s) + 1]
<1>4. ReqOK(w)  BY <1>1 DEF ReqOK
<1> HIDE DEF w
<1>5. PeerOK([x EXCEPT !.active = @ \cup {w}, !.reqs = @ \cup {w}])
  BY <1>4 DEF PeerOK, PeerFields
<1> QED BY <1>2, <1>3, <1>5 DEF wantNext, w

\* locateFork probes natural numbers.
LEMMA ProbeReqOK ==
  ASSUME NEW x, PeerOK(x), NEW s \in Stream, NEW upTo
  PROVE  PeerOK(locateFork(x, s, upTo))
<1> DEFINE seqs == {upTo - d : d \in {0} \cup {2^i : i \in 0..MaxSeq}} \cap 1..upTo
           w == [t |-> "PROBE", s |-> s, seqs |-> seqs, upTo |-> upTo]
           keep == {r \in x.reqs : r.t # "PROBE" \/ r.s # s}
<1>1. seqs \subseteq Nat  OBVIOUS
<1> HIDE DEF seqs
<1>2. ReqOK(w)  BY <1>1 DEF ReqOK
<1>3. locateFork(x, s, upTo) = [x EXCEPT !.reqs = keep \cup {w}]  BY DEF locateFork, seqs
<1> HIDE DEF w
<1>4. \A r \in keep \cup {w} : ReqOK(r)  BY <1>2 DEF PeerOK
<1> HIDE DEF keep
<1> QED BY <1>3, <1>4 DEF PeerOK, PeerFields
--------------------------------------------------------------------------------
(* The folds.  FoldLeft and FoldSet choose a function by a recursive equation    *)
(* over the subsets of a set T.  For each of the four, the equation is shown to  *)
(* have a solution, by building one up to subsets of j elements for every j; the *)
(* fold is then the last of a chain of turns.                                    *)

\* Subsets of a finite set, by the number of their elements.
LEMMA SmallerSets ==
  ASSUME NEW T, IsFiniteSet(T)
  PROVE  /\ Cardinality(T) \in Nat
         /\ \A t \in SUBSET T : Cardinality(t) \in Nat /\ Cardinality(t) <= Cardinality(T)
         /\ \A t \in SUBSET T : Cardinality(t) = 0 <=> t = {}
         /\ \A t \in SUBSET T : \A e \in t : /\ t \ {e} \in SUBSET T
                                             /\ Cardinality(t \ {e}) = Cardinality(t) - 1
<1>1. \A t \in SUBSET T : IsFiniteSet(t)  BY FS_Subset
<1>2. Cardinality(T) \in Nat /\ \A t \in SUBSET T : Cardinality(t) \in Nat
  BY <1>1, FS_CardinalityType
<1>3. \A t \in SUBSET T : Cardinality(t) <= Cardinality(T)  BY FS_Subset
<1>4. \A t \in SUBSET T : Cardinality(t) = 0 <=> t = {}  BY <1>1, FS_EmptySet
<1>5. \A t \in SUBSET T : \A e \in t : t \ {e} \in SUBSET T  OBVIOUS
<1>6. \A t \in SUBSET T : \A e \in t : Cardinality(t \ {e}) = Cardinality(t) - 1
  BY <1>1, FS_RemoveElement
<1> QED BY <1>2, <1>3, <1>4, <1>5, <1>6

\* Min, Max and number of a range.
LEMMA RangeEnds ==
  ASSUME NEW lo \in Nat, NEW hi \in Nat, lo <= hi
  PROVE  Min(lo..hi) = lo /\ Max(lo..hi) = hi /\ Cardinality(lo..hi) = hi - lo + 1
<1>1. Cardinality(lo..hi) = hi - lo + 1  BY FS_Interval
<1>2. lo \in lo..hi /\ hi \in lo..hi  OBVIOUS
<1>3. \A k \in lo..hi : (\A j \in lo..hi : k <= j) => k = lo  OBVIOUS
<1>4. \A k \in lo..hi : (\A j \in lo..hi : k >= j) => k = hi  OBVIOUS
<1>5. Min(lo..hi) = lo
  <2>1. \E k \in lo..hi : \A j \in lo..hi : k <= j  OBVIOUS
  <2> QED BY <1>3, <2>1 DEF Min
<1>6. Max(lo..hi) = hi
  <2>1. \E k \in lo..hi : \A j \in lo..hi : k >= j  OBVIOUS
  <2> QED BY <1>4, <2>1 DEF Max
<1> QED BY <1>1, <1>5, <1>6

\* pumpWants folds over the queue of wanted streams,
LEMMA pumpWantsFold ==
  ASSUME NEW l, NEW x, IsSeq(x.wantQueue)
  PROVE  \E G : /\ G[0] = [x EXCEPT !.wantQueue = << >>]
                /\ \A i \in 1..Len(x.wantQueue) : G[i] = wantNext(l, G[i - 1], x.wantQueue[i])
                /\ pumpWants(l, x) = G[Len(x.wantQueue)]
<1> DEFINE q == x.wantQueue
           T == DOMAIN q
           N == Len(q)
           b == [x EXCEPT !.wantQueue = << >>]
           Pick(t) == Max(t)
           Op(y, e) == wantNext(l, y, q[e])
           Right(f, t) == f[t] = IF t = {} THEN b ELSE Op(f[t \ {Pick(t)}], Pick(t))
           Upto(j) == \E f : \A t \in SUBSET T : Cardinality(t) <= j => Right(f, t)
           It(f) == f = [t \in SUBSET T |-> IF t = {} THEN b ELSE Op(f[t \ {Pick(t)}], Pick(t))]
           F == CHOOSE f : It(f)
<1>1. pumpWants(l, x) = F[T]  BY DEF pumpWants, FoldLeft, MapThenFoldSet
<1>2. T = 1..N /\ N \in Nat  BY DEF IsSeq
<1>3. IsFiniteSet(T)  BY <1>2, FS_Interval
<1>4. \A t \in SUBSET T : t # {} => Pick(t) \in t  BY <1>2, MaxIn
<1> HIDE DEF q, T, N, b, Pick, Op
<1>5. /\ Cardinality(T) \in Nat
      /\ \A t \in SUBSET T : Cardinality(t) \in Nat /\ Cardinality(t) <= Cardinality(T)
      /\ \A t \in SUBSET T : Cardinality(t) = 0 <=> t = {}
      /\ \A t \in SUBSET T : \A e \in t : /\ t \ {e} \in SUBSET T
                                          /\ Cardinality(t \ {e}) = Cardinality(t) - 1
  BY <1>3, SmallerSets
<1>6. Upto(0)
  <2> DEFINE f == [t \in SUBSET T |-> b]
  <2>1. \A t \in SUBSET T : Cardinality(t) <= 0 => Right(f, t)  BY <1>5
  <2> QED BY <2>1
<1>7. ASSUME NEW j \in Nat, Upto(j) PROVE Upto(j + 1)
  <2>1. PICK f : \A t \in SUBSET T : Cardinality(t) <= j => Right(f, t)  BY <1>7
  <2> DEFINE g == [t \in SUBSET T |-> IF Cardinality(t) = j + 1
                                      THEN Op(f[t \ {Pick(t)}], Pick(t)) ELSE f[t]]
  <2>2. ASSUME NEW t \in SUBSET T, Cardinality(t) <= j + 1 PROVE Right(g, t)
    <3>1. CASE t = {}
      <4>1. Cardinality(t) = 0  BY <1>5, <3>1
      <4>2. Cardinality(t) <= j /\ Cardinality(t) # j + 1  BY <4>1
      <4>3. g[t] = f[t] /\ Right(f, t)  BY <2>1, <4>2
      <4> QED BY <3>1, <4>3
    <3>2. CASE t # {}
      <4> DEFINE u == t \ {Pick(t)}
      <4>1. u \in SUBSET T /\ Cardinality(u) = Cardinality(t) - 1 /\ Cardinality(t) \in Nat
        BY <1>4, <1>5, <3>2
      <4>2. g[u] = f[u]  BY <2>2, <4>1
      <4>3. CASE Cardinality(t) = j + 1
        <5>1. g[t] = Op(f[u], Pick(t))  BY <4>3
        <5> QED BY <3>2, <4>2, <5>1
      <4>4. CASE Cardinality(t) <= j
        <5>1. g[t] = f[t] /\ Right(f, t)  BY <2>1, <4>1, <4>4
        <5> QED BY <3>2, <4>2, <5>1
      <4> QED BY <2>2, <4>1, <4>3, <4>4
    <3> QED BY <3>1, <3>2
  <2> QED BY <2>2
<1>8. \A j \in Nat : Upto(j)
  <2> DEFINE S == {j \in Nat : Upto(j)}
  <2> HIDE DEF Upto
  <2>1. 0 \in S /\ \A j \in Nat : j \in S => j + 1 \in S  BY <1>6, <1>7
  <2> HIDE DEF S
  <2>2. \A j \in Nat : j \in S  BY <2>1, NatInduct
  <2> QED BY <2>2 DEF S
<1>9. It(F)
  <2>1. PICK f : \A t \in SUBSET T : Right(f, t)
    <3>1. Upto(Cardinality(T))  BY <1>5, <1>8
    <3> QED BY <1>5, <3>1
  <2> DEFINE g == [t \in SUBSET T |-> f[t]]
  <2>2. \A t \in SUBSET T : g[t] = IF t = {} THEN b ELSE Op(g[t \ {Pick(t)}], Pick(t))
    BY <2>1
  <2>3. It(g)  BY <2>2
  <2> QED BY <2>3
<1> HIDE DEF F
<1> DEFINE G == [i \in 0..N |-> F[1..i]]
<1>10. G[0] = b /\ G[N] = F[T]
  <2>1. {} \in SUBSET T /\ 1..0 = {} /\ 0 \in 0..N /\ N \in 0..N  BY <1>2
  <2>2. G[0] = F[{}] /\ G[N] = F[1..N]  BY <2>1
  <2> HIDE DEF G
  <2> QED BY <1>2, <1>9, <2>1, <2>2
<1>11. ASSUME NEW i \in 1..N PROVE G[i] = Op(G[i - 1], i)
  <2>1. 1..i \in SUBSET T /\ 1..i # {} /\ i \in Nat /\ 1 <= i  BY <1>2
  <2>2. Pick(1..i) = i  BY <2>1, RangeEnds DEF Pick
  <2>3. (1..i) \ {i} = 1..(i - 1) /\ i \in 0..N /\ i - 1 \in 0..N  BY <1>2
  <2>4. F[1..i] = Op(F[1..(i - 1)], i)  BY <1>9, <2>1, <2>2, <2>3
  <2> QED BY <2>3, <2>4
<1> HIDE DEF G
<1> QED BY <1>1, <1>2, <1>10, <1>11 DEF q, N, b, Op

\* applyAll over the entries of a frame,
LEMMA applyAllFold ==
  ASSUME NEW n, NEW s, NEW es, IsSeq(es)
  PROVE  \E G : /\ G[0] = View(n, s)
                /\ \A i \in 1..Len(es) : G[i] = applyExternal(n, s, G[i - 1], es[i])
                /\ applyAll(n, s, es) = G[Len(es)]
<1> DEFINE q == es
           T == DOMAIN q
           N == Len(q)
           b == View(n, s)
           Pick(t) == Max(t)
           Op(y, e) == applyExternal(n, s, y, q[e])
           Right(f, t) == f[t] = IF t = {} THEN b ELSE Op(f[t \ {Pick(t)}], Pick(t))
           Upto(j) == \E f : \A t \in SUBSET T : Cardinality(t) <= j => Right(f, t)
           It(f) == f = [t \in SUBSET T |-> IF t = {} THEN b ELSE Op(f[t \ {Pick(t)}], Pick(t))]
           F == CHOOSE f : It(f)
<1>1. applyAll(n, s, es) = F[T]  BY DEF applyAll, FoldLeft, MapThenFoldSet
<1>2. T = 1..N /\ N \in Nat  BY DEF IsSeq
<1>3. IsFiniteSet(T)  BY <1>2, FS_Interval
<1>4. \A t \in SUBSET T : t # {} => Pick(t) \in t  BY <1>2, MaxIn
<1> HIDE DEF q, T, N, b, Pick, Op
<1>5. /\ Cardinality(T) \in Nat
      /\ \A t \in SUBSET T : Cardinality(t) \in Nat /\ Cardinality(t) <= Cardinality(T)
      /\ \A t \in SUBSET T : Cardinality(t) = 0 <=> t = {}
      /\ \A t \in SUBSET T : \A e \in t : /\ t \ {e} \in SUBSET T
                                          /\ Cardinality(t \ {e}) = Cardinality(t) - 1
  BY <1>3, SmallerSets
<1>6. Upto(0)
  <2> DEFINE f == [t \in SUBSET T |-> b]
  <2>1. \A t \in SUBSET T : Cardinality(t) <= 0 => Right(f, t)  BY <1>5
  <2> QED BY <2>1
<1>7. ASSUME NEW j \in Nat, Upto(j) PROVE Upto(j + 1)
  <2>1. PICK f : \A t \in SUBSET T : Cardinality(t) <= j => Right(f, t)  BY <1>7
  <2> DEFINE g == [t \in SUBSET T |-> IF Cardinality(t) = j + 1
                                      THEN Op(f[t \ {Pick(t)}], Pick(t)) ELSE f[t]]
  <2>2. ASSUME NEW t \in SUBSET T, Cardinality(t) <= j + 1 PROVE Right(g, t)
    <3>1. CASE t = {}
      <4>1. Cardinality(t) = 0  BY <1>5, <3>1
      <4>2. Cardinality(t) <= j /\ Cardinality(t) # j + 1  BY <4>1
      <4>3. g[t] = f[t] /\ Right(f, t)  BY <2>1, <4>2
      <4> QED BY <3>1, <4>3
    <3>2. CASE t # {}
      <4> DEFINE u == t \ {Pick(t)}
      <4>1. u \in SUBSET T /\ Cardinality(u) = Cardinality(t) - 1 /\ Cardinality(t) \in Nat
        BY <1>4, <1>5, <3>2
      <4>2. g[u] = f[u]  BY <2>2, <4>1
      <4>3. CASE Cardinality(t) = j + 1
        <5>1. g[t] = Op(f[u], Pick(t))  BY <4>3
        <5> QED BY <3>2, <4>2, <5>1
      <4>4. CASE Cardinality(t) <= j
        <5>1. g[t] = f[t] /\ Right(f, t)  BY <2>1, <4>1, <4>4
        <5> QED BY <3>2, <4>2, <5>1
      <4> QED BY <2>2, <4>1, <4>3, <4>4
    <3> QED BY <3>1, <3>2
  <2> QED BY <2>2
<1>8. \A j \in Nat : Upto(j)
  <2> DEFINE S == {j \in Nat : Upto(j)}
  <2> HIDE DEF Upto
  <2>1. 0 \in S /\ \A j \in Nat : j \in S => j + 1 \in S  BY <1>6, <1>7
  <2> HIDE DEF S
  <2>2. \A j \in Nat : j \in S  BY <2>1, NatInduct
  <2> QED BY <2>2 DEF S
<1>9. It(F)
  <2>1. PICK f : \A t \in SUBSET T : Right(f, t)
    <3>1. Upto(Cardinality(T))  BY <1>5, <1>8
    <3> QED BY <1>5, <3>1
  <2> DEFINE g == [t \in SUBSET T |-> f[t]]
  <2>2. \A t \in SUBSET T : g[t] = IF t = {} THEN b ELSE Op(g[t \ {Pick(t)}], Pick(t))
    BY <2>1
  <2>3. It(g)  BY <2>2
  <2> QED BY <2>3
<1> HIDE DEF F
<1> DEFINE G == [i \in 0..N |-> F[1..i]]
<1>10. G[0] = b /\ G[N] = F[T]
  <2>1. {} \in SUBSET T /\ 1..0 = {} /\ 0 \in 0..N /\ N \in 0..N  BY <1>2
  <2>2. G[0] = F[{}] /\ G[N] = F[1..N]  BY <2>1
  <2> HIDE DEF G
  <2> QED BY <1>2, <1>9, <2>1, <2>2
<1>11. ASSUME NEW i \in 1..N PROVE G[i] = Op(G[i - 1], i)
  <2>1. 1..i \in SUBSET T /\ 1..i # {} /\ i \in Nat /\ 1 <= i  BY <1>2
  <2>2. Pick(1..i) = i  BY <2>1, RangeEnds DEF Pick
  <2>3. (1..i) \ {i} = 1..(i - 1) /\ i \in 0..N /\ i - 1 \in 0..N  BY <1>2
  <2>4. F[1..i] = Op(F[1..(i - 1)], i)  BY <1>9, <2>1, <2>2, <2>3
  <2> QED BY <2>3, <2>4
<1> HIDE DEF G
<1> QED BY <1>1, <1>2, <1>10, <1>11 DEF q, N, b, Op

\* F[t] is the state of a comparison of a round's vectors ws after the vectors t.
Compares(F, l, x, ws) ==
  /\ F[{}] = [x |-> x, seals |-> {}]
  /\ \A t \in SUBSET ws : t # {} => \E e \in t : F[t] = comparePeer(l, F[t \ {e}], e)

\* compareAll over the vectors of a round,
LEMMA compareAllFold ==
  ASSUME NEW l, NEW x, NEW ws, IsFiniteSet(ws)
  PROVE  \E F : Compares(F, l, x, ws) /\ compareAll(l, x, ws) = F[ws]
<1> DEFINE T == ws
           b == [x |-> x, seals |-> {}]
           Pick(t) == CHOOSE e \in t : TRUE
           Op(y, e) == comparePeer(l, y, e)
           Right(f, t) == f[t] = IF t = {} THEN b ELSE Op(f[t \ {Pick(t)}], Pick(t))
           Upto(j) == \E f : \A t \in SUBSET T : Cardinality(t) <= j => Right(f, t)
           It(f) == f = [t \in SUBSET T |-> IF t = {} THEN b ELSE Op(f[t \ {Pick(t)}], Pick(t))]
           F == CHOOSE f : It(f)
<1>1. compareAll(l, x, ws) = F[T]  BY DEF compareAll, FoldSet, MapThenFoldSet
<1>3. IsFiniteSet(T)  OBVIOUS
<1>4. \A t \in SUBSET T : t # {} => Pick(t) \in t  OBVIOUS
<1> HIDE DEF T, b, Pick, Op
<1>5. /\ Cardinality(T) \in Nat
      /\ \A t \in SUBSET T : Cardinality(t) \in Nat /\ Cardinality(t) <= Cardinality(T)
      /\ \A t \in SUBSET T : Cardinality(t) = 0 <=> t = {}
      /\ \A t \in SUBSET T : \A e \in t : /\ t \ {e} \in SUBSET T
                                          /\ Cardinality(t \ {e}) = Cardinality(t) - 1
  BY <1>3, SmallerSets
<1>6. Upto(0)
  <2> DEFINE f == [t \in SUBSET T |-> b]
  <2>1. \A t \in SUBSET T : Cardinality(t) <= 0 => Right(f, t)  BY <1>5
  <2> QED BY <2>1
<1>7. ASSUME NEW j \in Nat, Upto(j) PROVE Upto(j + 1)
  <2>1. PICK f : \A t \in SUBSET T : Cardinality(t) <= j => Right(f, t)  BY <1>7
  <2> DEFINE g == [t \in SUBSET T |-> IF Cardinality(t) = j + 1
                                      THEN Op(f[t \ {Pick(t)}], Pick(t)) ELSE f[t]]
  <2>2. ASSUME NEW t \in SUBSET T, Cardinality(t) <= j + 1 PROVE Right(g, t)
    <3>1. CASE t = {}
      <4>1. Cardinality(t) = 0  BY <1>5, <3>1
      <4>2. Cardinality(t) <= j /\ Cardinality(t) # j + 1  BY <4>1
      <4>3. g[t] = f[t] /\ Right(f, t)  BY <2>1, <4>2
      <4> QED BY <3>1, <4>3
    <3>2. CASE t # {}
      <4> DEFINE u == t \ {Pick(t)}
      <4>1. u \in SUBSET T /\ Cardinality(u) = Cardinality(t) - 1 /\ Cardinality(t) \in Nat
        BY <1>4, <1>5, <3>2
      <4>2. g[u] = f[u]  BY <2>2, <4>1
      <4>3. CASE Cardinality(t) = j + 1
        <5>1. g[t] = Op(f[u], Pick(t))  BY <4>3
        <5> QED BY <3>2, <4>2, <5>1
      <4>4. CASE Cardinality(t) <= j
        <5>1. g[t] = f[t] /\ Right(f, t)  BY <2>1, <4>1, <4>4
        <5> QED BY <3>2, <4>2, <5>1
      <4> QED BY <2>2, <4>1, <4>3, <4>4
    <3> QED BY <3>1, <3>2
  <2> QED BY <2>2
<1>8. \A j \in Nat : Upto(j)
  <2> DEFINE S == {j \in Nat : Upto(j)}
  <2> HIDE DEF Upto
  <2>1. 0 \in S /\ \A j \in Nat : j \in S => j + 1 \in S  BY <1>6, <1>7
  <2> HIDE DEF S
  <2>2. \A j \in Nat : j \in S  BY <2>1, NatInduct
  <2> QED BY <2>2 DEF S
<1>9. It(F)
  <2>1. PICK f : \A t \in SUBSET T : Right(f, t)
    <3>1. Upto(Cardinality(T))  BY <1>5, <1>8
    <3> QED BY <1>5, <3>1
  <2> DEFINE g == [t \in SUBSET T |-> f[t]]
  <2>2. \A t \in SUBSET T : g[t] = IF t = {} THEN b ELSE Op(g[t \ {Pick(t)}], Pick(t))
    BY <2>1
  <2>3. It(g)  BY <2>2
  <2> QED BY <2>3
<1> HIDE DEF F
<1>10. ASSUME NEW t \in SUBSET T, t # {} PROVE \E e \in t : F[t] = Op(F[t \ {e}], e)
  <2>1. F[t] = Op(F[t \ {Pick(t)}], Pick(t))  BY <1>9, <1>10
  <2> QED BY <1>4, <1>10, <2>1
<1>11. F[{}] = b
  <2>1. {} \in SUBSET T  OBVIOUS
  <2> QED BY <1>9, <2>1
<1> QED BY <1>1, <1>10, <1>11 DEF T, b, Op, Compares

\* and pumpAll over the dirty streams.
LEMMA pumpAllFold ==
  ASSUME NEW l, ps[l].dirty \subseteq Stream
  PROVE  \E F : /\ F[{}] = [x |-> [ps[l] EXCEPT !.pump = FALSE], out |-> << >>, stop |-> FALSE]
                /\ \A t \in SUBSET ps[l].dirty : t # {} => \E e \in t : F[t] = pumpStream(l, F[t \ {e}], e)
                /\ pumpAll(l) = F[ps[l].dirty]
<1> DEFINE T == ps[l].dirty
           b == [x |-> [ps[l] EXCEPT !.pump = FALSE], out |-> << >>, stop |-> FALSE]
           Pick(t) == CHOOSE e \in t : TRUE
           Op(y, e) == pumpStream(l, y, e)
           Right(f, t) == f[t] = IF t = {} THEN b ELSE Op(f[t \ {Pick(t)}], Pick(t))
           Upto(j) == \E f : \A t \in SUBSET T : Cardinality(t) <= j => Right(f, t)
           It(f) == f = [t \in SUBSET T |-> IF t = {} THEN b ELSE Op(f[t \ {Pick(t)}], Pick(t))]
           F == CHOOSE f : It(f)
<1>1. pumpAll(l) = F[T]  BY DEF pumpAll, FoldSet, MapThenFoldSet
<1>3. IsFiniteSet(T)  BY Topology, FS_Subset
<1>4. \A t \in SUBSET T : t # {} => Pick(t) \in t  OBVIOUS
<1> HIDE DEF T, b, Pick, Op
<1>5. /\ Cardinality(T) \in Nat
      /\ \A t \in SUBSET T : Cardinality(t) \in Nat /\ Cardinality(t) <= Cardinality(T)
      /\ \A t \in SUBSET T : Cardinality(t) = 0 <=> t = {}
      /\ \A t \in SUBSET T : \A e \in t : /\ t \ {e} \in SUBSET T
                                          /\ Cardinality(t \ {e}) = Cardinality(t) - 1
  BY <1>3, SmallerSets
<1>6. Upto(0)
  <2> DEFINE f == [t \in SUBSET T |-> b]
  <2>1. \A t \in SUBSET T : Cardinality(t) <= 0 => Right(f, t)  BY <1>5
  <2> QED BY <2>1
<1>7. ASSUME NEW j \in Nat, Upto(j) PROVE Upto(j + 1)
  <2>1. PICK f : \A t \in SUBSET T : Cardinality(t) <= j => Right(f, t)  BY <1>7
  <2> DEFINE g == [t \in SUBSET T |-> IF Cardinality(t) = j + 1
                                      THEN Op(f[t \ {Pick(t)}], Pick(t)) ELSE f[t]]
  <2>2. ASSUME NEW t \in SUBSET T, Cardinality(t) <= j + 1 PROVE Right(g, t)
    <3>1. CASE t = {}
      <4>1. Cardinality(t) = 0  BY <1>5, <3>1
      <4>2. Cardinality(t) <= j /\ Cardinality(t) # j + 1  BY <4>1
      <4>3. g[t] = f[t] /\ Right(f, t)  BY <2>1, <4>2
      <4> QED BY <3>1, <4>3
    <3>2. CASE t # {}
      <4> DEFINE u == t \ {Pick(t)}
      <4>1. u \in SUBSET T /\ Cardinality(u) = Cardinality(t) - 1 /\ Cardinality(t) \in Nat
        BY <1>4, <1>5, <3>2
      <4>2. g[u] = f[u]  BY <2>2, <4>1
      <4>3. CASE Cardinality(t) = j + 1
        <5>1. g[t] = Op(f[u], Pick(t))  BY <4>3
        <5> QED BY <3>2, <4>2, <5>1
      <4>4. CASE Cardinality(t) <= j
        <5>1. g[t] = f[t] /\ Right(f, t)  BY <2>1, <4>1, <4>4
        <5> QED BY <3>2, <4>2, <5>1
      <4> QED BY <2>2, <4>1, <4>3, <4>4
    <3> QED BY <3>1, <3>2
  <2> QED BY <2>2
<1>8. \A j \in Nat : Upto(j)
  <2> DEFINE S == {j \in Nat : Upto(j)}
  <2> HIDE DEF Upto
  <2>1. 0 \in S /\ \A j \in Nat : j \in S => j + 1 \in S  BY <1>6, <1>7
  <2> HIDE DEF S
  <2>2. \A j \in Nat : j \in S  BY <2>1, NatInduct
  <2> QED BY <2>2 DEF S
<1>9. It(F)
  <2>1. PICK f : \A t \in SUBSET T : Right(f, t)
    <3>1. Upto(Cardinality(T))  BY <1>5, <1>8
    <3> QED BY <1>5, <3>1
  <2> DEFINE g == [t \in SUBSET T |-> f[t]]
  <2>2. \A t \in SUBSET T : g[t] = IF t = {} THEN b ELSE Op(g[t \ {Pick(t)}], Pick(t))
    BY <2>1
  <2>3. It(g)  BY <2>2
  <2> QED BY <2>3
<1> HIDE DEF F
<1>10. ASSUME NEW t \in SUBSET T, t # {} PROVE \E e \in t : F[t] = Op(F[t \ {e}], e)
  <2>1. F[t] = Op(F[t \ {Pick(t)}], Pick(t))  BY <1>9, <1>10
  <2> QED BY <1>4, <1>10, <2>1
<1>11. F[{}] = b
  <2>1. {} \in SUBSET T  OBVIOUS
  <2> QED BY <1>9, <2>1
<1> QED BY <1>1, <1>10, <1>11 DEF T, b, Op

\* pumpWants keeps the peer state right.
LEMMA pumpWantsOK ==
  ASSUME WorldOK(World), NEW l \in Link, NEW x, PeerOK(x)
  PROVE  PeerOK(pumpWants(l, x))
<1> DEFINE q == x.wantQueue
           N == Len(q)
<1>1. q \in Seq(Stream) /\ N \in Nat /\ \A i \in 1..N : q[i] \in Stream  BY DEF PeerOK
<1>0. IsSeq(q)  BY <1>1 DEF IsSeq
<1>2. PICK G : /\ G[0] = [x EXCEPT !.wantQueue = << >>]
               /\ \A i \in 1..N : G[i] = wantNext(l, G[i - 1], q[i])
               /\ pumpWants(l, x) = G[N]
  BY <1>0, pumpWantsFold
<1> DEFINE S == {i \in Nat : i <= N => PeerOK(G[i])}
<1>3. 0 \in S
  <2>1. PeerOK([x EXCEPT !.wantQueue = << >>])  BY DEF PeerOK, PeerFields
  <2> QED BY <1>2, <2>1
<1>4. ASSUME NEW i \in Nat, i \in S PROVE i + 1 \in S
  <2>1. CASE i + 1 <= N
    <3>1. i + 1 \in 1..N /\ (i + 1) - 1 = i /\ i <= N  BY <1>1, <2>1
    <3>2. PeerOK(wantNext(l, G[i], q[i + 1]))  BY <1>1, <1>4, <3>1, WantNextOK
    <3>3. G[i + 1] = wantNext(l, G[i], q[i + 1])  BY <1>2, <3>1
    <3> QED BY <3>2, <3>3
  <2> QED BY <2>1
<1> HIDE DEF S, q, N
<1>5. N \in S  BY <1>1, <1>3, <1>4, NatInduct
<1> QED BY <1>1, <1>2, <1>5 DEF S
--------------------------------------------------------------------------------
(* The log's operations *)

\* A backed chain is a sequence within bounds.
LEMMA BackedLen ==
  ASSUME NEW W, WorldOK(W), NEW n \in Node, NEW s \in Stream, NEW c, Backed(W, n, s, c)
  PROVE  c \in Seq(Content) /\ Len(c) \in Nat /\ Len(c) <= MaxSeq
<1>1. PICK h \in SourceOf(W, n, s) : IsPrefix(c, h)  BY DEF Backed
<1>2. c \in Seq(Content) /\ h \in Seq(Content) /\ Len(h) <= MaxSeq  BY SourceSeq DEF Backed
<1>3. Len(c) <= Len(h)  BY <1>1, <1>2, PrefixIs
<1>4. MaxSeq \in Nat  BY Sizes
<1>5. Len(c) \in Nat /\ Len(h) \in Nat  BY <1>2
<1>6. Len(c) <= MaxSeq  BY <1>2, <1>3, <1>4, <1>5
<1> QED BY <1>2, <1>5, <1>6

\* drainPending only goes up, through pending entries.
LEMMA DrainOK ==
  ASSUME WorldOK(World), NEW n \in Node, NEW s \in Stream,
         NEW h, Backed(World, n, s, h), NEW P, \A c \in P : Backed(World, n, s, c)
  PROVE  /\ DOMAIN drain(h, P) = {"head", "pending", "seal"} /\ drain(h, P).seal \in BOOLEAN
         /\ Backed(World, n, s, drain(h, P).head) /\ IsPrefix(h, drain(h, P).head)
         /\ drain(h, P).pending \subseteq P
<1> DEFINE runs == {c \in P : /\ IsPrefix(h, c)
                              /\ \A k \in Len(h) + 1..Len(c) : SubSeq(c, 1, k) \in P}
           top == CHOOSE c \in runs \cup {h} : \A d \in runs : Len(d) <= Len(c)
           bad == {c \in P : Len(c) = Len(top) + 1}
<1>1. drain(h, P) = [head |-> top, pending |-> {c \in P : Len(c) > Len(top)} \ bad, seal |-> bad # {}]
  BY DEF drain
<1>2. \A c \in runs \cup {h} : Backed(World, n, s, c)  OBVIOUS
<1>3. h \in Seq(Content)  BY BackedLen
<1>4. \A c \in runs \cup {h} : IsPrefix(h, c)  BY <1>3, PrefixSelf
<1> HIDE DEF runs
<1>5. \E c \in runs \cup {h} : \A d \in runs : Len(d) <= Len(c)
  <2> DEFINE D == {MaxSeq - Len(c) : c \in runs \cup {h}}
  <2>1. MaxSeq \in Nat  BY Sizes
  <2>2. \A c \in runs \cup {h} : Len(c) \in Nat /\ Len(c) <= MaxSeq  BY <1>2, BackedLen
  <2>3. \A c \in runs \cup {h} : MaxSeq - Len(c) \in Nat  BY <2>1, <2>2
  <2>4. D \in SUBSET Nat /\ D # {}  BY <2>3
  <2>5. PICK x \in D : \A y \in D : x <= y  BY <2>4, Least
  <2>6. PICK c \in runs \cup {h} : x = MaxSeq - Len(c)  BY <2>5
  <2>7. ASSUME NEW d \in runs PROVE Len(d) <= Len(c)
    <3>1. MaxSeq - Len(c) <= MaxSeq - Len(d)  BY <2>5, <2>6
    <3>2. Len(d) \in Nat /\ Len(c) \in Nat  BY <2>2
    <3> QED BY <2>1, <3>1, <3>2
  <2> QED BY <2>7
<1>6. top \in runs \cup {h}  BY <1>5
<1> HIDE DEF top
<1>7. Backed(World, n, s, top) /\ IsPrefix(h, top)  BY <1>2, <1>4, <1>6
<1> QED BY <1>1, <1>7

\* What stream s of n may become by entries it is given.
ViewOK(n, s, v) ==
  /\ DOMAIN v = {"head", "pending", "seal"} /\ v.seal \in BOOLEAN
  /\ v.head \in Seq(Content) /\ IsPrefix(log[n][s], v.head)
  /\ v.head # log[n][s] => s \notin sealed[n] /\ Backed(World, n, s, v.head)
  /\ \A c \in v.pending : Backed(World, n, s, c)
  /\ s \in sealed[n] => v.seal

\* processExternal of a backed entry: the head grows to a backed chain or stays.
LEMMA ApplyOK ==
  ASSUME WorldOK(World), NEW n \in Node, NEW s \in Stream, NEW v, ViewOK(n, s, v),
         NEW e, Backed(World, n, s, e)
  PROVE  ViewOK(n, s, applyExternal(n, s, v, e))
<1> DEFINE same == {c \in v.pending : Len(c) = Len(e)}
           fork == [v EXCEPT !.seal = TRUE]
           u == drain(e, v.pending)
<1>1. ViewOK(n, s, fork)  BY DEF ViewOK
<1>2. ViewOK(n, s, [v EXCEPT !.pending = @ \cup {e}])  BY DEF ViewOK
<1>3. ASSUME ~v.seal, IsPrefix(v.head, e), Len(e) = Len(v.head) + 1 PROVE ViewOK(n, s, u)
  <2>1. /\ DOMAIN u = {"head", "pending", "seal"} /\ u.seal \in BOOLEAN
        /\ Backed(World, n, s, u.head) /\ IsPrefix(e, u.head)
        /\ u.pending \subseteq v.pending
    BY DrainOK DEF ViewOK
  <2> HIDE DEF u
  <2>2. /\ log[n][s] \in Seq(Content) /\ v.head \in Seq(Content) /\ e \in Seq(Content)
        /\ u.head \in Seq(Content)
    BY <2>1, LogBounds, BackedLen DEF ViewOK
  <2>3. IsPrefix(log[n][s], v.head)  BY DEF ViewOK
  <2>4. IsPrefix(v.head, u.head)  BY <1>3, <2>1, <2>2, PrefixTrans
  <2>5. IsPrefix(log[n][s], u.head)  BY <2>2, <2>3, <2>4, PrefixTrans
  <2>6. s \notin sealed[n]  BY <1>3 DEF ViewOK
  <2> QED BY <2>1, <2>2, <2>5, <2>6 DEF ViewOK
<1> HIDE DEF fork, u
<1>4. \/ applyExternal(n, s, v, e) \in {v, fork, [v EXCEPT !.pending = @ \cup {e}]}
      \/ /\ ~v.seal /\ IsPrefix(v.head, e) /\ Len(e) = Len(v.head) + 1
         /\ applyExternal(n, s, v, e) = u
  BY DEF applyExternal, fork, u
<1> QED BY <1>1, <1>2, <1>3, <1>4
--------------------------------------------------------------------------------
(* WANT lane and comparison of vectors *)

\* queueWant keeps the peer state right,
LEMMA QueueWantOK ==
  ASSUME WorldOK(World), NEW l \in Link, NEW x, PeerOK(x), NEW s \in Stream
  PROVE  PeerOK(queueWant(l, x, s))
<1> DEFINE y == [x EXCEPT !.wanted = @ \cup {s}, !.wantQueue = Append(@, s)]
<1>1. PeerOK(y)  BY DEF PeerOK, PeerFields
<1> HIDE DEF y
<1>2. PeerOK(pumpWants(l, y))  BY <1>1, pumpWantsOK
<1> QED BY <1>2 DEF queueWant, y

\* and so does finishWant.
LEMMA FinishWantOK ==
  ASSUME WorldOK(World), NEW l \in Link, NEW x, PeerOK(x), NEW r
  PROVE  PeerOK(finishWant(l, x, r))
<1> DEFINE w == CHOOSE w \in x.active : w.req = r
           y == [x EXCEPT !.active = @ \ {w}, !.reqs = @ \ {w}, !.wanted = @ \ {w.s}]
<1> HIDE DEF w
<1>1. PeerOK(y)  BY DEF PeerOK, PeerFields
<1> HIDE DEF y
<1>2. PeerOK(pumpWants(l, y))  BY <1>1, pumpWantsOK
<1> QED BY <1>2 DEF finishWant, y, w

\* The state of a comparison.
RoundAt(a) == DOMAIN a = {"x", "seals"} /\ PeerOK(a.x) /\ a.seals \subseteq Stream

\* processPeerVectors for one stream keeps the state of the comparison right.
LEMMA CompareOK ==
  ASSUME WorldOK(World), NEW l \in Link, NEW a, RoundAt(a),
         NEW w, w.s \in Stream, w.chain \in Seq(Content)
  PROVE  RoundAt(comparePeer(l, a, w))
<1> DEFINE x == [a.x EXCEPT !.known[w.s] = Len(w.chain)]
           at == Len(w.chain)
           mine == Contig(l[1], w.s)
<1>1. at \in Nat /\ mine \in Nat  BY LinkEnds, LogBounds
<1>2. PeerOK(x)  BY DEF RoundAt, PeerOK, PeerFields
<1> HIDE DEF x, at, mine
<1> DEFINE y == CASE at > mine -> queueWant(l, x, w.s)
                  [] at < mine -> markDirty(x, w.s)
                  [] at = mine -> x
<1>3. PeerOK(locateFork(x, w.s, at))  BY <1>2, ProbeReqOK
<1>4. PeerOK(y)
  <2>1. PeerOK(queueWant(l, x, w.s)) /\ PeerOK(markDirty(x, w.s))
    BY <1>2, QueueWantOK, DirtyOK
  <2> QED BY <1>1, <1>2, <2>1
<1> HIDE DEF y
<1>5. comparePeer(l, a, w) \in {[a EXCEPT !.x = x], [a EXCEPT !.x = y],
                                [x |-> locateFork(x, w.s, at), seals |-> a.seals \cup {w.s}]}
  BY DEF comparePeer, x, y, at, mine
<1>6. RoundAt([a EXCEPT !.x = x]) /\ RoundAt([a EXCEPT !.x = y])  BY <1>2, <1>4 DEF RoundAt
<1>7. RoundAt([x |-> locateFork(x, w.s, at), seals |-> a.seals \cup {w.s}])
  BY <1>3 DEF RoundAt
<1> QED BY <1>5, <1>6, <1>7
--------------------------------------------------------------------------------
(* Frames *)

\* The rows n holds of a range are a range.
Rows(n, s, a, b) == {i \in a..b : HasRow(n, s, i)}
FirstRow(n, s, a) == IF a > floor[n][s] THEN a ELSE floor[n][s] + 1
LastRow(n, s, b) == IF b < Contig(n, s) THEN b ELSE Contig(n, s)

\* The rows of a range that a replica holds, from the floor to the head.
LEMMA RowsRange ==
  ASSUME WorldOK(World), NEW n \in Node, NEW s \in Stream, NEW a \in Nat, NEW b \in Nat
  PROVE  /\ FirstRow(n, s, a) \in Nat /\ LastRow(n, s, b) \in Nat
         /\ FirstRow(n, s, a) > 0 /\ FirstRow(n, s, a) >= a
         /\ LastRow(n, s, b) <= Contig(n, s) /\ LastRow(n, s, b) <= b
         /\ Rows(n, s, a, b) = FirstRow(n, s, a)..LastRow(n, s, b)
<1>1. /\ Contig(n, s) \in Nat /\ floor[n][s] \in Nat
      /\ floor[n][s] <= Contig(n, s)
  BY LogBounds
<1>2. /\ FirstRow(n, s, a) \in Nat /\ LastRow(n, s, b) \in Nat
      /\ FirstRow(n, s, a) > 0 /\ FirstRow(n, s, a) >= a
      /\ LastRow(n, s, b) <= Contig(n, s) /\ LastRow(n, s, b) <= b
  BY <1>1 DEF FirstRow, LastRow
<1>3. Rows(n, s, a, b) = FirstRow(n, s, a)..LastRow(n, s, b)
  BY <1>1 DEF HasRow, Rows, FirstRow, LastRow
<1> QED BY <1>2, <1>3

\* What one replica holds is backed for another.
LEMMA HeldBacked ==
  ASSUME WorldOK(World), NEW n \in Node, NEW p \in Node \ {n}, NEW s \in Stream,
         NEW k \in Nat, k <= Contig(n, s)
  PROVE  Backed(World, p, s, Chain(n, s, k)) /\ Len(Chain(n, s, k)) = k
<1>1. log[n][s] \in Seq(Content) /\ Contig(n, s) = Len(log[n][s])  BY LogBounds DEF Contig
<1>2. /\ Chain(n, s, k) \in Seq(Content) /\ Len(Chain(n, s, k)) = k
      /\ IsPrefix(Chain(n, s, k), log[n][s])
  BY <1>1, PrefixCut DEF Chain
<1>3. log[n][s] \in SourceOf(World, p, s)
  <2>1. World.log = log /\ n \in Node \ {p}  BY DEF World
  <2> QED BY <2>1 DEF SourceOf
<1> QED BY <1>2, <1>3 DEF Backed

\* A frame cut from a replica's rows carries backed entries.
LEMMA EntriesOK ==
  ASSUME WorldOK(World), NEW l \in Link, NEW s \in Stream, NEW r, NEW from, NEW to \in Nat,
         NEW lo \in Nat, NEW hi \in Nat, hi <= Contig(l[1], s), lo > 0
  PROVE  FrameOK(World, l, Entries(l[1], s, r, from, to, lo..hi))
<1> DEFINE n == l[1]
           N == Cardinality(lo..hi)
           es == [i \in 1..N |-> Chain(n, s, Min(lo..hi) + i - 1)]
           f == Entries(n, s, r, from, to, lo..hi)
<1>1. f.s = s /\ f.to = to /\ f.entries = es  BY DEF Entries
<1>2. n \in Node /\ l[2] \in Node \ {n}  BY LinkEnds
<1>3. AllBacked(World, l[2], s, es)
  <2>1. CASE lo > hi
    <3>1. N = 0  BY <2>1, FS_Interval
    <3>2. es = << >>  BY <3>1
    <3> QED BY <3>2, NilSet DEF AllBacked
  <2>2. CASE lo <= hi
    <3>1. Min(lo..hi) = lo /\ N = hi - lo + 1  BY <2>2, RangeEnds
    <3>2. ASSUME NEW i \in 1..N PROVE Backed(World, l[2], s, es[i])
      <4>1. Contig(n, s) \in Nat  BY <1>2, LogBounds
      <4>2. lo + i - 1 \in Nat /\ lo + i - 1 <= Contig(n, s)  BY <2>2, <3>1, <4>1
      <4>3. Backed(World, l[2], s, Chain(n, s, lo + i - 1))  BY <1>2, <4>2, HeldBacked
      <4>4. es[i] = Chain(n, s, lo + i - 1)  BY <3>1
      <4> QED BY <4>3, <4>4
    <3>3. N \in Nat /\ DOMAIN es = 1..N  BY <2>2, <3>1
    <3> HIDE DEF es, N
    <3>4. \A i \in 1..N : es[i] \in Seq(Content)  BY <3>2 DEF Backed
    <3>5. es = [i \in 1..N |-> es[i]]  BY DEF es
    <3>6. es \in Seq(Seq(Content))
      <4> HIDE DEF n
      <4>1. es \in [1..N -> Seq(Content)]  BY <3>4, <3>5, Zenon
      <4> QED BY <3>3, <4>1
    <3>7. IsSeq(es)  BY <3>6 DEF IsSeq
    <3>8. \A c \in ToSet(es) : Backed(World, l[2], s, c)  BY <3>2, <3>3 DEF ToSet
    <3> QED BY <3>7, <3>8 DEF AllBacked
  <2> QED BY <2>1, <2>2
<1> HIDE DEF f, es
<1>4. FrameOK(World, l, f)  BY <1>1, <1>3 DEF FrameOK
<1> QED BY <1>4 DEF f

\* The state of a pump.
PumpAt(l, a) ==
  /\ DOMAIN a = {"x", "out", "stop"} /\ PeerOK(a.x)
  /\ IsSeq(a.out)
  /\ \A f \in ToSet(a.out) : FrameOK(World, l, f) /\ "req" \in DOMAIN f /\ f.req = 0

\* A turn of pumpDirty sends rows the replica holds.
LEMMA PumpOK ==
  ASSUME WorldOK(World), NEW l \in Link, NEW a, PumpAt(l, a), NEW s \in Stream
  PROVE  PumpAt(l, pumpStream(l, a, s))
<1> DEFINE n == l[1]
           at == a.x.known[s]
           to == Contig(n, s)
           clean == [a EXCEPT !.x.dirty = @ \ {s}]
           ids == {i \in at + 1..at + ENTRIES_BATCH_MAX : HasRow(n, s, i)}
           frame == Entries(n, s, 0, Min(ids), to, ids)
           sent == [a EXCEPT !.out = Append(@, frame), !.x.known[s] = Max(ids)]
           gone == [sent EXCEPT !.x.dirty = @ \ {s}]
           stop == [a EXCEPT !.stop = TRUE]
           skip == at >= to \/ at < floor[n][s]
<1>1. n \in Node  BY LinkEnds
<1>2. at \in Nat  BY DEF PumpAt, PeerOK
<1>3. to \in Nat /\ floor[n][s] \in Nat /\ floor[n][s] <= to  BY <1>1, LogBounds
<1>4. PumpAt(l, clean)  BY DEF PumpAt, PeerOK, PeerFields
<1>5. PumpAt(l, stop)  BY DEF PumpAt, PeerOK, PeerFields
<1>6. ASSUME ~skip PROVE PumpAt(l, sent) /\ PumpAt(l, gone)
  <2>1. ENTRIES_BATCH_MAX \in Nat /\ ENTRIES_BATCH_MAX > 0  BY Sizes
  <2>2. at + 1 \in Nat /\ at + ENTRIES_BATCH_MAX \in Nat  BY <1>2, <2>1
  <2> DEFINE b == at + ENTRIES_BATCH_MAX
             c == at + 1
             lo == FirstRow(n, s, c)
             hi == LastRow(n, s, b)
  <2>3. ids = lo..hi /\ lo \in Nat /\ hi \in Nat /\ lo > 0 /\ hi <= Contig(n, s)
    <3>1. ids = Rows(n, s, c, b) /\ b \in Nat /\ c \in Nat  BY <2>2 DEF Rows
    <3> HIDE DEF b, c, ids, n
    <3> QED BY <1>1, <3>1, RowsRange
  <2>4. at + 1 \in ids  BY <1>2, <1>3, <1>6, <2>1 DEF HasRow
  <2> HIDE DEF ids, lo, hi
  <2>5. lo \in Nat /\ lo > 0 /\ lo <= hi  BY <1>2, <2>3, <2>4
  <2>6. Max(ids) = hi  BY <2>3, <2>5, RangeEnds
  <2>7. FrameOK(World, l, frame) /\ "req" \in DOMAIN frame /\ frame.req = 0
    <3>1. FrameOK(World, l, frame)  BY <1>3, <2>3, <2>5, EntriesOK
    <3> QED BY <3>1 DEF Entries
  <2> HIDE DEF frame
  <2>8. IsSeq(Append(a.out, frame)) /\ ToSet(Append(a.out, frame)) = ToSet(a.out) \cup {frame}
    BY AppendSet DEF PumpAt
  <2>9. PumpAt(l, sent)  BY <2>3, <2>6, <2>7, <2>8 DEF PumpAt, PeerOK, PeerFields
  <2> HIDE DEF sent
  <2>10. PumpAt(l, gone)  BY <2>9 DEF PumpAt, PeerOK, PeerFields
  <2> QED BY <2>9, <2>10
<1>7. \/ pumpStream(l, a, s) \in {stop, clean}
      \/ ~skip /\ pumpStream(l, a, s) \in {sent, gone}
  BY DEF pumpStream
<1> QED BY <1>4, <1>5, <1>6, <1>7
--------------------------------------------------------------------------------
(* What the turns of the other folds preserve *)

\* The view flush starts from.
LEMMA ViewFirst ==
  ASSUME LogInv, NEW n \in Node, NEW s \in Stream
  PROVE  ViewOK(n, s, View(n, s))
<1> DEFINE b == View(n, s)
<1>1. WorldOK(World) /\ PendingOK(World, pending) /\ sealed \in [Node -> SUBSET Stream]
  BY DEF LogInv
<1>2. log[n][s] \in Seq(Content) /\ IsPrefix(log[n][s], log[n][s])
  BY <1>1, LogBounds, PrefixSelf
<1>3. \A c \in pending[n][s] : Backed(World, n, s, c)  BY <1>1 DEF PendingOK
<1>4. /\ DOMAIN b = {"head", "pending", "seal"} /\ b.head = log[n][s]
      /\ b.pending = pending[n][s]
  BY DEF View
<1>5. b.seal \in BOOLEAN /\ (s \in sealed[n] => b.seal)
  <2>1. b.seal = (s \in sealed[n])  BY Zenon DEF View
  <2> HIDE DEF b
  <2>2. CASE s \in sealed[n]
    <3>1. (s \in sealed[n]) = TRUE  BY <2>2
    <3>2. b.seal = TRUE  BY <2>1, <3>1
    <3> QED BY <3>2
  <2>3. CASE s \notin sealed[n]
    <3>1. (s \in sealed[n]) = FALSE  BY <2>3
    <3>2. b.seal = FALSE  BY <2>1, <3>1
    <3> QED BY <2>3, <3>2
  <2> QED BY <2>2, <2>3
<1> HIDE DEF b
<1>6. ViewOK(n, s, b)  BY <1>2, <1>3, <1>4, <1>5 DEF ViewOK
<1> QED BY <1>6 DEF b

\* A frame applied to a stream, entry by entry.
LEMMA applyAllOK ==
  ASSUME LogInv, NEW n \in Node, NEW s \in Stream, NEW es, AllBacked(World, n, s, es)
  PROVE  ViewOK(n, s, applyAll(n, s, es))
<1> DEFINE N == Len(es)
           b == View(n, s)
<1>1. IsSeq(es) /\ N \in Nat /\ \A i \in 1..N : Backed(World, n, s, es[i])
  BY DEF AllBacked, IsSeq, ToSet
<1>2. PICK G : /\ G[0] = b
               /\ \A i \in 1..N : G[i] = applyExternal(n, s, G[i - 1], es[i])
               /\ applyAll(n, s, es) = G[N]
  BY <1>1, applyAllFold
<1>3. ViewOK(n, s, b)  BY ViewFirst
<1> HIDE DEF b, N
<1> DEFINE S == {i \in Nat : i <= N => ViewOK(n, s, G[i])}
<1>4. 0 \in S  BY <1>2, <1>3
<1>5. ASSUME NEW i \in Nat, i \in S PROVE i + 1 \in S
  <2>1. CASE i + 1 <= N
    <3>1. i + 1 \in 1..N /\ (i + 1) - 1 = i /\ i <= N  BY <1>1, <2>1
    <3>2. ViewOK(n, s, G[i]) /\ Backed(World, n, s, es[i + 1])  BY <1>1, <1>5, <3>1
    <3>3. ViewOK(n, s, applyExternal(n, s, G[i], es[i + 1]))  BY <3>2, ApplyOK DEF LogInv
    <3>4. G[i + 1] = applyExternal(n, s, G[i], es[i + 1])  BY <1>2, <3>1
    <3> QED BY <3>3, <3>4
  <2> QED BY <2>1
<1> HIDE DEF S
<1>6. N \in S  BY <1>1, <1>4, <1>5, NatInduct
<1> QED BY <1>1, <1>2, <1>6 DEF S

\* A round's vectors compared, stream by stream.
LEMMA compareAllOK ==
  ASSUME WorldOK(World), NEW l \in Link, NEW x, PeerOK(x),
         NEW ws, IsFiniteSet(ws), \A w \in ws : w.s \in Stream /\ w.chain \in Seq(Content)
  PROVE  RoundAt(compareAll(l, x, ws))
<1>1. PICK F : Compares(F, l, x, ws) /\ compareAll(l, x, ws) = F[ws]  BY compareAllFold
<1> DEFINE G == {t \in SUBSET ws : RoundAt(F[t])}
<1>2. {} \in G  BY <1>1 DEF RoundAt, Compares
<1>3. ASSUME NEW t \in SUBSET ws, t # {} PROVE \E e \in t : t \ {e} \in G => t \in G
  <2>1. PICK e \in t : F[t] = comparePeer(l, F[t \ {e}], e)
    BY <1>1, <1>3 DEF Compares
  <2>2. t \ {e} \in G => t \in G  BY <2>1, CompareOK
  <2> QED BY <2>2
<1> HIDE DEF G
<1>4. \A t \in SUBSET ws : t \in G  BY <1>2, <1>3, SetInduct
<1> QED BY <1>1, <1>4 DEF G

\* The dirty streams pumped, one by one.
LEMMA pumpAllOK ==
  ASSUME WorldOK(World), NEW l \in Link, PeerOK(ps[l])
  PROVE  PumpAt(l, pumpAll(l))
<1> DEFINE T == ps[l].dirty
           b == [x |-> [ps[l] EXCEPT !.pump = FALSE], out |-> << >>, stop |-> FALSE]
<1>1. T \in SUBSET Stream /\ IsFiniteSet(T)  BY Topology, FS_Subset DEF PeerOK
<1>2. PICK F : /\ F[{}] = b
               /\ \A t \in SUBSET T : t # {} => \E e \in t : F[t] = pumpStream(l, F[t \ {e}], e)
               /\ pumpAll(l) = F[T]
  BY <1>1, pumpAllFold
<1>3. PumpAt(l, b)
  <2>1. PeerOK([ps[l] EXCEPT !.pump = FALSE])  BY DEF PeerOK, PeerFields
  <2> QED BY <2>1, NilSet DEF PumpAt
<1> HIDE DEF T, b
<1> DEFINE G == {t \in SUBSET T : PumpAt(l, F[t])}
<1>4. {} \in G  BY <1>2, <1>3
<1>5. ASSUME NEW t \in SUBSET T, t # {} PROVE \E e \in t : t \ {e} \in G => t \in G
  <2>1. PICK e \in t : F[t] = pumpStream(l, F[t \ {e}], e)  BY <1>2, <1>5
  <2>2. t \ {e} \in G => t \in G  BY <1>1, <2>1, PumpOK
  <2> QED BY <2>2
<1> HIDE DEF G
<1>6. \A t \in SUBSET T : t \in G  BY <1>1, <1>4, <1>5, SetInduct
<1> QED BY <1>2, <1>6 DEF G

\* A frame with rows of a stream that answers a request.
RowsOf(f, s, r) == "req" \in DOMAIN f /\ f.req = r /\ f.s = s /\ f.entries # << >>

\* serveWant's batches, a recursive function whose argument grows.
LEMMA BatchesOK ==
  ASSUME WorldOK(World), NEW l \in Link, NEW s \in Stream, NEW r, NEW from \in 1..MaxSeq + 1
  PROVE  LET out == Batches(l[1], s, r, Contig(l[1], s))[from]
         IN IsSeq(out) /\ \A f \in ToSet(out) : FrameOK(World, l, f) /\ RowsOf(f, s, r)
<1> DEFINE n == l[1]
           to == Contig(n, s)
           D == 1..MaxSeq + 1
           Ids(k) == {i \in k..k + ENTRIES_BATCH_MAX - 1 : i <= to /\ HasRow(n, s, i)}
           End(k) == k > to \/ Ids(k) = {}
           One(k) == Entries(n, s, r, k, to, Ids(k))
           Then(k) == Max(Ids(k)) + 1
           Rhs(f, k) == IF End(k) THEN << >> ELSE <<One(k)>> \o f[Then(k)]
           Upto(j) == \E f : \A k \in D : k + j > MaxSeq + 1 => f[k] = Rhs(f, k)
           It(f) == f = [k \in D |-> Rhs(f, k)]
           F == CHOOSE f : It(f)
           Good(q) == IsSeq(q) /\ \A f \in ToSet(q) : FrameOK(World, l, f) /\ RowsOf(f, s, r)
<1>1. Batches(n, s, r, to) = F  BY DEF Batches
<1>2. MaxSeq \in Nat /\ n \in Node /\ to \in Nat /\ to <= MaxSeq  BY Sizes, LinkEnds, LogBounds
<1>3. ASSUME NEW k \in D, ~End(k)
      PROVE  Then(k) \in D /\ Then(k) > k /\ FrameOK(World, l, One(k)) /\ RowsOf(One(k), s, r)
  <2> DEFINE b == k + ENTRIES_BATCH_MAX - 1
  <2>1. k \in Nat /\ b \in Nat
    <3>1. ENTRIES_BATCH_MAX \in Nat  BY Sizes
    <3> QED BY <3>1
  <2>2. Ids(k) = Rows(n, s, k, b)  BY <1>2 DEF Rows, HasRow
  <2> HIDE DEF b, Ids, n
  <2> DEFINE lo == FirstRow(n, s, k)
             hi == LastRow(n, s, b)
  <2>3. /\ Rows(n, s, k, b) = lo..hi /\ lo \in Nat /\ hi \in Nat
        /\ lo > 0 /\ hi <= Contig(n, s) /\ hi <= b /\ lo >= k
    BY <1>2, <2>1, RowsRange
  <2> HIDE DEF lo, hi
  <2>4. lo <= hi  BY <1>3, <2>2, <2>3
  <2>5. Max(Ids(k)) = hi  BY <2>2, <2>3, <2>4, RangeEnds
  <2>6. Then(k) \in D /\ Then(k) > k  BY <1>2, <2>1, <2>3, <2>4, <2>5
  <2>7. FrameOK(World, l, Entries(l[1], s, r, k, to, lo..hi))
    BY <1>2, <2>3, EntriesOK DEF n
  <2>8. RowsOf(Entries(n, s, r, k, to, lo..hi), s, r)
    <3> DEFINE N == Cardinality(lo..hi)
               f == Entries(n, s, r, k, to, lo..hi)
    <3>1. N \in Nat /\ N > 0
      <4>1. N = hi - lo + 1  BY <2>3, <2>4, RangeEnds
      <4> HIDE DEF N
      <4> QED BY <2>3, <2>4, <4>1
    <3>2. /\ "req" \in DOMAIN f /\ f.req = r /\ f.s = s
          /\ f.entries = [i \in 1..N |-> Chain(n, s, Min(lo..hi) + i - 1)]
      BY DEF Entries
    <3> HIDE DEF f, N
    <3>3. DOMAIN f.entries = 1..N /\ 1 \in 1..N  BY <3>1, <3>2
    <3>4. f.entries # << >>
      <4>1. DOMAIN << >> = {}  OBVIOUS
      <4> QED BY <3>3, <4>1, Zenon
    <3>5. RowsOf(f, s, r)  BY <3>2, <3>4 DEF RowsOf
    <3> QED BY <3>5 DEF f
  <2> QED BY <2>2, <2>3, <2>6, <2>7, <2>8 DEF n
<1> HIDE DEF n, to, Ids, End, One, Then
<1>4. Upto(0)
  <2> DEFINE f == [k \in D |-> << >>]
  <2>1. \A k \in D : k + 0 > MaxSeq + 1 => f[k] = Rhs(f, k)  BY <1>2
  <2> QED BY <2>1
<1>5. ASSUME NEW j \in Nat, Upto(j) PROVE Upto(j + 1)
  <2>1. PICK f : \A k \in D : k + j > MaxSeq + 1 => f[k] = Rhs(f, k)  BY <1>5
  <2> DEFINE g == [k \in D |-> IF k + j > MaxSeq + 1 THEN f[k] ELSE Rhs(f, k)]
  <2>2. ASSUME NEW k \in D, k + (j + 1) > MaxSeq + 1 PROVE g[k] = Rhs(g, k)
    <3>1. g[k] = Rhs(f, k)  BY <2>1
    <3>2. ~End(k) => g[Then(k)] = f[Then(k)]
      <4>1. ~End(k) => Then(k) \in D /\ Then(k) + j > MaxSeq + 1  BY <1>2, <1>3, <2>2
      <4> QED BY <4>1
    <3> HIDE DEF g
    <3> QED BY <3>1, <3>2
  <2> HIDE DEF g
  <2> QED BY <2>2
<1>6. Upto(MaxSeq + 1)
  <2> DEFINE S == {j \in Nat : Upto(j)}
  <2> HIDE DEF Upto
  <2>1. 0 \in S /\ \A j \in Nat : j \in S => j + 1 \in S  BY <1>4, <1>5
  <2>2. MaxSeq + 1 \in Nat  BY <1>2
  <2> HIDE DEF S
  <2>3. MaxSeq + 1 \in S  BY <2>1, <2>2, NatInduct
  <2> QED BY <2>3 DEF S
<1>7. It(F)
  <2>1. PICK f : \A k \in D : k + (MaxSeq + 1) > MaxSeq + 1 => f[k] = Rhs(f, k)  BY <1>6
  <2>2. \A k \in D : f[k] = Rhs(f, k)  BY <1>2, <2>1
  <2> DEFINE g == [k \in D |-> f[k]]
  <2>3. \A k \in D : g[k] = Rhs(g, k)  BY <1>3, <2>2
  <2>4. It(g)  BY <2>3
  <2> QED BY <2>4
<1> HIDE DEF F
<1>8. \A k \in D : Good(F[k])
  <2> DEFINE S == {j \in Nat : \A k \in D : k + j > MaxSeq + 1 => Good(F[k])}
  <2> HIDE DEF Good
  <2>1. 0 \in S  BY <1>2
  <2>2. ASSUME NEW j \in Nat, j \in S PROVE j + 1 \in S
    <3>1. ASSUME NEW k \in D, k + (j + 1) > MaxSeq + 1 PROVE Good(F[k])
      <4>1. F[k] = Rhs(F, k)  BY <1>7
      <4>2. CASE End(k)
        <5>1. F[k] = << >>  BY <4>1, <4>2
        <5> QED BY <5>1, NilSet DEF Good
      <4>3. CASE ~End(k)
        <5>1. Then(k) \in D /\ Then(k) + j > MaxSeq + 1  BY <1>2, <1>3, <3>1, <4>3
        <5>2. Good(F[Then(k)])  BY <2>2, <5>1
        <5>3. IsSeq(<<One(k)>>) /\ ToSet(<<One(k)>>) = {One(k)}  BY OneSeq
        <5>4. F[k] = <<One(k)>> \o F[Then(k)]  BY <4>1, <4>3
        <5>5. IsSeq(F[k]) /\ ToSet(F[k]) \subseteq {One(k)} \cup ToSet(F[Then(k)])
          BY <5>2, <5>3, <5>4, CatSet DEF Good
        <5>6. FrameOK(World, l, One(k)) /\ RowsOf(One(k), s, r)  BY <1>3, <4>3
        <5> QED BY <5>2, <5>5, <5>6 DEF Good
      <4> QED BY <4>2, <4>3
    <3> QED BY <3>1
  <2>3. MaxSeq + 1 \in Nat  BY <1>2
  <2> HIDE DEF S
  <2>4. MaxSeq + 1 \in S  BY <2>1, <2>2, <2>3, NatInduct
  <2>5. \A k \in D : k + (MaxSeq + 1) > MaxSeq + 1  BY <1>2
  <2> QED BY <2>4, <2>5 DEF S
<1>9. Good(F[from])  BY <1>8
<1>10. Good(Batches(l[1], s, r, Contig(l[1], s))[from])  BY <1>1, <1>9 DEF n, to
<1> HIDE DEF F
<1> QED BY <1>10 DEF Good
--------------------------------------------------------------------------------
(* Parts of actions *)

\* The conjuncts of the invariant.
LEMMA Parts ==
  Inv => /\ LogInv /\ WorldOK(World) /\ PeersOK(ps) /\ CtlOK(World, ctl) /\ LaneOK(World, lane)
         /\ QueueOK(World, queue) /\ SettledOK(settled) /\ EvidenceOK(World, evidence)
BY DEF Inv, LogInv

\* Steps that change one peer state,
LEMMA OnePeer ==
  ASSUME PeersOK(ps), NEW l, NEW y, PeerOK(y), ps' = [ps EXCEPT ![l] = y]
  PROVE  PeersOK(ps')
BY DEF PeersOK

\* send the requests it has made,
LEMMA Requests ==
  ASSUME Inv, PeersOK(ps'), SendRequests
  PROVE  CtlOK(World, ctl')
BY DEF Inv, CtlOK, SendRequests, PeersOK, PeerOK, MsgOK

\* answer a message,
LEMMA Answers ==
  ASSUME Inv, PeersOK(ps'), NEW l \in Link, NEW m, NEW as, Answer(l, m, as),
         \A a \in as : MsgOK(World, l, a)
  PROVE  CtlOK(World, ctl')
<1>1. ASSUME NEW k \in Link, NEW a \in ctl'[k] PROVE MsgOK(World, k, a)
  <2>1. \/ a \in ctl[k]
        \/ k = l /\ a \in as
        \/ a \in ps'[k].reqs
    BY <1>1 DEF Answer
  <2>2. a \in ctl[k] => MsgOK(World, k, a)  BY DEF Inv, CtlOK
  <2>3. a \in ps'[k].reqs => MsgOK(World, k, a)  BY DEF PeersOK, PeerOK, MsgOK
  <2> QED BY <2>1, <2>2, <2>3
<1>2. DOMAIN ctl' = Link  BY DEF Answer
<1> QED BY <1>1, <1>2 DEF CtlOK

\* add to a commit queue,
LEMMA QueueAdd ==
  ASSUME QueueOK(World, queue), NEW n \in Node, NEW q, ItemOK(World, n, q)
  PROVE  QueueOK(World, [queue EXCEPT ![n] = Append(@, q)])
<1>1. IsSeq(Append(queue[n], q)) /\ ToSet(Append(queue[n], q)) = ToSet(queue[n]) \cup {q}
  BY AppendSet DEF QueueOK
<1> QED BY <1>1 DEF QueueOK

\* take from it,
LEMMA QueuePop ==
  ASSUME QueueOK(World, queue), NEW n \in Node, queue[n] # << >>
  PROVE  /\ QueueOK(World, [queue EXCEPT ![n] = Tail(@)])
         /\ ItemOK(World, n, Head(queue[n]))
<1>1. /\ IsSeq(Tail(queue[n])) /\ ToSet(Tail(queue[n])) \subseteq ToSet(queue[n])
      /\ Head(queue[n]) \in ToSet(queue[n])
  BY TailSet DEF QueueOK
<1> QED BY <1>1 DEF QueueOK

\* make a callback due,
LEMMA SettledAdd ==
  ASSUME SettledOK(settled), NEW n \in Node, NEW q, DoneOK(n, q)
  PROVE  SettledOK([settled EXCEPT ![n] = Append(@, q)])
<1>1. IsSeq(Append(settled[n], q)) /\ ToSet(Append(settled[n], q)) = ToSet(settled[n]) \cup {q}
  BY AppendSet DEF SettledOK
<1> QED BY <1>1 DEF SettledOK

\* or run one.
LEMMA SettledPop ==
  ASSUME SettledOK(settled), NEW n \in Node, settled[n] # << >>
  PROVE  SettledOK([settled EXCEPT ![n] = Tail(@)]) /\ DoneOK(n, Head(settled[n]))
<1>1. /\ IsSeq(Tail(settled[n])) /\ ToSet(Tail(settled[n])) \subseteq ToSet(settled[n])
      /\ Head(settled[n]) \in ToSet(settled[n])
  BY TailSet DEF SettledOK
<1> QED BY <1>1 DEF SettledOK

\* sendData: the frames a lane takes.
LEMMA LaneAdd ==
  ASSUME LaneOK(World, lane), NEW l \in Link, NEW fs, IsSeq(fs),
         \A f \in ToSet(fs) : FrameOK(World, l, f)
  PROVE  /\ LaneOK(World, [lane EXCEPT ![l] = @ \o fs])
         /\ LaneOK(World, [lane EXCEPT ![l] = sendData(l, fs)])
         /\ ToSet(sendData(l, fs)) \subseteq ToSet(lane[l]) \cup ToSet(fs)
<1>1. IsSeq(lane[l]) /\ \A f \in ToSet(lane[l]) : FrameOK(World, l, f)  BY DEF LaneOK
<1>2. IsSeq(lane[l] \o fs) /\ ToSet(lane[l] \o fs) \subseteq ToSet(lane[l]) \cup ToSet(fs)
  BY <1>1, CatSet
<1> DEFINE k == Min({Len(fs), LaneCap - Len(lane[l])})
           c == SubSeq(fs, 1, k)
<1>3. k \in Int /\ k <= Len(fs)
  <2>1. Len(fs) \in Nat /\ Len(lane[l]) \in Nat  BY <1>1 DEF IsSeq
  <2>2. LaneCap \in Nat  BY Sizes
  <2> DEFINE a == Len(fs)
             b == LaneCap - Len(lane[l])
  <2>3. a \in Int /\ b \in Int  BY <2>1, <2>2
  <2> HIDE DEF a, b
  <2>4. \E x \in {a, b} : \A y \in {a, b} : x <= y  BY <2>3
  <2>5. Min({a, b}) \in {a, b} /\ \A y \in {a, b} : Min({a, b}) <= y  BY <2>4 DEF Min
  <2> QED BY <2>3, <2>5 DEF a, b
<1> HIDE DEF k
<1>4. IsSeq(c) /\ ToSet(c) \subseteq ToSet(fs)  BY <1>3, CutSet
<1> HIDE DEF c
<1>5. IsSeq(lane[l] \o c) /\ ToSet(lane[l] \o c) \subseteq ToSet(lane[l]) \cup ToSet(c)
  BY <1>1, <1>4, CatSet
<1>6. sendData(l, fs) = lane[l] \o c  BY DEF sendData, c, k
<1>7. LaneOK(World, [lane EXCEPT ![l] = @ \o fs])  BY <1>1, <1>2 DEF LaneOK
<1>8. LaneOK(World, [lane EXCEPT ![l] = lane[l] \o c])  BY <1>1, <1>4, <1>5 DEF LaneOK
<1> QED BY <1>4, <1>5, <1>6, <1>7, <1>8
--------------------------------------------------------------------------------
(* Steps that send and answer *)

\* antiEntropy and tick start a round.
LEMMA RoundInv ==
  ASSUME Inv, NEW l \in Link, antiEntropy(l) \/ tick(l)
  PROVE  Inv'
<1>1. /\ ps' = [ps EXCEPT ![l] = startHaveRound(l, ps[l])] /\ SendRequests
      /\ UNCHANGED <<log, floor, pending, sealed, left, queue, settled, lane, evidence>>
  BY DEF antiEntropy, tick, logVars
<1>2. PeersOK(ps')
  <2>1. PeersOK(ps) /\ PeerOK(startHaveRound(l, ps[l]))  BY Parts, RoundOK DEF PeersOK
  <2> QED BY <1>1, <2>1, OnePeer
<1>3. CtlOK(World, ctl')  BY <1>1, <1>2, Requests
<1> QED BY <1>1, <1>2, <1>3, Parts, Still

\* A request is sent again, or a message lost.
LEMMA ResendInv ==
  ASSUME Inv, NEW l \in Link,
         retry(l) \/ (\E r \in ps[l].reqs : race(l, r)) \/ (\E m \in ctl[l] : lose(l, m))
  PROVE  Inv'
<1>1. /\ UNCHANGED <<log, floor, pending, sealed, left, queue, settled, ps, lane, evidence>>
      /\ \E c : c \subseteq ctl[l] \cup ps[l].reqs /\ ctl' = [ctl EXCEPT ![l] = c]
  BY DEF retry, race, lose, logVars
<1>2. \A m \in ctl[l] \cup ps[l].reqs : MsgOK(World, l, m)
  BY Parts DEF CtlOK, PeersOK, PeerOK, MsgOK
<1>3. CtlOK(World, ctl')  BY <1>1, <1>2, Parts DEF CtlOK
<1> QED BY <1>1, <1>3, Parts, Still

\* The image of a finite set is finite.
LEMMA ImageFinite ==
  ASSUME NEW S, IsFiniteSet(S), NEW f, DOMAIN f = S
  PROVE  IsFiniteSet({f[x] : x \in S})
<1> DEFINE T == {f[x] : x \in S}
           g == [x \in S |-> f[x]]
<1>1. g \in Surjection(S, T)  BY DEF Surjection
<1> QED BY <1>1, FS_Surjection

\* paginateHave: a page holds the head of one stream, and the chain held of it.
LEMMA PagesOK ==
  ASSUME WorldOK(World), NEW n \in Node, NEW r
  PROVE  \A p \in paginateHave(n, r) : PageOK(p)
<1> DEFINE H == {s \in Stream : Contig(n, s) > 0}
           heads == SetToSeq(H)
           of == IF heads = << >> THEN 1 ELSE Len(heads)
           V(i) == IF heads = << >> THEN {} ELSE {[s |-> heads[i], chain |-> log[n][heads[i]]]}
<1>1. IsFiniteSet(H)  BY Topology, FS_Subset
<1>2. heads \in Seq(Stream)
  <2>1. heads \in Seq(H)  BY <1>1, SetSeq
  <2> QED BY <2>1
<1> HIDE DEF heads
<1>3. ASSUME NEW i \in 1..of
      PROVE  IsFiniteSet(V(i)) /\ \A w \in V(i) : w.s \in Stream /\ w.chain \in Seq(Content)
  <2>1. CASE heads = << >>  BY <2>1, FS_EmptySet
  <2>2. CASE heads # << >>
    <3>1. heads[i] \in Stream  BY <1>2, <2>2
    <3>2. log[n][heads[i]] \in Seq(Content)  BY <3>1, LogBounds
    <3>3. V(i) = {[s |-> heads[i], chain |-> log[n][heads[i]]]}  BY <2>2
    <3>4. IsFiniteSet(V(i))  BY <3>3, FS_Singleton
    <3> QED BY <3>1, <3>2, <3>3, <3>4
  <2> QED BY <2>1, <2>2
<1> DEFINE Page(i) ==
  [t |-> "HAVE", req |-> r, page |-> i, of |-> of, fgen |-> n \in cert,
   census |-> [s \in Stream |-> Contig(n, s)], vector |-> V(i)]
<1>4. paginateHave(n, r) = {Page(i) : i \in 1..of}  BY DEF paginateHave, heads
<1> HIDE DEF of, V
<1>5. ASSUME NEW i \in 1..of PROVE PageOK(Page(i))
  <2>1. Page(i).t = "HAVE" /\ Page(i).vector = V(i)  BY Zenon
  <2> HIDE DEF Page
  <2> QED BY <1>3, <2>1 DEF PageOK
<1> HIDE DEF Page
<1> QED BY <1>4, <1>5

\* serveHave answers with captured pages.
LEMMA ServeHaveInv ==
  ASSUME Inv, NEW l \in Link, NEW m, serveHave(l, m)
  PROVE  Inv'
<1> DEFINE c == capture(l, m.req)
           y == [ps[l] EXCEPT !.captured = c]
<1>1. /\ ps' = [ps EXCEPT ![l] = y] /\ Answer(l, m, UNION {k.pages : k \in c})
      /\ UNCHANGED <<log, floor, pending, sealed, left, queue, settled, lane, evidence>>
  BY DEF serveHave, logVars
<1>2. \A k \in c : \A p \in k.pages : PageOK(p)
  <2>1. l[1] \in Node  BY LinkEnds
  <2>2. \A p \in paginateHave(l[1], m.req) : PageOK(p)  BY <2>1, Parts, PagesOK
  <2>3. \A k \in ps[l].captured : \A p \in k.pages : PageOK(p)  BY Parts DEF PeersOK, PeerOK
  <2> QED BY <2>2, <2>3 DEF capture
<1> HIDE DEF c
<1>3. PeerOK(y)  BY <1>2, Parts DEF PeersOK, PeerOK, PeerFields
<1> HIDE DEF y
<1>4. PeersOK(ps')  BY <1>1, <1>3, Parts, OnePeer
<1>5. \A a \in UNION {k.pages : k \in c} : MsgOK(World, l, a)  BY <1>2 DEF MsgOK
<1>6. CtlOK(World, ctl')  BY <1>1, <1>4, <1>5, Answers
<1> QED BY <1>1, <1>4, <1>6, Parts, Still

\* An ingested certificate starts rounds.
LEMMA FinalityInv ==
  ASSUME Inv, NEW l \in Link, NEW m, Finality(l, m)
  PROVE  Inv'
<1>1. /\ ps' = [k \in Link |-> IF k[1] = l[1] /\ l[1] \notin cert
                               THEN startHaveRound(k, ps[k]) ELSE ps[k]]
      /\ Answer(l, m, {})
      /\ UNCHANGED <<log, floor, pending, sealed, left, queue, settled, lane, evidence>>
  BY DEF Finality
<1>2. PeersOK(ps')
  <2>1. \A k \in Link : PeerOK(ps[k]) /\ PeerOK(startHaveRound(k, ps[k]))
    BY Parts, RoundOK DEF PeersOK
  <2> QED BY <1>1, <2>1 DEF PeersOK
<1>3. CtlOK(World, ctl')  BY <1>1, <1>2, Answers
<1> QED BY <1>1, <1>2, <1>3, Parts, Still

\* A complete round is compared; contradicted streams are queued to be sealed.
LEMMA HavePageInv ==
  ASSUME Inv, NEW l \in Link, NEW m, HavePage(l, m)
  PROVE  Inv'
<1> DEFINE n == l[1]
           x == ps[l]
           got == {q \in x.pages : q.page # m.page} \cup {m}
           whole == [x EXCEPT !.expected = 0, !.pages = {},
                              !.reqs = @ \ {[t |-> "HAVE_GET", req |-> m.req]}]
           held == n \notin cert /\ m.fgen
           ws == IF held THEN {} ELSE UNION {q.vector : q \in got}
           a == compareAll(l, whole, ws)
           seals == {SealItem(l, s) : s \in a.seals}
           y == [x EXCEPT !.pages = got]
           as == IF /\ m.req = x.expected /\ Cardinality(got) >= m.of
                    /\ n \in cert /\ ~m.fgen
                 THEN {[t |-> "FINALITY"]} ELSE {}
<1>1. PeerOK(x) /\ n \in Node /\ Back(l) \in Link  BY Parts, LinkEnds DEF PeersOK
<1>2. PageOK(m)
  <2>1. m \in ctl[Back(l)] /\ m.t = "HAVE"  BY DEF HavePage, Takes
  <2>2. MsgOK(World, Back(l), m)  BY <1>1, <2>1, Parts DEF CtlOK
  <2> QED BY <2>1, <2>2 DEF MsgOK, ReqOK
<1>3. IsFiniteSet(got) /\ \A p \in got : PageOK(p)
  <2> DEFINE keep == {q \in x.pages : q.page # m.page}
  <2>1. IsFiniteSet(keep)  BY <1>1, FS_Subset DEF PeerOK
  <2>2. IsFiniteSet(keep \cup {m})  BY <2>1, FS_AddElement
  <2>3. \A p \in keep : PageOK(p)  BY <1>1 DEF PeerOK
  <2> QED BY <1>2, <2>2, <2>3
<1>4. IsFiniteSet(ws) /\ \A w \in ws : w.s \in Stream /\ w.chain \in Seq(Content)
  <2> HIDE DEF got
  <2> DEFINE f == [q \in got |-> q.vector]
             vs == {f[q] : q \in got}
  <2>1. IsFiniteSet(vs)  BY <1>3, ImageFinite
  <2>2. \A v \in vs : IsFiniteSet(v)  BY <1>3 DEF PageOK
  <2>3. IsFiniteSet(UNION vs)  BY <2>1, <2>2, FS_UNION
  <2>4. UNION vs = UNION {q.vector : q \in got}  OBVIOUS
  <2>5. IsFiniteSet(ws)  BY <2>3, <2>4, FS_EmptySet
  <2>6. \A w \in ws : w.s \in Stream /\ w.chain \in Seq(Content)  BY <1>3 DEF PageOK
  <2> QED BY <2>5, <2>6
<1>5. PeerOK(whole)  BY <1>1, FS_EmptySet DEF PeerOK, PeerFields
<1>6. PeerOK(y)  BY <1>1, <1>3 DEF PeerOK, PeerFields
<1>7. /\ \/ UNCHANGED <<ps, queue>>
         \/ ps' = [ps EXCEPT ![l] = y] /\ UNCHANGED queue
         \/ /\ ps' = [ps EXCEPT ![l] = a.x]
            /\ queue' = [queue EXCEPT ![n] = @ \o SetToSeq(seals)]
      /\ Answer(l, m, as)
      /\ UNCHANGED <<log, floor, pending, sealed, left, settled, lane, evidence>>
  BY DEF HavePage, logVars
<1> HIDE DEF y, whole, ws
<1>8. RoundAt(a)  BY <1>4, <1>5, Parts, compareAllOK
<1> HIDE DEF a
<1>9. PeersOK(ps')
  <2>1. PeersOK(ps) /\ PeerOK(a.x)  BY <1>8, Parts DEF RoundAt
  <2> QED BY <1>6, <1>7, <2>1, OnePeer
<1>10. QueueOK(World, queue')
  <2>1. QueueOK(World, queue)  BY Parts
  <2> DEFINE f == [s \in a.seals |-> SealItem(l, s)]
  <2>2. IsFiniteSet(a.seals)  BY <1>8, Topology, FS_Subset DEF RoundAt
  <2>3. IsFiniteSet({f[s] : s \in a.seals})  BY <2>2, ImageFinite
  <2>4. {f[s] : s \in a.seals} = seals  OBVIOUS
  <2>5. IsFiniteSet(seals)  BY <2>3, <2>4
  <2>6. \A e \in seals : ItemOK(World, n, e)
    BY <1>8 DEF RoundAt, SealItem, ItemOK, DoneOK
  <2> HIDE DEF seals
  <2> DEFINE more == SetToSeq(seals)
  <2>7. IsSeq(more) /\ ToSet(more) \subseteq seals  BY <2>5, SetSeq
  <2> HIDE DEF more
  <2>8. IsSeq(queue[n] \o more) /\ ToSet(queue[n] \o more) \subseteq ToSet(queue[n]) \cup ToSet(more)
    BY <1>1, <2>1, <2>7, CatSet DEF QueueOK
  <2>9. \A e \in ToSet(queue[n] \o more) : ItemOK(World, n, e)
    BY <1>1, <2>1, <2>6, <2>7, <2>8 DEF QueueOK
  <2>10. QueueOK(World, [queue EXCEPT ![n] = @ \o more])  BY <1>1, <2>1, <2>8, <2>9 DEF QueueOK
  <2> QED BY <1>7, <2>1, <2>10 DEF more
<1>11. CtlOK(World, ctl')
  <2>1. \A e \in as : MsgOK(World, l, e)  BY DEF MsgOK
  <2> HIDE DEF as
  <2> QED BY <1>7, <1>9, <2>1, Answers
<1> QED BY <1>7, <1>9, <1>10, <1>11, Parts, Still

\* What l's node takes from the control lane was sent to it.
LEMMA Received ==
  ASSUME Inv, NEW l \in Link, NEW m, NEW kind, Takes(l, m, kind)
  PROVE  MsgOK(World, Back(l), m) /\ m.t = kind
<1>1. Back(l) \in Link /\ m \in ctl[Back(l)] /\ m.t = kind  BY LinkEnds DEF Takes
<1> QED BY <1>1, Parts DEF CtlOK

\* serveWant answers with held rows, or with the chain at its floor.
LEMMA WantInv ==
  ASSUME Inv, NEW l \in Link, NEW m, Want(l, m)
  PROVE  Inv'
<1> DEFINE n == l[1]
           to == Contig(n, m.s)
           empty == Entries(n, m.s, m.req, m.from, to, {})
           low == floor[n][m.s]
           below == low > 0 /\ m.from <= low
           cut == [t |-> "TRUNCATED", req |-> m.req, s |-> m.s, chain |-> Chain(n, m.s, low)]
           rows == Batches(n, m.s, m.req, to)[m.from]
           as == IF below /\ ps[l].proto >= 3 THEN {cut} ELSE {}
<1>1. m.s \in Stream /\ m.from \in 1..MaxSeq + 1
  <2>1. MsgOK(World, Back(l), m) /\ m.t = "WANT"  BY Received DEF Want
  <2> QED BY <2>1 DEF MsgOK, ReqOK, PageOK
<1>2. /\ UNCHANGED <<log, floor, pending, sealed, left, queue, settled, ps, evidence>>
      /\ Answer(l, m, as)
      /\ \/ lane' = [lane EXCEPT ![l] = lane[l]]
         \/ lane' = [lane EXCEPT ![l] = sendData(l, <<empty>>)]
         \/ lane' = [lane EXCEPT ![l] = sendData(l, rows)]
  BY DEF Want, logVars
<1>3. n \in Node /\ l[2] \in Node \ {n}  BY LinkEnds
<1>4. to \in Nat /\ low \in Nat /\ low <= to  BY <1>1, <1>3, Parts, LogBounds
<1>5. MsgOK(World, l, cut)
  <2>1. Backed(World, l[2], m.s, Chain(n, m.s, low)) /\ Len(Chain(n, m.s, low)) = low
    BY <1>1, <1>3, <1>4, Parts, HeldBacked
  <2>2. World.floor[n][m.s] = low  BY DEF World
  <2>3. Len(Chain(n, m.s, low)) <= World.floor[n][m.s] /\ n \in Node \ {l[2]}
    BY <1>3, <1>4, <2>1, <2>2
  <2>4. FloorBacked(World, l[2], m.s, Chain(n, m.s, low))  BY <2>1, <2>3 DEF FloorBacked
  <2> QED BY <1>1, <2>4 DEF MsgOK
<1>6. FrameOK(World, l, empty)
  <2>1. 1..0 = {}  OBVIOUS
  <2>2. 1 \in Nat /\ 0 \in Nat /\ 0 <= Contig(l[1], m.s) /\ 1 > 0  BY <1>4
  <2>3. FrameOK(World, l, Entries(l[1], m.s, m.req, m.from, to, 1..0))
    BY ONLY <1>1, <1>4, <2>2, Inv, l \in Link, Parts, EntriesOK
  <2> QED BY <2>1, <2>3
<1>7. IsSeq(rows) /\ \A f \in ToSet(rows) : FrameOK(World, l, f)
  BY <1>1, Parts, BatchesOK
<1> HIDE DEF empty, rows, cut
<1>8. LaneOK(World, lane')
  <2>1. LaneOK(World, lane)  BY Parts
  <2>2. IsSeq(<<empty>>) /\ ToSet(<<empty>>) = {empty}  BY OneSeq
  <2>3. LaneOK(World, [lane EXCEPT ![l] = sendData(l, <<empty>>)])
    BY <1>6, <2>1, <2>2, LaneAdd
  <2>4. LaneOK(World, [lane EXCEPT ![l] = sendData(l, rows)])  BY <1>7, <2>1, LaneAdd
  <2>5. LaneOK(World, [lane EXCEPT ![l] = lane[l]])  BY <2>1 DEF LaneOK
  <2> QED BY <1>2, <2>3, <2>4, <2>5
<1>9. PeersOK(ps')  BY <1>2, Parts
<1>10. CtlOK(World, ctl')
  <2>1. \A a \in as : MsgOK(World, l, a)  BY <1>5
  <2> QED BY <1>2, <1>9, <2>1, Answers
<1> QED BY <1>2, <1>8, <1>9, <1>10, Parts, Still

\* onTruncated queues the floor it was sent.
LEMMA TruncatedInv ==
  ASSUME Inv, NEW l \in Link, NEW m, Truncated(l, m)
  PROVE  Inv'
<1> DEFINE n == l[1]
           x == ps[l]
           w == CHOOSE w \in x.active : w.req = m.req
           y == finishWant(l, x, m.req)
           z == [x EXCEPT !.reqs = @ \ {w}]
           q == [t |-> "floor", link |-> l, req |-> m.req, s |-> m.s,
                 chain |-> m.chain, peerHead |-> x.known[m.s], refused |-> FALSE]
<1>1. m.s \in Stream /\ FloorBacked(World, n, m.s, m.chain)
  <2>1. MsgOK(World, Back(l), m) /\ m.t = "TRUNCATED"  BY Received DEF Truncated
  <2>2. Back(l)[2] = n  BY LinkEnds
  <2> QED BY <2>1, <2>2 DEF MsgOK, ReqOK, PageOK
<1>2. /\ \/ UNCHANGED <<ps, queue>>
         \/ ps' = [ps EXCEPT ![l] = y] /\ UNCHANGED queue
         \/ ps' = [ps EXCEPT ![l] = z] /\ queue' = [queue EXCEPT ![n] = Append(@, q)]
      /\ Answer(l, m, {})
      /\ UNCHANGED <<log, floor, pending, sealed, left, settled, lane, evidence>>
  BY DEF Truncated, logVars
<1>3. PeerOK(x) /\ n \in Node /\ l[1] = n  BY Parts, LinkEnds DEF PeersOK
<1>4. PeerOK(y)  BY <1>3, Parts, FinishWantOK
<1> HIDE DEF w, y
<1>5. PeerOK(z)  BY <1>3 DEF PeerOK, PeerFields
<1>6. ItemOK(World, n, q)  BY <1>1, <1>3 DEF ItemOK, DoneOK
<1> HIDE DEF q, z
<1>7. PeersOK(ps')  BY <1>2, <1>4, <1>5, Parts, OnePeer
<1>8. QueueOK(World, queue')  BY <1>2, <1>3, <1>6, Parts, QueueAdd
<1>9. CtlOK(World, ctl')  BY <1>2, <1>7, Answers
<1> QED BY <1>2, <1>7, <1>8, <1>9, Parts, Still

\* serveProbe answers with points of its own chain.
LEMMA ServeProbeInv ==
  ASSUME Inv, NEW l \in Link, NEW m, serveProbe(l, m)
  PROVE  Inv'
<1> DEFINE n == l[1]
           points == {Chain(n, m.s, i) : i \in {i \in m.seqs : HasRow(n, m.s, i)}}
           a == [t |-> "PROBE_RES", s |-> m.s, points |-> points]
<1>1. m.s \in Stream /\ m.seqs \subseteq Nat
  <2>1. MsgOK(World, Back(l), m) /\ m.t = "PROBE"  BY Received DEF serveProbe
  <2> QED BY <2>1 DEF MsgOK, ReqOK, PageOK
<1>2. /\ UNCHANGED <<log, floor, pending, sealed, left, queue, settled, ps, lane, evidence>>
      /\ Answer(l, m, {a})
  BY DEF serveProbe, logVars
<1>3. n \in Node /\ World.log = log  BY LinkEnds DEF World
<1>4. ASSUME NEW i \in m.seqs, HasRow(n, m.s, i)
      PROVE  Chain(n, m.s, i) \in Seq(Content) /\ IsPrefix(Chain(n, m.s, i), log[n][m.s])
  <2>1. i \in Nat /\ i <= Len(log[n][m.s])  BY <1>1, <1>4 DEF HasRow, Contig
  <2>2. log[n][m.s] \in Seq(Content)  BY <1>1, <1>3, Parts, LogBounds
  <2> QED BY <2>1, <2>2, PrefixCut DEF Chain
<1>5. \A c \in points : c \in Seq(Content) /\ IsPrefix(c, log[n][m.s])  BY <1>4
<1> HIDE DEF points
<1>6. ProbeOK(World, n, a)  BY <1>1, <1>3, <1>5 DEF ProbeOK
<1>7. MsgOK(World, l, a)  BY <1>6 DEF MsgOK
<1>8. PeersOK(ps')  BY <1>2, Parts
<1> HIDE DEF a
<1>9. CtlOK(World, ctl')  BY <1>2, <1>7, <1>8, Answers
<1> QED BY <1>2, <1>8, <1>9, Parts, Still

\* The last common point is one at which both replicas hold the same chain.
LEMMA ProbeResInv ==
  ASSUME Inv, NEW l \in Link, NEW m, ProbeRes(l, m)
  PROVE  Inv'
<1> DEFINE n == l[1]
           p == l[2]
           mine == {r \in ps[l].reqs : r.t = "PROBE" /\ r.s = m.s}
           y == [ps[l] EXCEPT !.reqs = @ \ mine]
           C == Common(n, m.s, m.points)
           top == Max({0} \cup C)
           new == {[link |-> l, s |-> m.s, upTo |-> r.upTo, lastCommon |-> top] : r \in mine}
<1>1. ProbeOK(World, p, m)
  <2>1. MsgOK(World, Back(l), m) /\ m.t = "PROBE_RES"  BY Received DEF ProbeRes
  <2>2. Back(l)[1] = p  BY LinkEnds
  <2> QED BY <2>1, <2>2 DEF MsgOK, ReqOK, PageOK
<1>2. /\ ps' = [ps EXCEPT ![l] = y] /\ Answer(l, m, {})
      /\ evidence' \subseteq evidence \cup new
      /\ UNCHANGED <<log, floor, pending, sealed, left, queue, settled, lane>>
  BY DEF ProbeRes, logVars
<1>3. n \in Node /\ p \in Node /\ m.s \in Stream  BY <1>1, LinkEnds DEF ProbeOK
<1>4. PeerOK(y)  BY Parts DEF PeersOK, PeerOK, PeerFields
<1>5. PeersOK(ps')
  <2> HIDE DEF y
  <2> QED BY <1>2, <1>4, Parts, OnePeer
<1>6. CtlOK(World, ctl')  BY <1>2, <1>5, Answers
<1>7. ASSUME World.left = {} PROVE \A v \in new : Agree(World, v)
  <2> DEFINE a == log[n][m.s]
             b == log[p][m.s]
  <2>1. a \in Seq(Content) /\ b \in Seq(Content) /\ Len(a) \in Nat /\ Len(b) \in Nat
    BY <1>3, Parts, LogBounds
  <2>2. ASSUME NEW k \in C
        PROVE  k \in Nat /\ k <= Len(a) /\ k <= Len(b) /\ \A i \in 1..k : a[i] = b[i]
    <3>1. PICK c \in m.points : k = Len(c) /\ HasRow(n, m.s, k) /\ Chain(n, m.s, k) = c
      BY DEF Common
    <3>2. c \in Seq(Content) /\ IsPrefix(c, b)  BY <1>1, <1>7 DEF ProbeOK, World
    <3>3. k \in Nat /\ k <= Len(a)  BY <3>1, <3>2 DEF HasRow, Contig
    <3>4. IsPrefix(c, a)  BY <2>1, <3>1, <3>3, PrefixCut DEF Chain
    <3> HIDE DEF a, b
    <3>5. k <= Len(b) /\ \A i \in 1..k : c[i] = b[i]  BY <2>1, <3>1, <3>2, PrefixIs
    <3>6. \A i \in 1..k : c[i] = a[i]  BY <2>1, <3>1, <3>2, <3>4, PrefixIs
    <3> QED BY <3>3, <3>5, <3>6
  <2>3. top \in {0} \cup C
    <3> DEFINE S == {0} \cup C
               D == {Len(a) - k : k \in S}
    <3>1. \A k \in S : k \in Nat /\ k <= Len(a)  BY <2>1, <2>2
    <3> HIDE DEF S, a
    <3>2. S # {}  BY DEF S
    <3>3. D \in SUBSET Nat /\ D # {}
      <4>1. \A k \in S : Len(a) - k \in Nat  BY <2>1, <3>1
      <4> QED BY <3>2, <4>1
    <3>4. PICK d \in D : \A u \in D : d <= u  BY <3>3, Least
    <3>5. PICK k \in S : d = Len(a) - k  BY <3>4
    <3>6. ASSUME NEW j \in S PROVE k >= j
      <4>1. Len(a) - k <= Len(a) - j  BY <3>4, <3>5
      <4> QED BY <2>1, <3>1, <4>1
    <3>7. Max(S) \in S  BY <3>6 DEF Max
    <3> QED BY <3>7 DEF S
  <2> HIDE DEF C, top
  <2>4. top \in Nat /\ top <= Len(a) /\ top <= Len(b) /\ \A i \in 1..top : a[i] = b[i]
    BY <2>1, <2>2, <2>3
  <2>5. ASSUME NEW v \in new PROVE Agree(World, v)
    <3>1. v.link = l /\ v.s = m.s /\ v.lastCommon = top  BY <2>5
    <3>2. World.log[n][m.s] = a /\ World.log[p][m.s] = b  BY DEF World
    <3> QED BY <1>3, <2>4, <3>1, <3>2 DEF Agree
  <2> QED BY <2>5
<1> HIDE DEF new
<1>8. EvidenceOK(World, evidence')  BY <1>2, <1>7, Parts DEF EvidenceOK
<1> QED BY <1>2, <1>5, <1>6, <1>8, Parts, Still
--------------------------------------------------------------------------------
(* Steps of the data lane and of the callbacks *)

\* onEntries queues the frame it was sent.
LEMMA OnEntriesInv ==
  ASSUME Inv, NEW l \in Link, onEntries(l)
  PROVE  Inv'
<1> DEFINE n == l[1]
           k == Back(l)
           m == Head(lane[k])
           item == [t |-> "entries", link |-> l, req |-> m.req, s |-> m.s, to |-> m.to,
                    entries |-> m.entries, done |-> m.done]
           x == [ps[l] EXCEPT !.known[m.s] = IF m.to > @ THEN m.to ELSE @]
           y == [ps[k] EXCEPT !.pump = @ \/ ps[k].dirty # {}]
<1>1. n \in Node /\ k \in Link /\ k[2] = n /\ k # l
  <2>1. n \in Node /\ k \in Link /\ k[2] = n /\ k[1] = l[2] /\ l[1] # l[2]  BY LinkEnds
  <2> QED BY <2>1
<1>2. lane[k] # << >>  BY DEF onEntries
<1>3. /\ IsSeq(Tail(lane[k])) /\ ToSet(Tail(lane[k])) \subseteq ToSet(lane[k])
      /\ FrameOK(World, k, m)
  <2>1. IsSeq(lane[k])  BY <1>1, Parts DEF LaneOK
  <2>2. /\ IsSeq(Tail(lane[k])) /\ ToSet(Tail(lane[k])) \subseteq ToSet(lane[k])
        /\ m \in ToSet(lane[k])
    BY <1>2, <2>1, TailSet
  <2> QED BY <1>1, <2>2, Parts DEF LaneOK
<1>4. LaneOK(World, [lane EXCEPT ![k] = Tail(@)])  BY <1>1, <1>3, Parts DEF LaneOK
<1>5. m.s \in Stream /\ m.to \in Nat /\ AllBacked(World, n, m.s, m.entries)
  BY <1>1, <1>3 DEF FrameOK
<1>6. /\ \/ settled' = [settled EXCEPT ![n] = Append(@, item)] /\ UNCHANGED queue
         \/ queue' = [queue EXCEPT ![n] = Append(@, item)] /\ UNCHANGED settled
      /\ lane' = [lane EXCEPT ![k] = Tail(@)]
      /\ UNCHANGED <<log, floor, pending, sealed, left, ctl, evidence>>
  BY DEF onEntries, logVars
<1>7. ps' = [ps EXCEPT ![l] = x, ![k] = y]
  <2>1. ps' = [ps EXCEPT ![l].known[m.s] = IF m.to > @ THEN m.to ELSE @,
                         ![k].pump = @ \/ ps[k].dirty # {}]
    BY DEF onEntries
  <2> HIDE DEF m, k
  <2> QED BY <1>1, <2>1, Parts DEF PeersOK, PeerOK, PeerFields
<1>8. ItemOK(World, n, item) /\ DoneOK(n, item)  BY <1>1, <1>5 DEF ItemOK, DoneOK
<1> HIDE DEF item
<1>9. PeerOK(x)  BY <1>5, Parts DEF PeersOK, PeerOK, PeerFields
<1>10. PeerOK(y)  BY <1>1, Parts DEF PeersOK, PeerOK, PeerFields
<1> HIDE DEF x, y, m, k
<1>11. PeersOK(ps')  BY <1>1, <1>7, <1>9, <1>10, Parts DEF PeersOK
<1>12. QueueOK(World, queue') /\ SettledOK(settled')
  BY <1>1, <1>6, <1>8, Parts, QueueAdd, SettledAdd
<1> QED BY <1>4, <1>6, <1>11, <1>12, Parts, Still

\* pumpDirty sends what it holds.
LEMMA PumpDirtyInv ==
  ASSUME Inv, NEW l \in Link, pumpDirty(l)
  PROVE  Inv'
<1> DEFINE a == pumpAll(l)
<1>1. /\ ps' = [ps EXCEPT ![l] = a.x] /\ lane' = [lane EXCEPT ![l] = @ \o a.out]
      /\ UNCHANGED <<log, floor, pending, sealed, left, queue, settled, ctl, evidence>>
  BY DEF pumpDirty, logVars
<1>2. PumpAt(l, a)
  <2>1. PeerOK(ps[l])  BY Parts DEF PeersOK
  <2> QED BY <2>1, Parts, pumpAllOK
<1> HIDE DEF a
<1>3. PeersOK(ps')
  <2>1. PeerOK(a.x) /\ PeersOK(ps)  BY <1>2, Parts DEF PumpAt
  <2> QED BY <1>1, <2>1, OnePeer
<1>4. LaneOK(World, lane')
  <2>1. IsSeq(a.out) /\ \A f \in ToSet(a.out) : FrameOK(World, l, f)  BY <1>2 DEF PumpAt
  <2> QED BY <1>1, <2>1, Parts, LaneAdd
<1> QED BY <1>1, <1>3, <1>4, Parts, Still

\* onEntries' callback only changes the want lane,
LEMMA CompleteEntriesInv ==
  ASSUME Inv, NEW n \in Node, CompleteEntries(n)
  PROVE  Inv'
<1> DEFINE q == Head(settled[n])
           l == q.link
           x == ps[l]
           mine == q.done /\ \E w \in x.active : w.req = q.req
           y == finishWant(l, x, q.req)
           seen == [y EXCEPT !.progress[q.s] = Contig(n, q.s)]
           ended == [y EXCEPT !.progress[q.s] = None, !.stalled = @ \ {q.s}]
           stuck == [seen EXCEPT !.stalled = @ \cup {q.s}]
           again == [seen EXCEPT !.stalled = @ \ {q.s}]
           z == IF ~mine THEN x
                ELSE IF q.s \in sealed[n] \/ q.to <= Contig(n, q.s) THEN ended
                ELSE IF Stuck(l, q.s) THEN stuck ELSE queueWant(l, again, q.s)
<1>1. /\ settled[n] # << >> /\ settled' = [settled EXCEPT ![n] = Tail(@)]
      /\ ps' = [ps EXCEPT ![l] = z] /\ SendRequests
      /\ UNCHANGED <<log, floor, pending, sealed, left, queue, lane, evidence>>
  BY DEF CompleteEntries, logVars
<1>2. SettledOK(settled') /\ DoneOK(n, q)  BY <1>1, Parts, SettledPop
<1>3. l \in Link /\ q.s \in Stream  BY <1>2 DEF DoneOK
<1> HIDE DEF q, l
<1>4. PeerOK(x)  BY <1>3, Parts DEF PeersOK
<1>5. PeerOK(y)  BY <1>3, <1>4, Parts, FinishWantOK
<1> HIDE DEF y, x, mine
<1>6. PeerOK(ended) /\ PeerOK(seen)  BY <1>5 DEF PeerOK, PeerFields
<1> HIDE DEF seen, ended
<1>7. PeerOK(stuck) /\ PeerOK(again)  BY <1>6 DEF PeerOK, PeerFields
<1> HIDE DEF stuck, again
<1>8. PeerOK(queueWant(l, again, q.s))  BY <1>3, <1>7, Parts, QueueWantOK
<1>9. PeerOK(z)
  BY <1>4, <1>6, <1>7, <1>8
<1> HIDE DEF z
<1>10. PeersOK(ps')  BY <1>1, <1>9, Parts, OnePeer
<1>11. CtlOK(World, ctl')  BY <1>1, <1>10, Requests
<1> QED BY <1>1, <1>2, <1>10, <1>11, Parts, Still

\* and so does onTruncated's.
LEMMA CompleteFloorInv ==
  ASSUME Inv, NEW n \in Node, CompleteFloor(n)
  PROVE  Inv'
<1> DEFINE q == Head(settled[n])
           l == q.link
           y == finishWant(l, ps[l], q.req)
           z == IF q.refused \/ Contig(n, q.s) >= q.peerHead \/ q.req = 0
                THEN y ELSE queueWant(l, y, q.s)
<1>1. /\ settled[n] # << >> /\ settled' = [settled EXCEPT ![n] = Tail(@)]
      /\ ps' = [ps EXCEPT ![l] = z] /\ SendRequests
      /\ UNCHANGED <<log, floor, pending, sealed, left, queue, lane, evidence>>
  BY DEF CompleteFloor, logVars
<1>2. SettledOK(settled') /\ DoneOK(n, q)  BY <1>1, Parts, SettledPop
<1>3. l \in Link /\ q.s \in Stream  BY <1>2 DEF DoneOK
<1> HIDE DEF q, l
<1>4. PeerOK(ps[l])  BY <1>3, Parts DEF PeersOK
<1>5. PeerOK(y)  BY <1>3, <1>4, Parts, FinishWantOK
<1> HIDE DEF y
<1>6. PeerOK(queueWant(l, y, q.s))  BY <1>3, <1>5, Parts, QueueWantOK
<1>7. PeerOK(z)  BY <1>5, <1>6
<1> HIDE DEF z
<1>8. PeersOK(ps')  BY <1>1, <1>7, Parts, OnePeer
<1>9. CtlOK(World, ctl')  BY <1>1, <1>8, Requests
<1> QED BY <1>1, <1>2, <1>8, <1>9, Parts, Still

\* New sessions start clean; what the old ones had queued is as good as before.
LEMMA ReopenInv ==
  ASSUME Inv, NEW l \in Link, NEW down, reopen(l, down)
  PROVE  Inv'
<1> DEFINE both == IF down THEN {k \in Link : l[1] \in {k[1], k[2]}} ELSE {l, Back(l)}
           dead(seq) == [i \in DOMAIN seq |-> IF seq[i].link \in both
                           THEN [seq[i] EXCEPT !.req = 0] ELSE seq[i]]
<1>1. /\ ps' = [k \in Link |-> IF k \in both THEN Ready(ps[k].proto) ELSE ps[k]]
      /\ ctl' = [k \in Link |-> IF k \in both THEN ps'[k].reqs ELSE ctl[k]]
      /\ lane' = [k \in Link |-> IF k \in both THEN << >> ELSE lane[k]]
      /\ queue' = [n \in Node |-> IF down /\ n = l[1] THEN << >> ELSE dead(queue[n])]
      /\ settled' = [n \in Node |-> IF down /\ n = l[1] THEN << >> ELSE dead(settled[n])]
      /\ UNCHANGED <<log, floor, pending, sealed, left, evidence>>
  BY DEF reopen, logVars
<1> HIDE DEF both
<1>2. PeersOK(ps')
  <2>1. \A p : PeerOK(Ready(p))
    BY FS_EmptySet DEF Ready, NewPeer, PeerOK, PeerFields, ReqOK
  <2> QED BY <1>1, <2>1, Parts DEF PeersOK
<1>3. CtlOK(World, ctl')  BY <1>1, <1>2, Parts DEF CtlOK, PeersOK, PeerOK, MsgOK
<1>4. LaneOK(World, lane')  BY <1>1, Parts, NilSet DEF LaneOK
<1>5. ASSUME NEW q, IsSeq(q)
      PROVE  /\ IsSeq(dead(q))
             /\ \A e \in ToSet(dead(q)) : \E d \in ToSet(q) : e \in {d, [d EXCEPT !.req = 0]}
  <2>1. PICK S : q \in Seq(S)  BY <1>5 DEF IsSeq
  <2>2. Len(q) \in Nat /\ DOMAIN q = 1..Len(q) /\ DOMAIN dead(q) = 1..Len(q)  BY <2>1
  <2> DEFINE T == {dead(q)[i] : i \in 1..Len(q)}
  <2>3. dead(q) \in [1..Len(q) -> T]  BY <2>2
  <2>4. dead(q) \in Seq(T)  BY <2>2, <2>3
  <2>5. \A i \in DOMAIN q : dead(q)[i] \in {q[i], [q[i] EXCEPT !.req = 0]}  OBVIOUS
  <2> HIDE DEF dead
  <2> QED BY <2>2, <2>4, <2>5 DEF IsSeq, ToSet
<1> HIDE DEF dead
<1>6. QueueOK(World, queue')
  <2>1. ASSUME NEW n \in Node, NEW d, ItemOK(World, n, d)
        PROVE  ItemOK(World, n, [d EXCEPT !.req = 0])
    BY <2>1 DEF ItemOK, DoneOK
  <2>2. ASSUME NEW n \in Node
        PROVE  IsSeq(queue'[n]) /\ \A e \in ToSet(queue'[n]) : ItemOK(World, n, e)
    <3>1. IsSeq(queue[n]) /\ \A e \in ToSet(queue[n]) : ItemOK(World, n, e)
      BY Parts DEF QueueOK
    <3>2. \A e \in ToSet(dead(queue[n])) : ItemOK(World, n, e)  BY <1>5, <2>1, <3>1
    <3>3. queue'[n] = << >> \/ queue'[n] = dead(queue[n])  BY <1>1
    <3> QED BY <1>5, <3>1, <3>2, <3>3, NilSet
  <2> QED BY <1>1, <2>2 DEF QueueOK
<1>7. SettledOK(settled')
  <2>1. ASSUME NEW n \in Node, NEW d, DoneOK(n, d) PROVE DoneOK(n, [d EXCEPT !.req = 0])
    BY <2>1 DEF DoneOK
  <2>2. ASSUME NEW n \in Node
        PROVE  IsSeq(settled'[n]) /\ \A e \in ToSet(settled'[n]) : DoneOK(n, e)
    <3>1. IsSeq(settled[n]) /\ \A e \in ToSet(settled[n]) : DoneOK(n, e)
      BY Parts DEF SettledOK
    <3>2. \A e \in ToSet(dead(settled[n])) : DoneOK(n, e)  BY <1>5, <2>1, <3>1
    <3>3. settled'[n] = << >> \/ settled'[n] = dead(settled[n])  BY <1>1
    <3> QED BY <1>5, <3>1, <3>2, <3>3, NilSet
  <2> QED BY <1>1, <2>2 DEF SettledOK
<1> QED BY <1>1, <1>2, <1>3, <1>4, <1>6, <1>7, Parts, Still
--------------------------------------------------------------------------------
(* Steps of the log *)

\* Stream s of n gets head h, pending P and floor f.
LEMMA LogStep ==
  ASSUME LogInv, NEW n \in Node, NEW s \in Stream,
         NEW h \in Seq(Content), Len(h) <= MaxSeq, log' = [log EXCEPT ![n][s] = h],
         NEW P, \A c \in P : Backed(World, n, s, c), pending' = [pending EXCEPT ![n][s] = P],
         NEW f \in Nat, floor[n][s] <= f, f <= Len(h), floor' = [floor EXCEPT ![n][s] = f],
         left \subseteq left', \A d \in left' \ left : d.chain \in Seq(Content) /\ Len(d.chain) <= MaxSeq,
         IsPrefix(log[n][s], h) \/ [s |-> s, chain |-> log[n][s]] \in left',
         sealed' \in [Node -> SUBSET Stream]
  PROVE  LogInv' /\ Grows(World, World')
<1>1. WorldOK(World) /\ PendingOK(World, pending)  BY DEF LogInv
<1>2. /\ log \in [Node -> [Stream -> Seq(Content)]] /\ floor \in [Node -> [Stream -> Nat]]
      /\ \A d \in left : d.chain \in Seq(Content) /\ Len(d.chain) <= MaxSeq
  BY <1>1 DEF WorldOK, World
<1>3. ASSUME NEW k \in Node, NEW t \in Stream
      PROVE  /\ log'[k][t] = IF k = n /\ t = s THEN h ELSE log[k][t]
             /\ floor'[k][t] = IF k = n /\ t = s THEN f ELSE floor[k][t]
  BY <1>2
<1>4. log' \in [Node -> [Stream -> Seq(Content)]] /\ floor' \in [Node -> [Stream -> Nat]]
  BY <1>2
<1>5. ASSUME NEW k \in Node, NEW t \in Stream
      PROVE  Len(log'[k][t]) <= MaxSeq /\ floor'[k][t] <= Len(log'[k][t])
  <2>1. Len(log[k][t]) <= MaxSeq /\ floor[k][t] <= Len(log[k][t])  BY <1>1 DEF WorldOK, World
  <2> QED BY <1>3, <2>1
<1>6. \A d \in left' : d.chain \in Seq(Content) /\ Len(d.chain) <= MaxSeq  BY <1>2
<1>7. WorldOK(World')  BY <1>4, <1>5, <1>6 DEF WorldOK, World
<1>8. Grows(World, World')
  <2>1. ASSUME NEW k \in Node, NEW t \in Stream
        PROVE  /\ floor[k][t] <= floor'[k][t]
               /\ IsPrefix(log[k][t], log'[k][t]) \/ [s |-> t, chain |-> log[k][t]] \in left'
    <3>1. IsPrefix(log[k][t], log[k][t])  BY <1>2, PrefixSelf
    <3>2. floor[k][t] \in Nat  BY <1>2
    <3> QED BY <1>3, <3>1, <3>2
  <2> QED BY <2>1 DEF Grows, World
<1>9. PendingOK(World, pending')
  <2>1. P \in SUBSET Seq(Content)  BY DEF Backed
  <2> QED BY <1>1, <2>1 DEF PendingOK
<1>10. PendingOK(World', pending')  BY <1>1, <1>7, <1>8, <1>9, PendingGrows
<1> QED BY <1>7, <1>8, <1>10 DEF LogInv

\* A stream that does not move is one that moves to where it is.
LEMMA Unmoved ==
  ASSUME LogInv, NEW n \in Node, NEW s \in Stream
  PROVE  /\ log = [log EXCEPT ![n][s] = log[n][s]] /\ floor = [floor EXCEPT ![n][s] = floor[n][s]]
         /\ pending = [pending EXCEPT ![n][s] = pending[n][s]]
         /\ \A c \in pending[n][s] : Backed(World, n, s, c)
         /\ log[n][s] \in Seq(Content) /\ Len(log[n][s]) <= MaxSeq /\ floor[n][s] \in Nat
         /\ floor[n][s] <= Len(log[n][s]) /\ IsPrefix(log[n][s], log[n][s])
<1>1. WorldOK(World) /\ PendingOK(World, pending)  BY DEF LogInv
<1>2. log \in [Node -> [Stream -> Seq(Content)]] /\ floor \in [Node -> [Stream -> Nat]]
  BY <1>1 DEF WorldOK, World
<1>3. log = [log EXCEPT ![n][s] = log[n][s]] /\ floor = [floor EXCEPT ![n][s] = floor[n][s]]
  BY <1>2
<1>4. log[n][s] \in Seq(Content)  BY <1>2
<1>5. IsPrefix(log[n][s], log[n][s])  BY <1>4, PrefixSelf
<1>6. Len(log[n][s]) <= MaxSeq /\ floor[n][s] <= Len(log[n][s])  BY <1>1 DEF WorldOK, World
<1>7. pending = [pending EXCEPT ![n][s] = pending[n][s]]
  <2>1. pending \in [Node -> [Stream -> SUBSET Seq(Content)]]  BY <1>1 DEF PendingOK
  <2> QED BY <2>1
<1>8. \A c \in pending[n][s] : Backed(World, n, s, c)  BY <1>1 DEF PendingOK
<1> QED BY <1>2, <1>3, <1>4, <1>5, <1>6, <1>7, <1>8

\* handleApplied marks streams dirty.
LEMMA AppliedOK ==
  ASSUME PeersOK(ps), NEW n, NEW s \in Stream, NEW via, handleApplied(n, s, via)
  PROVE  PeersOK(ps')
<1>1. \A l \in Link : PeerOK(ps[l]) /\ PeerOK(markDirty(ps[l], s))  BY DirtyOK DEF PeersOK
<1> QED BY <1>1 DEF PeersOK, handleApplied

\* An append extends the author's own log.
LEMMA AppendInv ==
  ASSUME Inv, NEW n \in Node, NEW s \in Stream, append(n, s, "x")
  PROVE  Inv'
<1> DEFINE h == Append(log[n][s], "x")
<1>1. /\ log' = [log EXCEPT ![n][s] = h] /\ handleApplied(n, s, n) /\ Len(log[n][s]) < MaxSeq
      /\ UNCHANGED <<floor, pending, sealed, left, queue, settled, ctl, lane, evidence>>
  BY DEF append, netVars, Contig
<1>2. LogInv /\ sealed \in [Node -> SUBSET Stream]  BY Parts DEF LogInv
<1>3. /\ floor = [floor EXCEPT ![n][s] = floor[n][s]] /\ floor[n][s] \in Nat
      /\ pending = [pending EXCEPT ![n][s] = pending[n][s]]
      /\ \A c \in pending[n][s] : Backed(World, n, s, c)
      /\ log[n][s] \in Seq(Content) /\ floor[n][s] <= Len(log[n][s])
  BY <1>2, Unmoved
<1>4. "x" \in Content /\ MaxSeq \in Nat  BY Sizes DEF Content
<1>5. h \in Seq(Content) /\ Len(h) = Len(log[n][s]) + 1 /\ Len(log[n][s]) \in Nat
      /\ \A i \in 1..Len(log[n][s]) : log[n][s][i] = h[i]
  BY <1>3, <1>4
<1> HIDE DEF h
<1>6. IsPrefix(log[n][s], h)  BY <1>3, <1>5, PrefixIs
<1>7. Len(h) <= MaxSeq /\ floor[n][s] <= Len(h)  BY <1>1, <1>3, <1>4, <1>5
<1>8. LogInv' /\ Grows(World, World')
  <2>1. /\ floor' = [floor EXCEPT ![n][s] = floor[n][s]] /\ floor[n][s] <= floor[n][s]
        /\ pending' = [pending EXCEPT ![n][s] = pending[n][s]]
        /\ left' = left /\ sealed' \in [Node -> SUBSET Stream]
    BY <1>1, <1>2, <1>3
  <2>2. left \subseteq left' /\ left' \ left = {}  BY <2>1
  <2> QED BY <1>1, <1>2, <1>3, <1>5, <1>6, <1>7, <2>1, <2>2, LogStep
<1>9. PeersOK(ps')  BY <1>1, Parts, AppliedOK
<1> QED BY <1>1, <1>8, <1>9, Parts, Carry

\* A prune raises a floor that stays below the head.
LEMMA PruneInv ==
  ASSUME Inv, NEW n \in Node, NEW s \in Stream, prune(n, s)
  PROVE  Inv'
<1> DEFINE f == floor[n][s] + 1
<1>1. /\ floor' = [floor EXCEPT ![n][s] = f] /\ f < Len(log[n][s])
      /\ UNCHANGED <<log, pending, sealed, left, queue, settled, ps, ctl, lane, evidence>>
  BY DEF prune, netVars, Contig
<1>2. LogInv /\ sealed \in [Node -> SUBSET Stream]  BY Parts DEF LogInv
<1>3. /\ log = [log EXCEPT ![n][s] = log[n][s]] /\ floor[n][s] \in Nat
      /\ pending = [pending EXCEPT ![n][s] = pending[n][s]]
      /\ \A c \in pending[n][s] : Backed(World, n, s, c)
      /\ log[n][s] \in Seq(Content) /\ Len(log[n][s]) <= MaxSeq
      /\ IsPrefix(log[n][s], log[n][s])
  BY <1>2, Unmoved
<1>4. f \in Nat /\ floor[n][s] <= f /\ f <= Len(log[n][s])  BY <1>1, <1>3
<1> HIDE DEF f
<1>5. LogInv' /\ Grows(World, World')
  <2>1. /\ log' = [log EXCEPT ![n][s] = log[n][s]]
        /\ pending' = [pending EXCEPT ![n][s] = pending[n][s]]
        /\ left' = left /\ sealed' \in [Node -> SUBSET Stream]
    BY <1>1, <1>2, <1>3
  <2>2. left \subseteq left' /\ left' \ left = {}  BY <2>1
  <2> QED BY <1>1, <1>2, <1>3, <1>4, <2>1, <2>2, LogStep
<1> QED BY <1>1, <1>5, Parts, Carry

\* A seal moves no log.
LEMMA FlushSealInv ==
  ASSUME Inv, NEW n \in Node, FlushSeal(n)
  PROVE  Inv'
<1> DEFINE q == Head(queue[n])
<1>1. /\ queue[n] # << >> /\ queue' = [queue EXCEPT ![n] = Tail(@)]
      /\ sealed' = [sealed EXCEPT ![n] = @ \cup {q.s}]
      /\ UNCHANGED <<log, floor, pending, left, settled, ps, ctl, lane, evidence>>
  BY DEF FlushSeal, netVars
<1>2. QueueOK(World, queue') /\ q.s \in Stream  BY <1>1, Parts, QueuePop DEF ItemOK, DoneOK
<1> HIDE DEF q
<1>3. WorldOK(World) /\ PendingOK(World, pending) /\ sealed \in [Node -> SUBSET Stream]
  BY Parts DEF LogInv
<1>4. World' = World  BY <1>1 DEF World
<1>5. LogInv'
  <2>1. sealed' \in [Node -> SUBSET Stream]  BY <1>1, <1>2, <1>3
  <2> QED BY <1>1, <1>3, <1>4, <2>1 DEF LogInv
<1>6. Grows(World, World')
  <2>1. \A k \in Node, t \in Stream : log[k][t] \in Seq(Content) /\ floor[k][t] \in Nat
    BY <1>3, LogBounds
  <2>2. \A k \in Node, t \in Stream : IsPrefix(log[k][t], log[k][t]) /\ floor[k][t] <= floor[k][t]
    BY <2>1, PrefixSelf
  <2>3. Grows(World, World)  BY <2>2 DEF Grows, World
  <2> QED BY <1>4, <2>3
<1> QED BY <1>1, <1>2, <1>5, <1>6, Parts, Carry

\* SetStream keeps the type of sealed.
LEMMA SetStreamOK ==
  ASSUME NEW n \in Node, NEW s \in Stream, NEW v, SetStream(n, s, v),
         sealed \in [Node -> SUBSET Stream]
  PROVE  /\ log' = [log EXCEPT ![n][s] = v.head] /\ pending' = [pending EXCEPT ![n][s] = v.pending]
         /\ sealed' \in [Node -> SUBSET Stream]
BY DEF SetStream

\* A flushed frame extends the log by backed entries.
LEMMA FlushEntriesInv ==
  ASSUME Inv, NEW n \in Node, FlushEntries(n)
  PROVE  Inv'
<1> DEFINE q == Head(queue[n])
           s == q.s
           v == applyAll(n, s, q.entries)
<1>1. /\ queue[n] # << >> /\ q.t = "entries" /\ queue' = [queue EXCEPT ![n] = Tail(@)]
      /\ settled' = [settled EXCEPT ![n] = Append(@, q)] /\ SetStream(n, s, v)
      /\ UNCHANGED ps \/ handleApplied(n, s, q.link[2])
      /\ UNCHANGED <<floor, left, ctl, lane, evidence>>
  BY DEF FlushEntries, netVars
<1>2. QueueOK(World, queue') /\ ItemOK(World, n, q)  BY <1>1, Parts, QueuePop
<1>3. s \in Stream /\ DoneOK(n, q) /\ AllBacked(World, n, s, q.entries)
  BY <1>1, <1>2 DEF ItemOK, DoneOK
<1>4. SettledOK(settled')  BY <1>1, <1>3, Parts, SettledAdd
<1>5. ViewOK(n, s, v)  BY <1>3, Parts, applyAllOK
<1> HIDE DEF q, s, v
<1>6. LogInv /\ WorldOK(World) /\ sealed \in [Node -> SUBSET Stream]  BY Parts DEF LogInv
<1>7. /\ floor = [floor EXCEPT ![n][s] = floor[n][s]] /\ floor[n][s] \in Nat
      /\ log[n][s] \in Seq(Content) /\ floor[n][s] <= Len(log[n][s]) /\ Len(log[n][s]) <= MaxSeq
  BY <1>3, <1>6, Unmoved
<1>8. /\ v.head \in Seq(Content) /\ IsPrefix(log[n][s], v.head) /\ Len(v.head) <= MaxSeq
      /\ \A c \in v.pending : Backed(World, n, s, c)
  <2>1. v.head # log[n][s] => Len(v.head) <= MaxSeq  BY <1>3, <1>5, <1>6, BackedLen DEF ViewOK
  <2> QED BY <1>5, <1>7, <2>1 DEF ViewOK
<1>9. floor[n][s] <= Len(v.head)
  <2>1. Len(log[n][s]) <= Len(v.head)  BY <1>7, <1>8, PrefixIs
  <2>2. Len(log[n][s]) \in Nat /\ Len(v.head) \in Nat  BY <1>7, <1>8
  <2> QED BY <1>7, <2>1, <2>2
<1>10. LogInv' /\ Grows(World, World')
  <2>1. /\ log' = [log EXCEPT ![n][s] = v.head]
        /\ pending' = [pending EXCEPT ![n][s] = v.pending]
        /\ sealed' \in [Node -> SUBSET Stream]
    BY <1>1, <1>3, <1>6, SetStreamOK
  <2>2. floor' = [floor EXCEPT ![n][s] = floor[n][s]] /\ left' = left  BY <1>1, <1>7
  <2>3. left \subseteq left' /\ left' \ left = {} /\ floor[n][s] <= floor[n][s]  BY <1>7, <2>2
  <2> QED BY <1>3, <1>6, <1>7, <1>8, <1>9, <2>1, <2>2, <2>3, LogStep
<1>11. PeersOK(ps')  BY <1>1, <1>3, Parts, AppliedOK
<1> QED BY <1>1, <1>2, <1>4, <1>6, <1>10, <1>11, Parts, Carry

\* An adopted floor moves the log to a backed chain, or leaves the old one behind.
LEMMA FlushFloorInv ==
  ASSUME Inv, NEW n \in Node, FlushFloor(n)
  PROVE  Inv'
<1> DEFINE q == Head(queue[n])
           s == q.s
           at == Len(q.chain)
           P == {c \in pending[n][s] : Len(c) > at}
           v == drain(q.chain, P)
           d == [s |-> s, chain |-> log[n][s]]
           z == [q EXCEPT !.refused = ~(s \notin sealed[n]) /\ Contig(n, s) < at]
<1>1. /\ queue[n] # << >> /\ q.t = "floor" /\ queue' = [queue EXCEPT ![n] = Tail(@)]
      /\ settled' = [settled EXCEPT ![n] = Append(@, z)]
      /\ UNCHANGED <<ps, ctl, lane, evidence>>
  BY DEF FlushFloor, netVars
<1>2. \/ UNCHANGED <<log, pending, sealed, floor, left>>
      \/ /\ Contig(n, s) < at /\ SetStream(n, s, v) /\ floor' = [floor EXCEPT ![n][s] = at]
         /\ left' = IF IsPrefix(log[n][s], q.chain) THEN left ELSE left \cup {d}
  BY DEF FlushFloor
<1>3. QueueOK(World, queue') /\ ItemOK(World, n, q)  BY <1>1, Parts, QueuePop
<1>4. s \in Stream /\ DoneOK(n, q) /\ FloorBacked(World, n, s, q.chain)
  BY <1>1, <1>3 DEF ItemOK, DoneOK
<1>5. DoneOK(n, z)  BY <1>4 DEF DoneOK
<1> HIDE DEF z
<1>6. SettledOK(settled')  BY <1>1, <1>5, Parts, SettledAdd
<1>7. LogInv /\ WorldOK(World) /\ sealed \in [Node -> SUBSET Stream]  BY Parts DEF LogInv
<1>8. CASE UNCHANGED <<log, pending, sealed, floor, left>>
  BY <1>1, <1>3, <1>6, <1>8, Parts, Still
<1>9. CASE /\ Contig(n, s) < at /\ SetStream(n, s, v) /\ floor' = [floor EXCEPT ![n][s] = at]
           /\ left' = IF IsPrefix(log[n][s], q.chain) THEN left ELSE left \cup {d}
  <2> HIDE DEF q, s
  <2>1. /\ floor[n][s] \in Nat /\ log[n][s] \in Seq(Content) /\ floor[n][s] <= Len(log[n][s])
        /\ Len(log[n][s]) <= MaxSeq /\ \A c \in P : Backed(World, n, s, c)
    BY <1>4, <1>7, Unmoved
  <2>2. Backed(World, n, s, q.chain) /\ q.chain \in Seq(Content) /\ at \in Nat
    BY <1>4, <1>7, BackedLen DEF FloorBacked
  <2>3. /\ Backed(World, n, s, v.head) /\ IsPrefix(q.chain, v.head) /\ v.pending \subseteq P
    BY <1>4, <1>7, <2>1, <2>2, DrainOK
  <2> HIDE DEF v, P
  <2>4. v.head \in Seq(Content) /\ Len(v.head) <= MaxSeq /\ Len(v.head) \in Nat
    BY <1>4, <1>7, <2>3, BackedLen
  <2>5. at <= Len(v.head)  BY <2>2, <2>3, <2>4, PrefixIs
  <2>6. floor[n][s] <= at
    <3>1. Len(log[n][s]) \in Nat /\ Len(log[n][s]) < at  BY <1>9, <2>1 DEF Contig
    <3> HIDE DEF at
    <3> QED BY <2>1, <2>2, <3>1
  <2>7. IsPrefix(log[n][s], v.head) \/ d \in left'
    <3>1. CASE IsPrefix(log[n][s], q.chain)
      <4>1. IsPrefix(log[n][s], v.head)  BY <2>1, <2>2, <2>3, <2>4, <3>1, PrefixTrans
      <4> QED BY <4>1
    <3>2. CASE ~IsPrefix(log[n][s], q.chain)  BY <1>9, <3>2
    <3> QED BY <3>1, <3>2
  <2>8. left \subseteq left' /\ \A e \in left' \ left : e.chain \in Seq(Content) /\ Len(e.chain) <= MaxSeq
    <3>1. left' = left \/ left' = left \cup {d}  BY <1>9
    <3>2. d.chain = log[n][s]  OBVIOUS
    <3> QED BY <2>1, <3>1, <3>2
  <2>9. LogInv' /\ Grows(World, World')
    <3>1. /\ log' = [log EXCEPT ![n][s] = v.head]
          /\ pending' = [pending EXCEPT ![n][s] = v.pending]
          /\ sealed' \in [Node -> SUBSET Stream]
      BY <1>4, <1>7, <1>9, SetStreamOK
    <3>2. floor' = [floor EXCEPT ![n][s] = at]  BY <1>9
    <3>3. \A c \in v.pending : Backed(World, n, s, c)  BY <2>1, <2>3
    <3> HIDE DEF at
    <3> QED BY <1>4, <1>7, <2>2, <2>4, <2>5, <2>6, <2>7, <2>8, <3>1, <3>2, <3>3, LogStep
  <2> QED BY <1>1, <1>3, <1>6, <1>7, <2>9, Parts, Carry
<1> QED BY <1>2, <1>8, <1>9
--------------------------------------------------------------------------------
(* The theorems *)

\* The first conjunct of the induction,
LEMMA InitInv == Init => Inv
<1> SUFFICES ASSUME Init PROVE Inv  OBVIOUS
<1>1. PICK c \in Starts : /\ log = c.log /\ floor = c.floor
                          /\ ps = [l \in Link |-> Ready(c.proto)]
  BY DEF Init
<1>2. /\ pending = [n \in Node |-> [s \in Stream |-> {}]] /\ sealed = [n \in Node |-> {}]
      /\ queue = [n \in Node |-> << >>] /\ settled = [n \in Node |-> << >>]
      /\ ctl = [l \in Link |-> ps[l].reqs] /\ lane = [l \in Link |-> << >>]
      /\ evidence = {} /\ left = {}
  BY DEF Init
<1>3. \A h \in Chains : h \in Seq(Content) /\ Len(h) <= MaxSeq
  <2>1. MaxSeq \in Nat  BY Sizes
  <2>2. ASSUME NEW h \in Chains PROVE h \in Seq(Content) /\ Len(h) <= MaxSeq
    <3>1. PICK k \in 0..MaxSeq : h \in [1..k -> Content]  BY DEF Chains
    <3>2. k \in Nat /\ k <= MaxSeq  BY <2>1, <3>1
    <3>3. h \in Seq(Content) /\ Len(h) = k  BY <3>1, <3>2
    <3> QED BY <3>2, <3>3
  <2> QED BY <2>2
<1>4. WorldOK(World)
  <2>1. /\ log \in [Node -> [Stream -> Chains]] /\ floor \in [Node -> [Stream -> 0..MaxSeq]]
        /\ \A n \in Node, s \in Stream : floor[n][s] <= Len(log[n][s])
    BY <1>1, StartStates
  <2>2. log \in [Node -> [Stream -> Seq(Content)]] /\ floor \in [Node -> [Stream -> Nat]]
    BY <1>3, <2>1
  <2>3. \A n \in Node, s \in Stream : Len(log[n][s]) <= MaxSeq  BY <1>3, <2>1
  <2>4. World.log = log /\ World.floor = floor /\ World.left = {}  BY <1>2 DEF World
  <2> HIDE DEF World
  <2> QED BY <2>1, <2>2, <2>3, <2>4 DEF WorldOK
<1>5. PendingOK(World, pending)  BY <1>2 DEF PendingOK
<1>6. sealed \in [Node -> SUBSET Stream]  BY <1>2
<1>7. PeersOK(ps)
  <2>1. \A p : PeerOK(Ready(p))
    BY FS_EmptySet DEF Ready, NewPeer, PeerOK, PeerFields, ReqOK
  <2> QED BY <1>1, <2>1 DEF PeersOK
<1>8. CtlOK(World, ctl)  BY <1>2, <1>7 DEF CtlOK, PeersOK, PeerOK, MsgOK
<1>9. LaneOK(World, lane)  BY <1>2, NilSet DEF LaneOK
<1>10. QueueOK(World, queue) /\ SettledOK(settled)  BY <1>2, NilSet DEF QueueOK, SettledOK
<1>11. EvidenceOK(World, evidence)  BY <1>2 DEF EvidenceOK
<1> QED BY <1>4, <1>5, <1>6, <1>7, <1>8, <1>9, <1>10, <1>11 DEF Inv, LogInv

\* and the second: one lemma per action.
LEMMA NextInv == Inv /\ [Next]_vars => Inv'
<1> SUFFICES ASSUME Inv, [Next]_vars PROVE Inv'  OBVIOUS
<1>1. CASE UNCHANGED vars
  <2>1. UNCHANGED <<log, floor, pending, sealed, left, queue, settled, ps, ctl, lane, evidence>>
    BY <1>1 DEF vars, logVars, netVars
  <2> QED BY <2>1, Parts, Still
<1>2. CASE \E n \in Node, s \in Stream : append(n, s, "x")  BY <1>2, AppendInv
<1>3. CASE \E n \in Node, s \in Stream : prune(n, s)  BY <1>3, PruneInv
<1>4. CASE \E l \in Link : antiEntropy(l) \/ tick(l)  BY <1>4, RoundInv
<1>5. CASE \E l \in Link : retry(l) \/ (\E r \in ps[l].reqs : race(l, r))
                           \/ (\E m \in ctl[l] : lose(l, m))
  BY <1>5, ResendInv
<1>6. CASE \E l \in Link : \E m \in ctl[Back(l)] :
             serveHave(l, m) \/ HavePage(l, m) \/ Finality(l, m)
  BY <1>6, ServeHaveInv, HavePageInv, FinalityInv
<1>7. CASE \E l \in Link : \E m \in ctl[Back(l)] :
             Want(l, m) \/ Truncated(l, m) \/ serveProbe(l, m) \/ ProbeRes(l, m)
  BY <1>7, WantInv, TruncatedInv, ServeProbeInv, ProbeResInv
<1>8. CASE \E l \in Link : onEntries(l) \/ pumpDirty(l)  BY <1>8, OnEntriesInv, PumpDirtyInv
<1>9. CASE \E n \in Node : FlushEntries(n) \/ FlushSeal(n) \/ FlushFloor(n)
  BY <1>9, FlushEntriesInv, FlushSealInv, FlushFloorInv
<1>10. CASE \E n \in Node : CompleteEntries(n) \/ CompleteFloor(n)
  BY <1>10, CompleteEntriesInv, CompleteFloorInv
<1>11. CASE \E l \in Link, down \in BOOLEAN : reopen(l, down)  BY <1>11, ReopenInv
<1> QED BY <1>1, <1>2, <1>3, <1>4, <1>5, <1>6, <1>7, <1>8, <1>9, <1>10, <1>11 DEF Next

\* sync.ts, log.ts 1335-1380: a chain in flight (in a frame or an offered floor), queued
\* for a flush or parked as pending at a replica is a prefix of what another replica holds
\* of the stream or of what one has left behind; fork evidence is true until a floor covers
\* rows up.
THEOREM SyncInvariant == Spec => []Inv
<1> QED BY InitInv, NextInv, PTL DEF Spec

--------------------------------------------------------------------------------
(* Every step is one of Replicas *)

\* Replicas has the prefix relation of SequencesExt, too.
LEMMA SamePrefix == \A a, b : R!IsPrefix(a, b) <=> IsPrefix(a, b)
BY DEF R!IsPrefix, IsPrefix

\* A backed chain is to be had by Replicas' Source.
LEMMA Sourced ==
  ASSUME NEW n \in Node, NEW s \in Stream, NEW c, Backed(World, n, s, c)
  PROVE  \E h \in R!Source(n, s) : R!IsPrefix(c, h)
<1>1. PICK h \in SourceOf(World, n, s) : IsPrefix(c, h)  BY DEF Backed
<1>2. SourceOf(World, n, s) = R!Source(n, s)  BY DEF SourceOf, R!Source, World
<1> QED BY <1>1, <1>2, SamePrefix

\* SetStream seals the stream or leaves `sealed` as it is.
LEMMA SealedBySet ==
  ASSUME LogInv, NEW n \in Node, NEW s, NEW v, SetStream(n, s, v)
  PROVE  UNCHANGED sealed \/ sealed' = [sealed EXCEPT ![n] = @ \cup {s}]
<1>1. sealed \in [Node -> SUBSET Stream]  BY DEF LogInv
<1>2. sealed' = [sealed EXCEPT ![n] = IF v.seal THEN sealed[n] \cup {s} ELSE sealed[n]]
  BY DEF SetStream
<1>3. [sealed EXCEPT ![n] = sealed[n]] = sealed  BY <1>1
<1> QED BY <1>2, <1>3

\* An append is a Write.
LEMMA AppendRefines ==
  ASSUME Inv, NEW n \in Node, NEW s \in Stream, append(n, s, "x")
  PROVE  R!Write(n, s)
<1> DEFINE a == log[n][s]
           h == Append(a, "x")
<1>1. /\ log' = [log EXCEPT ![n][s] = h] /\ UNCHANGED <<sealed, left>>
      /\ Author[s] = n /\ s \notin sealed[n]
  BY DEF append
<1>2. log \in [Node -> [Stream -> Seq(Content)]] /\ a \in Seq(Content) /\ "x" \in Content
  BY Parts DEF WorldOK, World, Content
<1>3. /\ h \in Seq(Content) /\ Len(h) = Len(a) + 1 /\ Len(a) \in Nat
      /\ \A i \in 1..Len(a) : a[i] = h[i]
  BY <1>2
<1>4. log'[n][s] = h  BY <1>1, <1>2
<1> HIDE DEF h, a
<1>5. Len(a) < Len(h) /\ Len(a) <= Len(h)  BY <1>3
<1>6. IsPrefix(a, h)  BY <1>2, <1>3, <1>5, PrefixIs
<1> QED BY <1>1, <1>4, <1>5, <1>6, SamePrefix DEF R!Write, R!Extends, R!Moves, a

\* A flushed frame is a Learn, a Seal or nothing.
LEMMA FlushEntriesRefines ==
  ASSUME Inv, NEW n \in Node, FlushEntries(n)
  PROVE  \/ UNCHANGED <<log, sealed, left>>
         \/ \E s \in Stream : R!Learn(n, s) \/ R!Seal(n, s)
<1> DEFINE q == Head(queue[n])
           s == q.s
           v == applyAll(n, s, q.entries)
           a == log[n][s]
<1>1. queue[n] # << >> /\ q.t = "entries" /\ SetStream(n, s, v) /\ UNCHANGED left
  BY DEF FlushEntries
<1>2. ItemOK(World, n, q)  BY <1>1, Parts, QueuePop
<1>3. s \in Stream /\ AllBacked(World, n, s, q.entries)  BY <1>1, <1>2 DEF ItemOK, DoneOK
<1>4. ViewOK(n, s, v)  BY <1>3, Parts, applyAllOK
<1>5. log' = [log EXCEPT ![n][s] = v.head]  BY <1>1 DEF SetStream
<1> HIDE DEF q, s, v
<1>6. UNCHANGED sealed \/ sealed' = [sealed EXCEPT ![n] = @ \cup {s}]
  BY <1>1, Parts, SealedBySet
<1>7. log \in [Node -> [Stream -> Seq(Content)]] /\ a \in Seq(Content)
  BY <1>3, Parts DEF WorldOK, World
<1>8. CASE v.head = a
  <2>1. log' = log  BY <1>3, <1>5, <1>7, <1>8
  <2> QED BY <1>1, <1>3, <1>6, <2>1 DEF R!Seal
<1>9. CASE v.head # a
  <2>1. /\ s \notin sealed[n] /\ Backed(World, n, s, v.head) /\ v.head \in Seq(Content)
        /\ IsPrefix(a, v.head)
    BY <1>4, <1>9 DEF ViewOK
  <2>2. log'[n][s] = v.head  BY <1>3, <1>5, <1>7
  <2>3. Len(a) < Len(v.head)
    <3> DEFINE b == v.head
    <3>1. /\ Len(a) <= Len(b) /\ (\A i \in 1..Len(a) : a[i] = b[i])
          /\ a \in Seq(Content) /\ b \in Seq(Content)
      BY <1>7, <2>1, PrefixIs
    <3>2. a # b  BY <1>9
    <3> HIDE DEF a, b
    <3>3. Len(a) # Len(b)  BY <3>1, <3>2, SeqEqual
    <3>4. Len(a) \in Nat /\ Len(b) \in Nat  BY <3>1
    <3> QED BY <3>1, <3>3, <3>4 DEF b
  <2>4. \E h \in R!Source(n, s) : R!IsPrefix(v.head, h)  BY <1>3, <2>1, Sourced
  <2>5. R!Extends(n, s)  BY <1>1, <2>1, <2>2, SamePrefix DEF R!Extends
  <2>6. R!Moves(n, s, log'[n][s])  BY <1>5, <2>1, <2>2, <2>3 DEF R!Moves
  <2>7. R!Learn(n, s)  BY <1>6, <2>2, <2>4, <2>5, <2>6 DEF R!Learn
  <2> QED BY <1>3, <2>7
<1> QED BY <1>8, <1>9

\* An adopted floor is a Learn: an extension, or a jump over rows pruned elsewhere.
LEMMA FlushFloorRefines ==
  ASSUME Inv, NEW n \in Node, FlushFloor(n)
  PROVE  UNCHANGED <<log, sealed, left>> \/ \E s \in Stream : R!Learn(n, s)
<1> DEFINE q == Head(queue[n])
           s == q.s
           at == Len(q.chain)
           P == {c \in pending[n][s] : Len(c) > at}
           v == drain(q.chain, P)
           a == log[n][s]
           d == [s |-> s, chain |-> a]
<1>1. queue[n] # << >> /\ q.t = "floor"  BY DEF FlushFloor
<1>2. \/ UNCHANGED <<log, sealed, left>>
      \/ /\ s \notin sealed[n] /\ Len(a) < at /\ SetStream(n, s, v)
         /\ left' = IF IsPrefix(a, q.chain) THEN left ELSE left \cup {d}
  BY DEF FlushFloor, Contig
<1>3. ItemOK(World, n, q)  BY <1>1, Parts, QueuePop
<1>4. s \in Stream /\ FloorBacked(World, n, s, q.chain)  BY <1>1, <1>3 DEF ItemOK, DoneOK
<1>5. SUFFICES ASSUME s \notin sealed[n], Len(a) < at, SetStream(n, s, v),
                      left' = IF IsPrefix(a, q.chain) THEN left ELSE left \cup {d}
               PROVE  R!Learn(n, s)
  BY <1>2, <1>4
<1>6. log' = [log EXCEPT ![n][s] = v.head]  BY <1>5 DEF SetStream
<1> HIDE DEF q, s
<1>7. /\ log \in [Node -> [Stream -> Seq(Content)]] /\ a \in Seq(Content) /\ LogInv
      /\ WorldOK(World)
  BY <1>4, Parts DEF WorldOK, World
<1>8. \A c \in P : Backed(World, n, s, c)  BY <1>4, <1>7, Unmoved
<1>9. Backed(World, n, s, q.chain) /\ q.chain \in Seq(Content) /\ at \in Nat
  BY <1>4, <1>7, BackedLen DEF FloorBacked
<1>10. Backed(World, n, s, v.head) /\ IsPrefix(q.chain, v.head)
  BY <1>4, <1>7, <1>8, <1>9, DrainOK
<1> HIDE DEF v
<1>11. v.head \in Seq(Content) /\ Len(v.head) \in Nat  BY <1>4, <1>7, <1>10, BackedLen
<1>12. at <= Len(v.head)  BY <1>9, <1>10, <1>11, PrefixIs
<1>13. log'[n][s] = v.head  BY <1>4, <1>6, <1>7
<1>14. R!Moves(n, s, log'[n][s])
  <2>1. Len(a) < Len(v.head)
    <3>1. Len(a) \in Nat  BY <1>7
    <3> HIDE DEF a, at
    <3> QED BY <1>5, <1>9, <1>11, <1>12, <3>1
  <2> QED BY <1>5, <1>6, <1>13, <2>1 DEF R!Moves
<1>15. R!Extends(n, s) \/ R!Jumps(n, s)
  <2>1. CASE IsPrefix(a, q.chain)
    <3>1. IsPrefix(a, v.head)  BY <1>7, <1>9, <1>10, <1>11, <2>1, PrefixTrans
    <3> QED BY <1>5, <1>13, <2>1, <3>1, SamePrefix DEF R!Extends
  <2>2. CASE ~IsPrefix(a, q.chain)
    <3>1. PICK m \in Node \ {n} : at <= floor[m][s]  BY <1>4 DEF FloorBacked, World
    <3>2. floor[m][s] \in Nat /\ Len(a) \in Nat  BY <1>4, <1>7, LogBounds
    <3>3. Len(a) < floor[m][s]
      <4> HIDE DEF a, at
      <4> QED BY <1>5, <1>9, <3>1, <3>2
    <3> QED BY <1>5, <2>2, <3>3 DEF R!Jumps
  <2> QED BY <2>1, <2>2
<1>16. \E h \in R!Source(n, s) : R!IsPrefix(log'[n][s], h)  BY <1>4, <1>10, <1>13, Sourced
<1>17. UNCHANGED sealed \/ sealed' = [sealed EXCEPT ![n] = @ \cup {s}]
  BY <1>5, <1>7, SealedBySet
<1> QED BY <1>14, <1>15, <1>16, <1>17 DEF R!Learn

\* All other steps leave log, sealed and left alone.
LEMMA StepRefines == Inv /\ [Next]_vars => [R!ReplicasNext]_<<log, sealed, left>>
<1> SUFFICES ASSUME Inv, [Next]_vars
             PROVE  R!ReplicasNext \/ UNCHANGED <<log, sealed, left>>
  OBVIOUS
<1>1. CASE \E n \in Node, s \in Stream : append(n, s, "x")
  BY <1>1, AppendRefines DEF R!ReplicasNext
<1>2. CASE \E n \in Node : FlushEntries(n)
  BY <1>2, FlushEntriesRefines DEF R!ReplicasNext
<1>3. CASE \E n \in Node : FlushFloor(n)
  BY <1>3, FlushFloorRefines DEF R!ReplicasNext
<1>4. CASE \E n \in Node : FlushSeal(n)
  <2>1. PICK n \in Node : FlushSeal(n)  BY <1>4
  <2> DEFINE s == Head(queue[n]).s
  <2>2. /\ queue[n] # << >> /\ sealed' = [sealed EXCEPT ![n] = @ \cup {s}]
        /\ UNCHANGED <<log, left>>
    BY <2>1 DEF FlushSeal
  <2>3. s \in Stream  BY <2>2, Parts, QueuePop, Zenon DEF ItemOK, DoneOK
  <2>4. R!Seal(n, s)  BY <2>2 DEF R!Seal
  <2> QED BY <2>3, <2>4 DEF R!ReplicasNext
<1>5. CASE \/ \E n \in Node, s \in Stream : prune(n, s)
           \/ \E n \in Node : CompleteEntries(n) \/ CompleteFloor(n)
           \/ UNCHANGED vars
  BY <1>5, ZenonT(60) DEF prune, CompleteEntries, CompleteFloor, vars, logVars
<1>6. CASE \E l \in Link : \/ antiEntropy(l) \/ tick(l) \/ retry(l) \/ onEntries(l) \/ pumpDirty(l)
                           \/ (\E r \in ps[l].reqs : race(l, r)) \/ (\E m \in ctl[l] : lose(l, m))
                           \/ \E down \in BOOLEAN : reopen(l, down)
  <2>1. ASSUME NEW l \in Link, antiEntropy(l) \/ tick(l) \/ retry(l) PROVE UNCHANGED logVars
    BY <2>1 DEF antiEntropy, tick, retry
  <2>2. ASSUME NEW l \in Link, onEntries(l) \/ pumpDirty(l) PROVE UNCHANGED logVars
    BY <2>2 DEF onEntries, pumpDirty
  <2>3. ASSUME NEW l \in Link, NEW r, race(l, r) \/ lose(l, r) \/ reopen(l, r)
        PROVE  UNCHANGED logVars
    BY <2>3 DEF race, lose, reopen
  <2>4. UNCHANGED logVars  BY <1>6, <2>1, <2>2, <2>3
  <2> QED BY <2>4 DEF logVars
<1>7. CASE \E l \in Link : \E m \in ctl[Back(l)] :
             \/ serveHave(l, m) \/ HavePage(l, m) \/ Finality(l, m) \/ Want(l, m)
             \/ Truncated(l, m) \/ serveProbe(l, m) \/ ProbeRes(l, m)
  <2>1. ASSUME NEW l, NEW m, serveHave(l, m) \/ HavePage(l, m) \/ Finality(l, m)
        PROVE  UNCHANGED <<log, sealed, left>>
    BY <2>1 DEF serveHave, HavePage, Finality, logVars
  <2>2. ASSUME NEW l, NEW m, Want(l, m) \/ Truncated(l, m)
        PROVE  UNCHANGED <<log, sealed, left>>
    BY <2>2 DEF Want, Truncated, logVars
  <2>3. ASSUME NEW l, NEW m, serveProbe(l, m) \/ ProbeRes(l, m)
        PROVE  UNCHANGED <<log, sealed, left>>
    BY <2>3 DEF serveProbe, ProbeRes, logVars
  <2>4. UNCHANGED <<log, sealed, left>>  BY <1>7, <2>1, <2>2, <2>3
  <2> QED BY <2>4
<1> QED BY <1>1, <1>2, <1>3, <1>4, <1>5, <1>6, <1>7 DEF Next

\* sync.ts, log.ts 1335-1380: the logs under synchronisation do only what Replicas
\* allows.  A replica moves on to a prefix of what another one holds, or held until it
\* adopted a floor; it goes back on nothing but rows it lacked and another had pruned; a
\* sealed stream stands still.
THEOREM SyncRefinesReplicas == Spec => RefinesReplicas
<1>1. Init => R!ReplicasInit  BY DEF Init, R!ReplicasInit
<1>2. Inv /\ [Next]_vars => [R!ReplicasNext]_<<log, sealed, left>>  BY StepRefines
<1> QED BY <1>1, <1>2, SyncInvariant, PTL DEF Spec, RefinesReplicas, R!ReplicasSpec

\* locateFork's evidence, unless some replica has adopted a floor over rows that
\* contradict it: the two replicas agree up to lastCommon, and keep agreeing, although
\* the points were read at one and compared at the other while both moved on.
EvidenceStands == left = {} => EvidenceSound

\* The invariant implies what is claimed of the evidence.
LEMMA EvidenceFromInv == Inv => EvidenceStands
<1> SUFFICES ASSUME Inv, left = {}, NEW v \in evidence
             PROVE  Chain(v.link[1], v.s, v.lastCommon) = Chain(v.link[2], v.s, v.lastCommon)
  BY DEF EvidenceStands, EvidenceSound
<1>1. Agree(World, v)  BY Parts DEF EvidenceOK, World
<1> DEFINE a == log[v.link[1]][v.s]
           b == log[v.link[2]][v.s]
           k == v.lastCommon
<1>2. /\ k \in Nat /\ k <= Len(a) /\ k <= Len(b) /\ \A i \in 1..k : a[i] = b[i]
      /\ v.link \in Link /\ v.s \in Stream
  BY <1>1 DEF Agree, World
<1>3. a \in Seq(Content) /\ b \in Seq(Content)  BY <1>2, Parts, LinkEnds, LogBounds
<1> HIDE DEF a, b, k
<1>4. SubSeq(a, 1, k) = [i \in 1..k |-> a[i]] /\ SubSeq(b, 1, k) = [i \in 1..k |-> b[i]]
  BY <1>2, <1>3
<1>5. SubSeq(a, 1, k) = SubSeq(b, 1, k)  BY <1>2, <1>4
<1> QED BY <1>5 DEF Chain, a, b, k

\* locateFork's evidence names a point up to which both replicas hold the same rows.
THEOREM EvidenceIsTrue == Spec => []EvidenceStands
<1> QED BY SyncInvariant, EvidenceFromInv, PTL
--------------------------------------------------------------------------------
(* The want lane *)

\* The streams of the slots in use, and the slots no request is out for.
Held(x) == {w.s : w \in x.active}
Loose(x) == x.active \ x.reqs

\* The slots, the queue and the dedupe set of a peer state, of which pumpWants has yet to
\* turn to the streams `rest`; the loose slots are among L.
Slots(x, rest, L) ==
  /\ IsFiniteSet(x.reqs) /\ IsFiniteSet(x.active)
  /\ IsFiniteSet(x.captured) /\ \A c \in x.captured : IsFiniteSet(c.pages)
  /\ Cardinality(x.active) <= MAX_WANT_CONCURRENT
  /\ \A w \in x.active : w.t = "WANT" /\ "req" \in DOMAIN w
  /\ \A v, w \in x.active : v.s = w.s \/ v.req = w.req => v = w
  /\ \A i, j \in 1..Len(x.wantQueue) : x.wantQueue[i] = x.wantQueue[j] => i = j
  /\ \A s \in ToSet(x.wantQueue) : s \notin rest /\ s \notin Held(x)
  /\ \A s \in rest : s \notin Held(x)
  /\ x.wanted = ToSet(x.wantQueue) \cup rest \cup Held(x)
  /\ x.wantQueue # << >> => Cardinality(x.active) = MAX_WANT_CONCURRENT
  /\ Loose(x) \subseteq L

\* A slot no request is out for has its floor on the way through the commit queue.
Items(n) == ToSet(queue[n]) \cup ToSet(settled[n])
Carried(l, w) == \E q \in Items(l[1]) : q.t = "floor" /\ q.link = l /\ q.req = w.req
Waiting(l) == {w \in ps[l].active : Carried(l, w)}

LaneInv ==
  /\ \A l \in Link : IsFiniteSet(ctl[l])
  /\ \A l \in Link : Slots(ps[l], {}, Waiting(l))

\* The elements of a sequence are finitely many.
LEMMA SeqFinite ==
  ASSUME NEW q, IsSeq(q)
  PROVE  IsFiniteSet(ToSet(q))
<1>1. DOMAIN q = 1..Len(q) /\ Len(q) \in Nat  BY DEF IsSeq
<1>2. IsFiniteSet(DOMAIN q)  BY <1>1, FS_Interval
<1>3. IsFiniteSet({q[i] : i \in DOMAIN q})  BY <1>2, ImageFinite
<1> QED BY <1>3 DEF ToSet

\* A new request number is borne by none of the session's slots.
LEMMA Fresh ==
  ASSUME Inv, LaneInv, NEW l \in Link, NEW x, IsFiniteSet(x.reqs), IsFiniteSet(x.active),
         NEW w \in x.active, "req" \in DOMAIN w
  PROVE  FreshReq(l, x) # w.req
<1> DEFINE k == Back(l)
           bearers == x.reqs \cup x.active \cup ctl[l] \cup ctl[k] \cup ToSet(lane[k])
                      \cup ps[k].captured \cup ToSet(queue[l[1]] \o settled[l[1]])
           named == {m \in bearers : "req" \in DOMAIN m}
           used == {m.req : m \in named}
           Free(r) == r \notin used /\ \A j \in 1..r - 1 : j \in used
           N == Cardinality(used)
<1>1. FreshReq(l, x) = CHOOSE r \in 1..N + 1 : Free(r)  BY DEF FreshReq
<1>2. l[1] \in Node /\ k \in Link  BY LinkEnds
<1>3. IsFiniteSet(bearers)
  <2>1. IsFiniteSet(ctl[l]) /\ IsFiniteSet(ctl[k]) /\ IsFiniteSet(ps[k].captured)
    BY <1>2 DEF LaneInv, Slots
  <2>2. IsFiniteSet(ToSet(lane[k]))  BY <1>2, Parts, SeqFinite DEF LaneOK
  <2>3. IsFiniteSet(ToSet(queue[l[1]] \o settled[l[1]]))
    <3>1. IsSeq(queue[l[1]]) /\ IsSeq(settled[l[1]])  BY <1>2, Parts DEF QueueOK, SettledOK
    <3> QED BY <3>1, CatSet, SeqFinite
  <2> HIDE DEF k
  <2>4. IsFiniteSet(x.reqs \cup x.active \cup ctl[l] \cup ctl[k])  BY <2>1, FS_Union
  <2>5. IsFiniteSet(x.reqs \cup x.active \cup ctl[l] \cup ctl[k] \cup ToSet(lane[k]))
    BY <2>2, <2>4, FS_Union
  <2>6. IsFiniteSet(x.reqs \cup x.active \cup ctl[l] \cup ctl[k] \cup ToSet(lane[k])
                    \cup ps[k].captured)
    BY <2>1, <2>5, FS_Union
  <2> QED BY <2>3, <2>6, FS_Union
<1>4. w.req \in used
  <2>1. w \in named  OBVIOUS
  <2> QED BY <2>1
<1> HIDE DEF bearers
<1>5. IsFiniteSet(used) /\ N \in Nat
  <2>1. IsFiniteSet(named)  BY <1>3, FS_Subset
  <2> DEFINE f == [m \in named |-> m.req]
  <2>2. IsFiniteSet({f[m] : m \in named})  BY <2>1, ImageFinite
  <2>3. {f[m] : m \in named} = used  OBVIOUS
  <2> HIDE DEF used
  <2> QED BY <2>2, <2>3, FS_CardinalityType
<1> HIDE DEF used, named
<1>6. \E r \in 1..N + 1 : Free(r)
  <2> HIDE DEF N
  <2> DEFINE D == {r \in 1..N + 1 : r \notin used}
  <2>1. D # {}
    <3> SUFFICES ASSUME D = {} PROVE FALSE  OBVIOUS
    <3>1. 1..N + 1 \subseteq used  OBVIOUS
    <3>2. Cardinality(1..N + 1) <= N  BY <1>5, <3>1, FS_Subset DEF N
    <3>3. Cardinality(1..N + 1) = N + 1  BY <1>5, FS_Interval
    <3> QED BY <1>5, <3>2, <3>3
  <2>2. D \in SUBSET Nat  BY <1>5
  <2>3. PICK r \in D : \A j \in D : r <= j  BY <2>1, <2>2, Least
  <2>4. ASSUME NEW j \in 1..r - 1 PROVE j \in used
    <3>1. r \in 1..N + 1 /\ j \in 1..N + 1 /\ ~(r <= j)  BY <1>5, <2>3
    <3>2. j \notin D  BY <2>3, <3>1
    <3> QED BY <3>1, <3>2
  <2> QED BY <2>3, <2>4
<1>7. Free(FreshReq(l, x))  BY <1>1, <1>6
<1> QED BY <1>4, <1>7

\* A slot more: another stream, another request.
LEMMA SlotAdd ==
  ASSUME NEW x, PeerOK(x), NEW rest, NEW L, Slots(x, rest, L), NEW w, NEW s \in rest,
         w.t = "WANT", "req" \in DOMAIN w, w.s = s, \A v \in x.active : v.req # w.req,
         ~(Cardinality(x.active) >= MAX_WANT_CONCURRENT)
  PROVE  Slots([x EXCEPT !.active = @ \cup {w}, !.reqs = @ \cup {w}], rest \ {s}, L)
<1> DEFINE y == [x EXCEPT !.active = @ \cup {w}, !.reqs = @ \cup {w}]
<1>1. /\ y.active = x.active \cup {w} /\ y.reqs = x.reqs \cup {w} /\ y.captured = x.captured
      /\ y.wantQueue = x.wantQueue /\ y.wanted = x.wanted
  BY DEF PeerOK, PeerFields
<1> HIDE DEF y
<1>2. /\ IsFiniteSet(x.active) /\ IsFiniteSet(x.reqs) /\ Cardinality(x.active) \in Nat
      /\ MAX_WANT_CONCURRENT \in Nat
  BY FS_CardinalityType, Sizes DEF Slots
<1>3. s \notin Held(x) /\ w \notin x.active  BY DEF Slots, Held
<1>4. IsFiniteSet(y.active) /\ IsFiniteSet(y.reqs) /\ Cardinality(y.active) = Cardinality(x.active) + 1
  <2>1. IsFiniteSet(x.active \cup {w}) /\ Cardinality(x.active \cup {w}) = Cardinality(x.active) + 1
    BY <1>2, <1>3, FS_AddElement
  <2>2. IsFiniteSet(x.reqs \cup {w})  BY <1>2, FS_AddElement
  <2> QED BY <1>1, <2>1, <2>2
<1>5. Cardinality(y.active) <= MAX_WANT_CONCURRENT  BY <1>2, <1>4
<1>6. x.wantQueue = << >>  BY <1>2 DEF Slots
<1>7. Len(x.wantQueue) = 0 /\ ToSet(x.wantQueue) = {}  BY <1>6, NilSet
<1>8. Held(y) = Held(x) \cup {s}  BY <1>1 DEF Held
<1>9. \A u \in y.active : u.t = "WANT" /\ "req" \in DOMAIN u  BY <1>1 DEF Slots
<1>10. \A v, u \in y.active : v.s = u.s \/ v.req = u.req => v = u
  <2>1. \A v \in x.active : v.s # s  BY <1>3 DEF Held
  <2> QED BY <1>1, <2>1 DEF Slots
<1>11. y.wanted = ToSet(y.wantQueue) \cup (rest \ {s}) \cup Held(y)  BY <1>1, <1>8 DEF Slots
<1>12. \A u \in rest \ {s} : u \notin Held(y)  BY <1>8 DEF Slots
<1>13. Loose(y) \subseteq L  BY <1>1 DEF Slots, Loose
<1> QED BY <1>1, <1>4, <1>5, <1>6, <1>7, <1>9, <1>10, <1>11, <1>12, <1>13 DEF Slots, y

\* A stream put back into the queue while all slots are taken.
LEMMA SlotWait ==
  ASSUME NEW x, PeerOK(x), NEW rest, NEW L, Slots(x, rest, L), NEW s \in rest,
         Cardinality(x.active) >= MAX_WANT_CONCURRENT
  PROVE  Slots([x EXCEPT !.wantQueue = Append(@, s)], rest \ {s}, L)
<1> DEFINE q == x.wantQueue
           a == Append(q, s)
           y == [x EXCEPT !.wantQueue = Append(@, s)]
<1>1. /\ y.active = x.active /\ y.reqs = x.reqs /\ y.captured = x.captured
      /\ y.wantQueue = a /\ y.wanted = x.wanted
  BY DEF PeerOK, PeerFields
<1> HIDE DEF y
<1>2. Cardinality(x.active) = MAX_WANT_CONCURRENT
  <2>1. Cardinality(x.active) \in Nat /\ MAX_WANT_CONCURRENT \in Nat
    BY FS_CardinalityType, Sizes DEF Slots
  <2> QED BY <2>1 DEF Slots
<1>3. q \in Seq(Stream)  BY DEF PeerOK
<1>4. IsSeq(q)  BY <1>3 DEF IsSeq
<1>5. ToSet(a) = ToSet(q) \cup {s}  BY <1>4, AppendSet
<1>6. s \notin ToSet(q)  BY DEF Slots
<1>7. \A i, j \in 1..Len(a) : a[i] = a[j] => i = j
  <2>1. PICK S : q \in Seq(S)  BY <1>3
  <2>2. q \in Seq(S \cup {s})  BY <2>1
  <2>3. /\ Len(a) = Len(q) + 1 /\ a[Len(q) + 1] = s /\ Len(q) \in Nat /\ DOMAIN q = 1..Len(q)
        /\ \A i \in 1..Len(q) : a[i] = q[i]
    BY <2>2
  <2> HIDE DEF a
  <2>4. \A i \in 1..Len(q) : a[i] # s  BY <1>6, <2>3 DEF ToSet
  <2>5. \A i, j \in 1..Len(q) : a[i] = a[j] => i = j  BY <2>3 DEF Slots
  <2>6. \A i \in 1..Len(a) : i \in 1..Len(q) \/ i = Len(q) + 1  BY <2>3
  <2> QED BY <2>3, <2>4, <2>5, <2>6
<1>8. Held(y) = Held(x) /\ Loose(y) = Loose(x)  BY <1>1 DEF Held, Loose
<1> HIDE DEF a
<1>9. y.wanted = ToSet(y.wantQueue) \cup (rest \ {s}) \cup Held(y)  BY <1>1, <1>5, <1>8 DEF Slots
<1>10. \A u \in ToSet(y.wantQueue) : u \notin rest \ {s} /\ u \notin Held(y)
  BY <1>1, <1>5, <1>8 DEF Slots
<1> QED BY <1>1, <1>2, <1>7, <1>8, <1>9, <1>10 DEF Slots, y

\* A turn of pumpWants.
LEMMA WantNextSlots ==
  ASSUME Inv, LaneInv, NEW l \in Link, NEW x, PeerOK(x), NEW rest, NEW L, Slots(x, rest, L),
         NEW s \in rest
  PROVE  Slots(wantNext(l, x, s), rest \ {s}, L)
<1> DEFINE w == [t |-> "WANT", req |-> FreshReq(l, x), s |-> s, from |-> Contig(l[1], s) + 1]
           y == [x EXCEPT !.active = @ \cup {w}, !.reqs = @ \cup {w}]
           z == [x EXCEPT !.wanted = @ \ {s}]
<1>1. Slots(z, rest \ {s}, L)
  <2>1. /\ z.active = x.active /\ z.reqs = x.reqs /\ z.captured = x.captured
        /\ z.wantQueue = x.wantQueue /\ z.wanted = x.wanted \ {s}
    BY DEF PeerOK, PeerFields
  <2> HIDE DEF z
  <2>2. Held(z) = Held(x) /\ Loose(z) = Loose(x)  BY <2>1 DEF Held, Loose
  <2>3. z.wanted = ToSet(z.wantQueue) \cup (rest \ {s}) \cup Held(z)  BY <2>1, <2>2 DEF Slots
  <2> QED BY <2>1, <2>2, <2>3 DEF Slots
<1>2. ASSUME ~(Cardinality(x.active) >= MAX_WANT_CONCURRENT) PROVE Slots(y, rest \ {s}, L)
  <2>1. w.t = "WANT" /\ "req" \in DOMAIN w /\ w.s = s /\ w.req = FreshReq(l, x)  OBVIOUS
  <2>2. \A v \in x.active : v.req # FreshReq(l, x)  BY Fresh DEF Slots
  <2> HIDE DEF w
  <2> QED BY <1>2, <2>1, <2>2, SlotAdd
<1>3. CASE Cardinality(x.active) >= MAX_WANT_CONCURRENT
  BY <1>3, SlotWait DEF wantNext
<1>4. CASE ~(Cardinality(x.active) >= MAX_WANT_CONCURRENT)
  <2>1. wantNext(l, x, s) \in {y, z}  BY <1>4 DEF wantNext
  <2> HIDE DEF y, z
  <2> QED BY <1>1, <1>2, <1>4, <2>1
<1> QED BY <1>3, <1>4

\* pumpWants turns to every stream of the queue once.
LEMMA pumpWantsSlots ==
  ASSUME Inv, LaneInv, NEW l \in Link, NEW x, PeerOK(x), NEW L,
         \A i, j \in 1..Len(x.wantQueue) : x.wantQueue[i] = x.wantQueue[j] => i = j,
         Slots([x EXCEPT !.wantQueue = << >>], ToSet(x.wantQueue), L)
  PROVE  Slots(pumpWants(l, x), {}, L)
<1> DEFINE q == x.wantQueue
           N == Len(q)
           Rest == [i \in Nat |-> {q[j] : j \in i + 1..N}]
<1>1. q \in Seq(Stream) /\ N \in Nat /\ DOMAIN q = 1..N /\ \A i \in 1..N : q[i] \in Stream
  BY DEF PeerOK
<1>2. IsSeq(q)  BY <1>1 DEF IsSeq
<1>3. PICK G : /\ G[0] = [x EXCEPT !.wantQueue = << >>]
               /\ \A i \in 1..N : G[i] = wantNext(l, G[i - 1], q[i])
               /\ pumpWants(l, x) = G[N]
  BY <1>2, pumpWantsFold
<1>4. \A i, j \in 1..N : q[i] = q[j] => i = j  OBVIOUS
<1> DEFINE S == {i \in Nat : i <= N => PeerOK(G[i]) /\ Slots(G[i], Rest[i], L)}
<1>5. 0 \in S
  <2>1. PeerOK([x EXCEPT !.wantQueue = << >>])  BY DEF PeerOK, PeerFields
  <2>2. Rest[0] = ToSet(q)  BY <1>1 DEF ToSet
  <2> HIDE DEF Rest
  <2> QED BY <1>3, <2>1, <2>2
<1>6. ASSUME NEW i \in Nat, i \in S PROVE i + 1 \in S
  <2>1. CASE i + 1 <= N
    <3>1. i + 1 \in 1..N /\ (i + 1) - 1 = i /\ i <= N  BY <1>1, <2>1
    <3>2. q[i + 1] \in Rest[i]  BY <1>1, <3>1
    <3>3. Rest[i] \ {q[i + 1]} = Rest[i + 1]
      <4>1. \A j \in i + 1..N : j = i + 1 \/ j \in i + 2..N  BY <1>1
      <4>2. \A j \in i + 2..N : j \in i + 1..N /\ q[j] # q[i + 1]  BY <1>1, <1>4, <3>1
      <4>3. (i + 1) + 1 = i + 2  OBVIOUS
      <4> QED BY <4>1, <4>2, <4>3
    <3>4. PeerOK(G[i]) /\ Slots(G[i], Rest[i], L)  BY <1>6, <3>1
    <3> HIDE DEF Rest, q, N
    <3>5. PeerOK(wantNext(l, G[i], q[i + 1]))  BY <1>1, <3>1, <3>4, Parts, WantNextOK
    <3>6. Slots(wantNext(l, G[i], q[i + 1]), Rest[i] \ {q[i + 1]}, L)
      BY <3>2, <3>4, WantNextSlots
    <3>7. G[i + 1] = wantNext(l, G[i], q[i + 1])  BY <1>3, <3>1
    <3>8. PeerOK(G[i + 1]) /\ Slots(G[i + 1], Rest[i + 1], L)  BY <3>3, <3>5, <3>6, <3>7, Zenon
    <3> QED BY <3>8
  <2> QED BY <2>1
<1>7. Rest[N] = {}  BY <1>1
<1> HIDE DEF S, q, N, Rest
<1>8. N \in S  BY <1>1, <1>5, <1>6, NatInduct
<1>9. Slots(G[N], Rest[N], L)
  <2>1. N <= N  BY <1>1
  <2> QED BY <1>8, <2>1, Zenon DEF S
<1> QED BY <1>3, <1>7, <1>9, Zenon

\* What leaves slots, queue and dedupe set alone keeps them right.
LEMMA SlotsKept ==
  ASSUME NEW x, NEW rest, NEW L, Slots(x, rest, L), NEW y,
         y.active = x.active, y.wantQueue = x.wantQueue, y.wanted = x.wanted,
         y.captured = x.captured, IsFiniteSet(y.reqs), x.reqs \cap x.active \subseteq y.reqs
  PROVE  Slots(y, rest, L)
<1>1. Held(y) = Held(x) /\ Loose(y) \subseteq Loose(x)  BY DEF Held, Loose
<1> QED BY <1>1 DEF Slots

\* The want lane of x and of y are the same.
SameWants(x, y) ==
  /\ y.active = x.active /\ y.wantQueue = x.wantQueue /\ y.wanted = x.wanted
  /\ y.captured = x.captured /\ y.reqs = x.reqs

LEMMA SlotsSame ==
  ASSUME NEW x, NEW rest, NEW L, Slots(x, rest, L), NEW y, SameWants(x, y)
  PROVE  Slots(y, rest, L)
<1>1. Held(y) = Held(x) /\ Loose(y) = Loose(x)  BY DEF Held, Loose, SameWants
<1> QED BY <1>1 DEF Slots, SameWants

\* The same with another bound on the loose slots.
LEMMA SlotsBound ==
  ASSUME NEW x, NEW rest, NEW L, Slots(x, rest, L), NEW M, Loose(x) \cap L \subseteq M
  PROVE  Slots(x, rest, M)
BY DEF Slots

\* queueWant lets a stream wait or hold a slot once.
LEMMA QueueWantSlots ==
  ASSUME Inv, LaneInv, NEW l \in Link, NEW x, PeerOK(x), NEW L, Slots(x, {}, L),
         NEW s \in Stream
  PROVE  Slots(queueWant(l, x, s), {}, L)
<1>1. CASE s \in x.wanted  BY <1>1 DEF queueWant
<1>2. CASE s \notin x.wanted
  <2> DEFINE q == x.wantQueue
             a == Append(q, s)
             y == [x EXCEPT !.wanted = @ \cup {s}, !.wantQueue = Append(@, s)]
             z == [y EXCEPT !.wantQueue = << >>]
  <2>1. PeerOK(y)  BY DEF PeerOK, PeerFields
  <2>2. y.wantQueue = a  BY DEF PeerOK, PeerFields
  <2>3. /\ z.active = x.active /\ z.reqs = x.reqs /\ z.captured = x.captured
        /\ z.wanted = x.wanted \cup {s} /\ z.wantQueue = << >>
    BY DEF PeerOK, PeerFields
  <2>4. q \in Seq(Stream)  BY DEF PeerOK
  <2>5. IsSeq(q)  BY <2>4 DEF IsSeq
  <2>6. ToSet(a) = ToSet(q) \cup {s}  BY <2>5, AppendSet
  <2>7. s \notin ToSet(q) /\ s \notin Held(x)  BY <1>2 DEF Slots
  <2>8. \A i, j \in 1..Len(a) : a[i] = a[j] => i = j
    <3>1. /\ Len(a) = Len(q) + 1 /\ a[Len(q) + 1] = s /\ Len(q) \in Nat /\ DOMAIN q = 1..Len(q)
          /\ \A i \in 1..Len(q) : a[i] = q[i]
      BY <2>4
    <3> HIDE DEF a
    <3>2. \A i \in 1..Len(q) : a[i] # s  BY <2>7, <3>1 DEF ToSet
    <3>3. \A i, j \in 1..Len(q) : a[i] = a[j] => i = j  BY <3>1 DEF Slots
    <3>4. \A i \in 1..Len(a) : i \in 1..Len(q) \/ i = Len(q) + 1  BY <3>1
    <3> QED BY <3>1, <3>2, <3>3, <3>4
  <2> HIDE DEF y, a, z
  <2>9. Held(z) = Held(x) /\ Loose(z) = Loose(x)  BY <2>3 DEF Held, Loose
  <2>10. ToSet(z.wantQueue) = {} /\ Len(z.wantQueue) = 0  BY <2>3, NilSet
  <2>11. Slots(z, ToSet(a), L)  BY <2>3, <2>6, <2>7, <2>9, <2>10 DEF Slots
  <2>12. Slots(pumpWants(l, y), {}, L)  BY <2>1, <2>2, <2>8, <2>11, pumpWantsSlots DEF z
  <2>13. queueWant(l, x, s) = pumpWants(l, y)  BY <1>2 DEF queueWant, y
  <2> QED BY <2>12, <2>13
<1> QED BY <1>1, <1>2

\* finishWant frees the slot of a request.
LEMMA FinishWantSlots ==
  ASSUME Inv, LaneInv, NEW l \in Link, NEW x, PeerOK(x), NEW L, Slots(x, {}, L), NEW r
  PROVE  Slots(finishWant(l, x, r), {}, {w \in L : w.req # r})
<1>1. CASE \A w \in x.active : w.req # r
  <2>1. Loose(x) \cap L \subseteq {w \in L : w.req # r}  BY <1>1 DEF Loose
  <2> QED BY <1>1, <2>1, SlotsBound DEF finishWant
<1>2. CASE \E w \in x.active : w.req = r
  <2> DEFINE w == CHOOSE w \in x.active : w.req = r
             q == x.wantQueue
             y == [x EXCEPT !.active = @ \ {w}, !.reqs = @ \ {w}, !.wanted = @ \ {w.s}]
             z == [y EXCEPT !.wantQueue = << >>]
             M == {v \in L : v.req # r}
  <2>1. w \in x.active /\ w.req = r  BY <1>2
  <2>2. finishWant(l, x, r) = pumpWants(l, y)  BY <1>2 DEF finishWant
  <2> HIDE DEF w
  <2>3. PeerOK(y) /\ y.wantQueue = q  BY DEF PeerOK, PeerFields
  <2>4. /\ z.active = x.active \ {w} /\ z.reqs = x.reqs \ {w} /\ z.captured = x.captured
        /\ z.wanted = x.wanted \ {w.s} /\ z.wantQueue = << >>
    BY DEF PeerOK, PeerFields
  <2> HIDE DEF y, z
  <2>5. ToSet(z.wantQueue) = {} /\ Len(z.wantQueue) = 0  BY <2>4, NilSet
  <2>6. Held(z) = Held(x) \ {w.s}  BY <2>1, <2>4 DEF Held, Slots
  <2>7. Loose(z) \subseteq M
    <3>1. \A v \in x.active : v.req = r => v = w  BY <2>1 DEF Slots
    <3> QED BY <2>4, <3>1 DEF Loose, Slots
  <2>8. /\ IsFiniteSet(z.active) /\ IsFiniteSet(z.reqs)
        /\ Cardinality(z.active) <= MAX_WANT_CONCURRENT
    <3>1. IsFiniteSet(x.active) /\ IsFiniteSet(x.reqs)  BY DEF Slots
    <3>2. IsFiniteSet(z.active) /\ Cardinality(z.active) = Cardinality(x.active) - 1
      BY <2>1, <2>4, <3>1, FS_RemoveElement
    <3>3. IsFiniteSet(z.reqs)  BY <2>4, <3>1, FS_Subset
    <3>4. Cardinality(x.active) \in Nat /\ Cardinality(x.active) <= MAX_WANT_CONCURRENT
      BY <3>1, FS_CardinalityType DEF Slots
    <3>5. MAX_WANT_CONCURRENT \in Nat  BY Sizes
    <3> QED BY <3>2, <3>3, <3>4, <3>5
  <2>9. z.wanted = ToSet(q) \cup Held(z)
    <3>1. w.s \notin ToSet(q)  BY <2>1 DEF Slots, Held
    <3> QED BY <2>4, <2>6, <3>1 DEF Slots
  <2>10. \A s \in ToSet(q) : s \notin Held(z)  BY <2>6 DEF Slots
  <2>11. /\ \A v \in z.active : v.t = "WANT" /\ "req" \in DOMAIN v
         /\ \A u, v \in z.active : u.s = v.s \/ u.req = v.req => u = v
    BY <2>4 DEF Slots
  <2>12. IsFiniteSet(z.captured) /\ \A c \in z.captured : IsFiniteSet(c.pages)
    BY <2>4 DEF Slots
  <2>13. Slots(z, ToSet(q), M)
    BY <2>4, <2>5, <2>7, <2>8, <2>9, <2>10, <2>11, <2>12 DEF Slots
  <2>14. \A i, j \in 1..Len(q) : q[i] = q[j] => i = j  BY DEF Slots
  <2> HIDE DEF M, q
  <2>15. Slots(pumpWants(l, y), {}, M)  BY <2>3, <2>13, <2>14, pumpWantsSlots DEF z
  <2> QED BY <2>2, <2>15 DEF M
<1> QED BY <1>1, <1>2

\* One vector compared: the want lane moves by queueWant only.
LEMMA CompareSlots ==
  ASSUME Inv, LaneInv, NEW l \in Link, NEW a, RoundAt(a), NEW L, Slots(a.x, {}, L),
         NEW w, w.s \in Stream, w.chain \in Seq(Content)
  PROVE  Slots(comparePeer(l, a, w).x, {}, L)
<1> DEFINE x == [a.x EXCEPT !.known[w.s] = Len(w.chain)]
           at == Len(w.chain)
           mine == Contig(l[1], w.s)
           y == CASE at > mine -> queueWant(l, x, w.s)
                  [] at < mine -> markDirty(x, w.s)
                  [] at = mine -> x
           d == markDirty(x, w.s)
           f == locateFork(x, w.s, at)
<1>1. at \in Nat /\ mine \in Nat  BY LinkEnds, Parts, LogBounds
<1>2. PeerOK(x)  BY DEF RoundAt, PeerOK, PeerFields
<1>3. Slots(x, {}, L)
  <2>1. SameWants(a.x, x)  BY DEF SameWants, RoundAt, PeerOK, PeerFields
  <2> HIDE DEF x
  <2> QED BY <2>1, SlotsSame
<1>4. comparePeer(l, a, w) \in {[a EXCEPT !.x = x], [a EXCEPT !.x = y],
                                [x |-> f, seals |-> a.seals \cup {w.s}]}
  BY DEF comparePeer
<1> HIDE DEF x, mine
<1>5. Slots(d, {}, L)
  <2>1. SameWants(x, d)  BY <1>2 DEF SameWants, markDirty, PeerOK, PeerFields
  <2> HIDE DEF d
  <2> QED BY <1>3, <2>1, SlotsSame
<1>6. Slots(f, {}, L)
  <2> DEFINE seqs == {at - k : k \in {0} \cup {2^i : i \in 0..MaxSeq}} \cap 1..at
             r == [t |-> "PROBE", s |-> w.s, seqs |-> seqs, upTo |-> at]
             keep == {v \in x.reqs : v.t # "PROBE" \/ v.s # w.s}
  <2>1. f = [x EXCEPT !.reqs = keep \cup {r}]  BY DEF locateFork
  <2> HIDE DEF f, r
  <2>2. /\ f.active = x.active /\ f.wantQueue = x.wantQueue /\ f.wanted = x.wanted
        /\ f.reqs = keep \cup {r} /\ f.captured = x.captured
    BY <1>2, <2>1 DEF PeerOK, PeerFields
  <2>3. IsFiniteSet(f.reqs)
    <3>1. IsFiniteSet(keep)  BY <1>3, FS_Subset DEF Slots
    <3> QED BY <2>2, <3>1, FS_AddElement
  <2>4. x.reqs \cap x.active \subseteq f.reqs  BY <1>3, <2>2 DEF Slots
  <2> HIDE DEF keep
  <2> QED BY <1>3, <2>2, <2>3, <2>4, SlotsKept
<1> HIDE DEF at, d, f
<1>7. Slots(y, {}, L)
  <2>1. Slots(queueWant(l, x, w.s), {}, L)  BY <1>2, <1>3, QueueWantSlots
  <2> QED BY <1>1, <1>3, <1>5, <2>1 DEF d
<1> HIDE DEF y
<1> QED BY <1>3, <1>4, <1>6, <1>7 DEF RoundAt

\* So do all of them.
LEMMA compareAllSlots ==
  ASSUME Inv, LaneInv, NEW l \in Link, NEW x, PeerOK(x), NEW L, Slots(x, {}, L),
         NEW ws, IsFiniteSet(ws), \A w \in ws : w.s \in Stream /\ w.chain \in Seq(Content)
  PROVE  Slots(compareAll(l, x, ws).x, {}, L)
<1>1. PICK F : Compares(F, l, x, ws) /\ compareAll(l, x, ws) = F[ws]  BY compareAllFold
<1> DEFINE G == {t \in SUBSET ws : RoundAt(F[t]) /\ Slots(F[t].x, {}, L)}
<1>2. {} \in G
  <2>1. F[{}] = [x |-> x, seals |-> {}]  BY <1>1 DEF Compares
  <2> QED BY <2>1 DEF RoundAt
<1>3. ASSUME NEW t \in SUBSET ws, t # {} PROVE \E e \in t : t \ {e} \in G => t \in G
  <2>1. PICK e \in t : F[t] = comparePeer(l, F[t \ {e}], e)
    BY <1>1, <1>3 DEF Compares
  <2>2. t \ {e} \in G => t \in G  BY <2>1, Parts, CompareOK, CompareSlots
  <2> QED BY <2>2
<1> HIDE DEF G
<1>4. \A t \in SUBSET ws : t \in G  BY <1>2, <1>3, SetInduct
<1> QED BY <1>1, <1>4 DEF G

\* A pump leaves the want lane alone and puts no more on the data lane than it takes.
PumpSlots(l, a, L) == Slots(a.x, {}, L) /\ Len(lane[l]) + Len(a.out) <= LaneCap

LEMMA PumpStreamSlots ==
  ASSUME Inv, NEW l \in Link, NEW a, PumpAt(l, a), NEW s \in Stream, NEW L, PumpSlots(l, a, L)
  PROVE  PumpSlots(l, pumpStream(l, a, s), L)
<1> DEFINE n == l[1]
           at == a.x.known[s]
           to == Contig(n, s)
           clean == [a EXCEPT !.x.dirty = @ \ {s}]
           ids == {i \in at + 1..at + ENTRIES_BATCH_MAX : HasRow(n, s, i)}
           frame == Entries(n, s, 0, Min(ids), to, ids)
           full == Len(lane[l]) + Len(a.out) >= LaneCap
           sent == [a EXCEPT !.out = Append(@, frame), !.x.known[s] = Max(ids)]
           gone == [sent EXCEPT !.x.dirty = @ \ {s}]
           stop == [a EXCEPT !.stop = TRUE]
           b == pumpStream(l, a, s)
<1>1. \/ b \in {stop, clean}
      \/ ~full /\ b \in {sent, gone}
  BY DEF pumpStream
<1>2. SameWants(a.x, b.x) /\ (b.out = a.out \/ (~full /\ b.out = Append(a.out, frame)))
  <2> HIDE DEF frame, ids, full, b
  <2>1. SameWants(a.x, stop.x) /\ stop.out = a.out  BY DEF SameWants, PumpAt
  <2>2. SameWants(a.x, clean.x) /\ clean.out = a.out
    BY DEF SameWants, PumpAt, PeerOK, PeerFields
  <2>3. SameWants(a.x, sent.x) /\ sent.out = Append(a.out, frame)
    BY DEF SameWants, PumpAt, PeerOK, PeerFields
  <2>4. SameWants(a.x, gone.x) /\ gone.out = Append(a.out, frame)
    BY DEF SameWants, PumpAt, PeerOK, PeerFields
  <2> HIDE DEF stop, clean, sent, gone
  <2>5. CASE b \in {stop, clean}  BY <2>1, <2>2, <2>5, Zenon
  <2>6. CASE ~full /\ b \in {sent, gone}  BY <2>3, <2>4, <2>6, Zenon
  <2> QED BY <1>1, <2>5, <2>6, Zenon
<1> HIDE DEF b, frame
<1>3. Slots(b.x, {}, L)  BY <1>2, SlotsSame DEF PumpSlots
<1>4. Len(lane[l]) + Len(b.out) <= LaneCap
  <2>1. IsSeq(lane[l]) /\ IsSeq(a.out)  BY Parts DEF LaneOK, PumpAt
  <2>2. PICK S : a.out \in Seq(S)  BY <2>1 DEF IsSeq
  <2>3. a.out \in Seq(S \cup {frame})  BY <2>2
  <2>4. Len(Append(a.out, frame)) = Len(a.out) + 1 /\ Len(a.out) \in Nat  BY <2>3
  <2>5. Len(lane[l]) \in Nat /\ LaneCap \in Nat  BY <2>1, Sizes DEF IsSeq
  <2>6. Len(lane[l]) + Len(a.out) <= LaneCap  BY DEF PumpSlots
  <2>7. CASE b.out = a.out  BY <2>6, <2>7
  <2>8. CASE ~full /\ b.out = Append(a.out, frame)
    <3>1. ~(Len(lane[l]) + Len(a.out) >= LaneCap)  BY <2>8
    <3>4. \A i, j, k \in Nat : ~(i + j >= k) => i + (j + 1) <= k  OBVIOUS
    <3>2. Len(lane[l]) + (Len(a.out) + 1) <= LaneCap  BY <2>4, <2>5, <3>1, <3>4, Zenon
    <3>3. Len(b.out) = Len(a.out) + 1  BY <2>4, <2>8, Zenon
    <3> QED BY <3>2, <3>3, Zenon
  <2> QED BY <1>2, <2>7, <2>8, Zenon
<1> QED BY <1>3, <1>4 DEF PumpSlots, b

LEMMA pumpAllSlots ==
  ASSUME Inv, NEW l \in Link, NEW L, Slots(ps[l], {}, L), Len(lane[l]) <= LaneCap
  PROVE  PumpSlots(l, pumpAll(l), L)
<1> DEFINE T == ps[l].dirty
           x == [ps[l] EXCEPT !.pump = FALSE]
           b == [x |-> x, out |-> << >>, stop |-> FALSE]
<1>1. PeerOK(ps[l]) /\ T \in SUBSET Stream /\ IsFiniteSet(T)
  BY Parts, Topology, FS_Subset DEF PeersOK, PeerOK
<1>2. PICK F : /\ F[{}] = b
               /\ \A t \in SUBSET T : t # {} => \E e \in t : F[t] = pumpStream(l, F[t \ {e}], e)
               /\ pumpAll(l) = F[T]
  BY <1>1, pumpAllFold
<1>3. PumpAt(l, b)
  <2>1. PeerOK(x)  BY <1>1 DEF PeerOK, PeerFields
  <2> QED BY <2>1, NilSet DEF PumpAt
<1>4. PumpSlots(l, b, L)
  <2>1. SameWants(ps[l], x)  BY <1>1 DEF SameWants, PeerOK, PeerFields
  <2>2. b.x = x /\ Len(b.out) = 0  OBVIOUS
  <2> HIDE DEF x
  <2>3. Slots(b.x, {}, L)  BY <2>1, <2>2, SlotsSame
  <2>4. Len(lane[l]) \in Nat
    <3>1. IsSeq(lane[l])  BY Parts DEF LaneOK
    <3> QED BY <3>1 DEF IsSeq
  <2> QED BY <2>2, <2>3, <2>4 DEF PumpSlots
<1> HIDE DEF T, b
<1> DEFINE G == {t \in SUBSET T : PumpAt(l, F[t]) /\ PumpSlots(l, F[t], L)}
<1>5. {} \in G  BY <1>2, <1>3, <1>4
<1>6. ASSUME NEW t \in SUBSET T, t # {} PROVE \E e \in t : t \ {e} \in G => t \in G
  <2>1. PICK e \in t : F[t] = pumpStream(l, F[t \ {e}], e)  BY <1>2, <1>6
  <2>2. t \ {e} \in G => t \in G  BY <1>1, <2>1, Parts, PumpOK, PumpStreamSlots
  <2> QED BY <2>2
<1> HIDE DEF G
<1>7. \A t \in SUBSET T : t \in G  BY <1>1, <1>5, <1>6, SetInduct
<1> QED BY <1>2, <1>7 DEF G

\* A concatenation has all of its first part,
LEMMA CatHas ==
  ASSUME NEW q, NEW r, IsSeq(q), IsSeq(r)
  PROVE  ToSet(q) \subseteq ToSet(q \o r)
<1>1. PICK S : q \in Seq(S)  BY DEF IsSeq
<1>2. PICK T : r \in Seq(T)  BY DEF IsSeq
<1>3. q \in Seq(S \cup T) /\ r \in Seq(S \cup T)  BY <1>1, <1>2
<1> DEFINE a == q \o r
<1>4. /\ a \in Seq(S \cup T) /\ Len(a) = Len(q) + Len(r) /\ Len(q) \in Nat /\ Len(r) \in Nat
      /\ \A i \in 1..Len(q) : a[i] = q[i]
  BY <1>3, ConcatProperties
<1>5. DOMAIN q = 1..Len(q) /\ DOMAIN a = 1..Len(q) + Len(r)  BY <1>3, <1>4
<1> HIDE DEF a
<1>6. \A i \in DOMAIN q : i \in DOMAIN a /\ a[i] = q[i]  BY <1>4, <1>5
<1>7. ToSet(q) \subseteq ToSet(a)  BY <1>6 DEF ToSet
<1> QED BY <1>7 DEF a

\* and a tail all but the head.
LEMMA TailHas ==
  ASSUME NEW q, IsSeq(q), q # << >>
  PROVE  ToSet(q) \subseteq {Head(q)} \cup ToSet(Tail(q))
<1>1. PICK S : q \in Seq(S)  BY DEF IsSeq
<1>2. /\ Head(q) = q[1] /\ Len(q) \in Nat /\ DOMAIN q = 1..Len(q)
      /\ DOMAIN Tail(q) = 1..Len(q) - 1 /\ \A i \in 1..Len(q) - 1 : Tail(q)[i] = q[i + 1]
  BY <1>1
<1>3. \A i \in 1..Len(q) : i = 1 \/ i - 1 \in 1..Len(q) - 1  BY <1>2
<1>4. \A i \in 1..Len(q) - 1 : (i + 1) - 1 = i  BY <1>2
<1>5. ASSUME NEW i \in 1..Len(q) PROVE q[i] \in {Head(q)} \cup ToSet(Tail(q))
  <2>1. CASE i = 1  BY <1>2, <2>1
  <2>2. CASE i - 1 \in 1..Len(q) - 1
    <3>1. Tail(q)[i - 1] = q[(i - 1) + 1] /\ (i - 1) + 1 = i  BY <1>2, <2>2
    <3> QED BY <1>2, <2>2, <3>1 DEF ToSet
  <2> QED BY <1>3, <2>1, <2>2
<1> QED BY <1>2, <1>5 DEF ToSet
--------------------------------------------------------------------------------
(* Steps keep the want lane *)

\* Floors in the commit queue and among the callbacks stay there.
Floats ==
  \A n \in Node : \A q \in Items(n) : q.t = "floor" => q \in Items(n)'

\* LaneInv from the slots of every link,
LEMMA LaneStep ==
  ASSUME \A l \in Link : IsFiniteSet(ctl'[l]),
         \A l \in Link : \E L : Slots(ps'[l], {}, L) /\ \A w \in L : Carried(l, w)'
  PROVE  LaneInv'
<1> SUFFICES ASSUME NEW l \in Link PROVE Slots(ps'[l], {}, Waiting(l)')  BY DEF LaneInv
<1>1. PICK L : Slots(ps'[l], {}, L) /\ \A w \in L : Carried(l, w)'  OBVIOUS
<1>2. Loose(ps'[l]) \cap L \subseteq Waiting(l)'  BY <1>1 DEF Loose, Waiting
<1> QED BY <1>1, <1>2, SlotsBound

\* the case that floors stay where they are.
LEMMA LaneKept ==
  ASSUME \A l \in Link : IsFiniteSet(ctl'[l]), Floats,
         \A l \in Link : Slots(ps'[l], {}, Waiting(l))
  PROVE  LaneInv'
<1>1. ASSUME NEW l \in Link, NEW w \in Waiting(l) PROVE Carried(l, w)'
  <2>1. l[1] \in Node  BY LinkEnds
  <2> QED BY <2>1 DEF Waiting, Carried, Floats
<1> QED BY <1>1, LaneStep

\* A step puts finitely many messages in flight.
LEMMA CtlFinite ==
  ASSUME LaneInv, \A k \in Link : IsFiniteSet(ps'[k].reqs), NEW as, IsFiniteSet(as),
         \A k \in Link : ctl'[k] \subseteq ctl[k] \cup as \cup ps'[k].reqs
  PROVE  \A k \in Link : IsFiniteSet(ctl'[k])
<1> SUFFICES ASSUME NEW k \in Link PROVE IsFiniteSet(ctl'[k])  OBVIOUS
<1>1. IsFiniteSet(ctl[k])  BY DEF LaneInv
<1>2. IsFiniteSet(ctl[k] \cup as)  BY <1>1, FS_Union
<1>3. IsFiniteSet((ctl[k] \cup as) \cup ps'[k].reqs)  BY <1>2, FS_Union
<1> QED BY <1>3, FS_Subset

\* An answer,
LEMMA AnswerFinite ==
  ASSUME LaneInv, \A k \in Link : IsFiniteSet(ps'[k].reqs), NEW as, IsFiniteSet(as),
         NEW l, NEW m, Answer(l, m, as)
  PROVE  \A k \in Link : IsFiniteSet(ctl'[k])
<1>1. \A k \in Link : ctl'[k] \subseteq ctl[k] \cup as \cup ps'[k].reqs  BY DEF Answer
<1> QED BY <1>1, CtlFinite

\* or the requests of a callback.
LEMMA SendFinite ==
  ASSUME LaneInv, \A k \in Link : IsFiniteSet(ps'[k].reqs), SendRequests
  PROVE  \A k \in Link : IsFiniteSet(ctl'[k])
<1>1. \A k \in Link : ctl'[k] \subseteq ctl[k] \cup {} \cup ps'[k].reqs  BY DEF SendRequests
<1> QED BY <1>1, CtlFinite, FS_EmptySet

\* Nothing moves in the commit queue.
LEMMA FloatsSame ==
  ASSUME UNCHANGED <<queue, settled>>
  PROVE  Floats
BY DEF Floats, Items

\* An operation is added to it,
LEMMA FloatsAdd ==
  ASSUME Inv, NEW n \in Node, NEW q,
         \/ queue' = [queue EXCEPT ![n] = Append(@, q)] /\ UNCHANGED settled
         \/ settled' = [settled EXCEPT ![n] = Append(@, q)] /\ UNCHANGED queue
  PROVE  Floats /\ q \in Items(n)'
<1>1. /\ DOMAIN queue = Node /\ DOMAIN settled = Node
      /\ IsSeq(queue[n]) /\ IsSeq(settled[n])
  BY Parts DEF QueueOK, SettledOK
<1>2. /\ ToSet(Append(queue[n], q)) = ToSet(queue[n]) \cup {q}
      /\ ToSet(Append(settled[n], q)) = ToSet(settled[n]) \cup {q}
  BY <1>1, AppendSet
<1> QED BY <1>1, <1>2 DEF Floats, Items

\* one other than a floor is done,
LEMMA FloatsPop ==
  ASSUME Inv, NEW n \in Node, settled[n] # << >>, Head(settled[n]).t # "floor",
         settled' = [settled EXCEPT ![n] = Tail(@)], UNCHANGED queue
  PROVE  Floats
<1>1. DOMAIN settled = Node /\ IsSeq(settled[n])  BY Parts DEF SettledOK
<1>2. ToSet(settled[n]) \subseteq {Head(settled[n])} \cup ToSet(Tail(settled[n]))
  BY <1>1, TailHas
<1> QED BY <1>1, <1>2 DEF Floats, Items

\* or one is flushed.
LEMMA FloatsFlush ==
  ASSUME Inv, NEW n \in Node, queue[n] # << >>, queue' = [queue EXCEPT ![n] = Tail(@)],
         NEW z, settled' = [settled EXCEPT ![n] = Append(@, z)]
  PROVE  /\ \A k \in Node \ {n} : Items(k)' = Items(k)
         /\ Items(n) \subseteq {Head(queue[n])} \cup Items(n)' /\ z \in Items(n)'
<1>1. /\ DOMAIN queue = Node /\ DOMAIN settled = Node
      /\ IsSeq(queue[n]) /\ IsSeq(settled[n])
  BY Parts DEF QueueOK, SettledOK
<1>2. ToSet(queue[n]) \subseteq {Head(queue[n])} \cup ToSet(Tail(queue[n]))
  BY <1>1, TailHas
<1>3. ToSet(Append(settled[n], z)) = ToSet(settled[n]) \cup {z}  BY <1>1, AppendSet
<1>4. queue'[n] = Tail(queue[n]) /\ settled'[n] = Append(settled[n], z)  BY <1>1
<1>5. \A k \in Node \ {n} : queue'[k] = queue[k] /\ settled'[k] = settled[k]  BY <1>1
<1> QED BY <1>2, <1>3, <1>4, <1>5 DEF Items

\* Peer states whose want lanes stay the same.
LEMMA LaneAlike ==
  ASSUME Inv, LaneInv, \A l \in Link : IsFiniteSet(ctl'[l]), Floats,
         \A l \in Link : SameWants(ps[l], ps'[l])
  PROVE  LaneInv'
<1>1. \A l \in Link : Slots(ps'[l], {}, Waiting(l))  BY SlotsSame DEF LaneInv
<1> QED BY <1>1, LaneKept

\* One peer state changes.
LEMMA LaneOne ==
  ASSUME Inv, LaneInv, NEW l \in Link, NEW y, ps' = [ps EXCEPT ![l] = y],
         Slots(y, {}, Waiting(l))
  PROVE  \A k \in Link : Slots(ps'[k], {}, Waiting(k)) /\ IsFiniteSet(ps'[k].reqs)
<1>1. ASSUME NEW k \in Link PROVE Slots(ps'[k], {}, Waiting(k))
  <2>1. DOMAIN ps = Link  BY Parts DEF PeersOK
  <2>2. ps'[k] = IF k = l THEN y ELSE ps[k]  BY <2>1
  <2>3. Slots(ps[k], {}, Waiting(k))  BY DEF LaneInv
  <2> QED BY <2>2, <2>3
<1>2. \A k \in Link : Slots(ps'[k], {}, Waiting(k)) => IsFiniteSet(ps'[k].reqs)  BY DEF Slots
<1> QED BY <1>1, <1>2

\* handleApplied marks streams dirty.
LEMMA AppliedSame ==
  ASSUME Inv, NEW n, NEW s, NEW via, handleApplied(n, s, via)
  PROVE  \A l \in Link : SameWants(ps[l], ps'[l])
BY Parts DEF PeersOK, handleApplied, markDirty, SameWants, PeerOK, PeerFields

\* Steps that touch no peer state, or only mark streams dirty.
LEMMA QuietLane ==
  ASSUME Inv, LaneInv, Floats, UNCHANGED ctl,
         UNCHANGED ps \/ \E n, s, via : handleApplied(n, s, via)
  PROVE  LaneInv'
<1>1. \A l \in Link : IsFiniteSet(ctl'[l])  BY DEF LaneInv
<1>2. \A l \in Link : SameWants(ps[l], ps'[l])  BY AppliedSame DEF SameWants
<1> QED BY <1>1, <1>2, LaneAlike

\* Own appends and prunes.
LEMMA LocalLane ==
  ASSUME Inv, LaneInv, NEW n \in Node, NEW s \in Stream, append(n, s, "x") \/ prune(n, s)
  PROVE  LaneInv'
<1>1. /\ UNCHANGED <<queue, settled, ctl>>
      /\ UNCHANGED ps \/ handleApplied(n, s, n)
  BY DEF append, prune, netVars
<1> QED BY <1>1, FloatsSame, QuietLane

\* A flushed operation leaves the want lane to its callback; a floor stays with it.
LEMMA FlushLane ==
  ASSUME Inv, LaneInv, NEW n \in Node, FlushEntries(n) \/ FlushSeal(n) \/ FlushFloor(n)
  PROVE  LaneInv'
<1> DEFINE q == Head(queue[n])
           z == [q EXCEPT !.refused = ~(q.s \notin sealed[n]) /\ Contig(n, q.s) < Len(q.chain)]
<1>1. CASE FlushSeal(n)
  <2>1. /\ queue[n] # << >> /\ q.t = "seal" /\ queue' = [queue EXCEPT ![n] = Tail(@)]
        /\ UNCHANGED <<settled, ctl, ps>>
    BY <1>1 DEF FlushSeal, netVars
  <2>2. Floats
    <3>1. DOMAIN queue = Node /\ IsSeq(queue[n])  BY Parts DEF QueueOK
    <3>2. ToSet(queue[n]) \subseteq {q} \cup ToSet(Tail(queue[n]))  BY <2>1, <3>1, TailHas
    <3> HIDE DEF q
    <3> QED BY <2>1, <3>1, <3>2 DEF Floats, Items
  <2> QED BY <2>1, <2>2, QuietLane
<1>2. CASE FlushEntries(n)
  <2>1. /\ queue[n] # << >> /\ q.t = "entries" /\ queue' = [queue EXCEPT ![n] = Tail(@)]
        /\ settled' = [settled EXCEPT ![n] = Append(@, q)] /\ UNCHANGED ctl
        /\ UNCHANGED ps \/ handleApplied(n, q.s, q.link[2])
    BY <1>2 DEF FlushEntries, netVars
  <2> HIDE DEF q
  <2>2. /\ \A k \in Node \ {n} : Items(k)' = Items(k)
        /\ Items(n) \subseteq {q} \cup Items(n)'
    BY <2>1, FloatsFlush DEF q
  <2>3. Floats  BY <2>1, <2>2 DEF Floats
  <2> QED BY <2>1, <2>3, QuietLane
<1>3. CASE FlushFloor(n)
  <2>1. /\ queue[n] # << >> /\ q.t = "floor" /\ queue' = [queue EXCEPT ![n] = Tail(@)]
        /\ settled' = [settled EXCEPT ![n] = Append(@, z)] /\ UNCHANGED <<ctl, ps>>
    BY <1>3 DEF FlushFloor, netVars
  <2>2. z.t = q.t /\ z.link = q.link /\ z.req = q.req  OBVIOUS
  <2> HIDE DEF q, z
  <2>3. /\ \A k \in Node \ {n} : Items(k)' = Items(k)
        /\ Items(n) \subseteq {q} \cup Items(n)' /\ z \in Items(n)'
    BY <2>1, FloatsFlush DEF q
  <2>4. ASSUME NEW l \in Link, NEW w \in Waiting(l) PROVE Carried(l, w)'
    <3>1. PICK e \in Items(l[1]) : e.t = "floor" /\ e.link = l /\ e.req = w.req
      BY DEF Waiting, Carried
    <3>2. l[1] \in Node  BY LinkEnds
    <3>3. \E d \in Items(l[1])' : d.t = "floor" /\ d.link = l /\ d.req = w.req
      <4>1. CASE e \in Items(l[1])'  BY <3>1, <4>1
      <4>2. CASE l[1] = n /\ e = q  BY <2>2, <2>3, <3>1, <4>2
      <4> QED BY <2>3, <3>1, <3>2, <4>1, <4>2
    <3> QED BY <3>3 DEF Carried
  <2>5. \A l \in Link : IsFiniteSet(ctl'[l]) /\ Slots(ps'[l], {}, Waiting(l))
    BY <2>1 DEF LaneInv
  <2> QED BY <2>4, <2>5, LaneStep
<1> QED BY <1>1, <1>2, <1>3

\* Retries and losses.
LEMMA ResendLane ==
  ASSUME Inv, LaneInv, NEW l \in Link,
         retry(l) \/ (\E r \in ps[l].reqs : race(l, r)) \/ (\E m \in ctl[l] : lose(l, m))
  PROVE  LaneInv'
<1>1. /\ UNCHANGED <<queue, settled, ps>>
      /\ \E c : c \subseteq ctl[l] \cup ps[l].reqs /\ ctl' = [ctl EXCEPT ![l] = c]
  BY DEF retry, race, lose
<1>2. \A k \in Link : IsFiniteSet(ps'[k].reqs)  BY <1>1 DEF LaneInv, Slots
<1>3. DOMAIN ctl = Link  BY Parts DEF CtlOK
<1>4. \A k \in Link : ctl'[k] \subseteq ctl[k] \cup {} \cup ps'[k].reqs  BY <1>1, <1>3
<1>5. \A k \in Link : IsFiniteSet(ctl'[k])  BY <1>2, <1>4, CtlFinite, FS_EmptySet
<1>6. \A k \in Link : SameWants(ps[k], ps'[k])  BY <1>1 DEF SameWants
<1> QED BY <1>1, <1>5, <1>6, FloatsSame, LaneAlike

\* The requests of a round.
LEMMA RoundSlots ==
  ASSUME LaneInv, NEW l \in Link, PeerOK(ps[l])
  PROVE  Slots(startHaveRound(l, ps[l]), {}, Waiting(l))
<1> DEFINE x == ps[l]
           y == startHaveRound(l, x)
           r == [t |-> "HAVE_GET", req |-> FreshReq(l, x)]
<1>1. /\ y.active = x.active /\ y.wantQueue = x.wantQueue /\ y.wanted = x.wanted
      /\ y.captured = x.captured /\ y.reqs = x.reqs \cup {r}
  BY DEF startHaveRound, PeerOK, PeerFields
<1>2. Slots(x, {}, Waiting(l)) /\ IsFiniteSet(x.reqs)  BY DEF LaneInv, Slots
<1> HIDE DEF x, y, r
<1>3. IsFiniteSet(y.reqs)  BY <1>1, <1>2, FS_AddElement
<1>4. Slots(y, {}, Waiting(l))  BY <1>1, <1>2, <1>3, SlotsKept
<1> QED BY <1>4 DEF y, x

\* antiEntropy and tick,
LEMMA RoundLane ==
  ASSUME Inv, LaneInv, NEW l \in Link, antiEntropy(l) \/ tick(l)
  PROVE  LaneInv'
<1> DEFINE y == startHaveRound(l, ps[l])
<1>1. /\ ps' = [ps EXCEPT ![l] = y] /\ SendRequests /\ UNCHANGED <<queue, settled>>
  BY DEF antiEntropy, tick
<1>2. Slots(y, {}, Waiting(l))  BY Parts, RoundSlots DEF PeersOK
<1> HIDE DEF y
<1>3. \A k \in Link : Slots(ps'[k], {}, Waiting(k)) /\ IsFiniteSet(ps'[k].reqs)
  BY <1>1, <1>2, LaneOne
<1>4. \A k \in Link : IsFiniteSet(ctl'[k])  BY <1>1, <1>3, SendFinite
<1> QED BY <1>1, <1>3, <1>4, FloatsSame, LaneKept

\* and a certificate.
LEMMA FinalityLane ==
  ASSUME Inv, LaneInv, NEW l \in Link, NEW m, Finality(l, m)
  PROVE  LaneInv'
<1>1. /\ ps' = [k \in Link |-> IF k[1] = l[1] /\ l[1] \notin cert
                               THEN startHaveRound(k, ps[k]) ELSE ps[k]]
      /\ Answer(l, m, {}) /\ UNCHANGED <<queue, settled>>
  BY DEF Finality
<1>2. \A k \in Link : Slots(ps'[k], {}, Waiting(k))
  <2>1. \A k \in Link : Slots(startHaveRound(k, ps[k]), {}, Waiting(k))
    BY Parts, RoundSlots DEF PeersOK
  <2>2. \A k \in Link : Slots(ps[k], {}, Waiting(k))  BY DEF LaneInv
  <2> QED BY <1>1, <2>1, <2>2
<1>3. \A k \in Link : IsFiniteSet(ps'[k].reqs)  BY <1>2 DEF Slots
<1>4. \A k \in Link : IsFiniteSet(ctl'[k])  BY <1>1, <1>3, AnswerFinite, FS_EmptySet
<1> QED BY <1>1, <1>2, <1>4, FloatsSame, LaneKept

\* serveHave captures finitely many pages.
LEMMA ServeHaveLane ==
  ASSUME Inv, LaneInv, NEW l \in Link, NEW m, serveHave(l, m)
  PROVE  LaneInv'
<1> DEFINE c == capture(l, m.req)
           x == ps[l]
           y == [x EXCEPT !.captured = c]
           as == UNION {k.pages : k \in c}
<1>1. /\ ps' = [ps EXCEPT ![l] = y] /\ Answer(l, m, as) /\ UNCHANGED <<queue, settled>>
  BY DEF serveHave
<1>2. Slots(x, {}, Waiting(l))  BY DEF LaneInv
<1>3. IsFiniteSet(paginateHave(l[1], m.req))
  <2> DEFINE heads == SetToSeq({s \in Stream : Contig(l[1], s) > 0})
             of == IF heads = << >> THEN 1 ELSE Len(heads)
             Page(i) ==
               [t |-> "HAVE", req |-> m.req, page |-> i, of |-> of, fgen |-> l[1] \in cert,
                census |-> [s \in Stream |-> Contig(l[1], s)],
                vector |-> IF heads = << >> THEN {}
                           ELSE {[s |-> heads[i], chain |-> log[l[1]][heads[i]]]}]
             f == [i \in 1..of |-> Page(i)]
  <2>1. paginateHave(l[1], m.req) = {Page(i) : i \in 1..of}  BY DEF paginateHave
  <2>2. of \in Nat
    <3>1. IsFiniteSet({s \in Stream : Contig(l[1], s) > 0})  BY Topology, FS_Subset
    <3>2. IsSeq(heads)  BY <3>1, SetSeq
    <3> QED BY <3>2 DEF IsSeq
  <2> HIDE DEF of, Page
  <2>3. IsFiniteSet(1..of)  BY <2>2, FS_Interval
  <2>4. IsFiniteSet({f[i] : i \in 1..of})  BY <2>3, ImageFinite
  <2>5. {f[i] : i \in 1..of} = {Page(i) : i \in 1..of}  OBVIOUS
  <2> QED BY <2>1, <2>4, <2>5
<1>4. IsFiniteSet(c) /\ \A k \in c : IsFiniteSet(k.pages)
  <2>1. CASE \E k \in x.captured : k.req = m.req
    <3>1. c = x.captured  BY <2>1 DEF capture
    <3> QED BY <1>2, <3>1 DEF Slots
  <2>2. CASE ~\E k \in x.captured : k.req = m.req
    <3> DEFINE e == [req |-> m.req, pages |-> paginateHave(l[1], m.req)]
    <3>1. c = {e}  BY <2>2 DEF capture
    <3>2. e.pages = paginateHave(l[1], m.req)  OBVIOUS
    <3> HIDE DEF c, e
    <3>3. IsFiniteSet(e.pages)  BY <1>3, <3>2
    <3>4. IsFiniteSet({e})  BY FS_Singleton
    <3> QED BY <3>1, <3>3, <3>4
  <2> QED BY <2>1, <2>2
<1>5. IsFiniteSet(as)
  <2> DEFINE f == [k \in c |-> k.pages]
             vs == {f[k] : k \in c}
  <2> HIDE DEF c
  <2>1. IsFiniteSet(vs)  BY <1>4, ImageFinite
  <2>2. \A v \in vs : IsFiniteSet(v)  BY <1>4
  <2>3. IsFiniteSet(UNION vs)  BY <2>1, <2>2, FS_UNION
  <2>4. UNION vs = as  OBVIOUS
  <2> QED BY <2>3, <2>4
<1> HIDE DEF c, as
<1>6. Slots(y, {}, Waiting(l))
  <2>1. PeerOK(x)  BY Parts DEF PeersOK
  <2> HIDE DEF x
  <2>2. /\ y.active = x.active /\ y.wantQueue = x.wantQueue /\ y.wanted = x.wanted
        /\ y.captured = c /\ y.reqs = x.reqs
    BY <2>1 DEF PeerOK, PeerFields
  <2> HIDE DEF y
  <2>3. Held(y) = Held(x) /\ Loose(y) = Loose(x)  BY <2>2 DEF Held, Loose
  <2>4. IsFiniteSet(y.captured) /\ \A k \in y.captured : IsFiniteSet(k.pages)
    BY <1>4, <2>2, Zenon
  <2>5. /\ y.active = x.active /\ y.wantQueue = x.wantQueue /\ y.wanted = x.wanted
        /\ y.reqs = x.reqs
    BY <2>2, Zenon
  <2> HIDE DEF c
  <2> QED BY <1>2, <2>3, <2>4, <2>5 DEF Slots
<1> HIDE DEF y, x
<1>7. \A k \in Link : Slots(ps'[k], {}, Waiting(k)) /\ IsFiniteSet(ps'[k].reqs)
  BY <1>1, <1>6, LaneOne
<1>8. \A k \in Link : IsFiniteSet(ctl'[k])  BY <1>1, <1>5, <1>7, AnswerFinite
<1> QED BY <1>1, <1>7, <1>8, FloatsSame, LaneKept

\* Answers of peers whose own requests do not change.
LEMMA ServeLane ==
  ASSUME Inv, LaneInv, NEW l \in Link, NEW m, Want(l, m) \/ serveProbe(l, m)
  PROVE  LaneInv'
<1>1. /\ UNCHANGED <<ps, queue, settled>>
      /\ \E a : Answer(l, m, {}) \/ Answer(l, m, {a})
  BY DEF Want, serveProbe
<1>2. \A k \in Link : IsFiniteSet(ps'[k].reqs)  BY <1>1 DEF LaneInv, Slots
<1>3. PICK as : IsFiniteSet(as) /\ Answer(l, m, as)  BY <1>1, FS_EmptySet, FS_Singleton
<1>4. \A k \in Link : IsFiniteSet(ctl'[k])  BY <1>2, <1>3, AnswerFinite
<1>5. \A k \in Link : SameWants(ps[k], ps'[k])  BY <1>1 DEF SameWants
<1> QED BY <1>1, <1>4, <1>5, FloatsSame, LaneAlike

\* A probe is satisfied; slots are WANTs.
LEMMA ProbeResLane ==
  ASSUME Inv, LaneInv, NEW l \in Link, NEW m, ProbeRes(l, m)
  PROVE  LaneInv'
<1> DEFINE x == ps[l]
           mine == {r \in x.reqs : r.t = "PROBE" /\ r.s = m.s}
           y == [x EXCEPT !.reqs = @ \ mine]
<1>1. ps' = [ps EXCEPT ![l] = y] /\ Answer(l, m, {}) /\ UNCHANGED <<queue, settled>>
  BY DEF ProbeRes
<1>2. Slots(x, {}, Waiting(l))  BY DEF LaneInv
<1>3. PeerOK(x)  BY Parts DEF PeersOK
<1> HIDE DEF x
<1>4. /\ y.active = x.active /\ y.wantQueue = x.wantQueue /\ y.wanted = x.wanted
      /\ y.captured = x.captured /\ y.reqs = x.reqs \ mine
  BY <1>3 DEF PeerOK, PeerFields
<1> HIDE DEF y
<1>5. IsFiniteSet(y.reqs)  BY <1>2, <1>4, FS_Subset DEF Slots
<1>6. x.reqs \cap x.active \subseteq y.reqs  BY <1>2, <1>4 DEF Slots
<1>7. Slots(y, {}, Waiting(l))  BY <1>2, <1>4, <1>5, <1>6, SlotsKept
<1>8. \A k \in Link : Slots(ps'[k], {}, Waiting(k)) /\ IsFiniteSet(ps'[k].reqs)
  BY <1>1, <1>7, LaneOne
<1>9. \A k \in Link : IsFiniteSet(ctl'[k])  BY <1>1, <1>8, AnswerFinite, FS_EmptySet
<1> QED BY <1>1, <1>8, <1>9, FloatsSame, LaneKept

\* onEntries leaves the slot to the callback.
LEMMA OnEntriesLane ==
  ASSUME Inv, LaneInv, NEW l \in Link, onEntries(l)
  PROVE  LaneInv'
<1> DEFINE n == l[1]
           k == Back(l)
           m == Head(lane[k])
           item == [t |-> "entries", link |-> l, req |-> m.req, s |-> m.s, to |-> m.to,
                    entries |-> m.entries, done |-> m.done]
<1>1. /\ \/ settled' = [settled EXCEPT ![n] = Append(@, item)] /\ UNCHANGED queue
         \/ queue' = [queue EXCEPT ![n] = Append(@, item)] /\ UNCHANGED settled
      /\ ps' = [ps EXCEPT ![l].known[m.s] = IF m.to > @ THEN m.to ELSE @,
                          ![k].pump = @ \/ ps[k].dirty # {}]
      /\ UNCHANGED ctl
  BY DEF onEntries
<1>2. n \in Node /\ k \in Link /\ k # l
  <2>1. n \in Node /\ k \in Link /\ k[1] = l[2] /\ l[1] # l[2]  BY LinkEnds
  <2> QED BY <2>1
<1> HIDE DEF item, m
<1>3. Floats  BY <1>1, <1>2, FloatsAdd
<1> HIDE DEF k
<1>4. \A j \in Link : SameWants(ps[j], ps'[j])
  <2> DEFINE x == [ps[l] EXCEPT !.known[m.s] = IF m.to > @ THEN m.to ELSE @]
             y == [ps[k] EXCEPT !.pump = @ \/ ps[k].dirty # {}]
  <2>1. ps' = [ps EXCEPT ![l] = x, ![k] = y]
    BY <1>1, <1>2, Parts DEF PeersOK, PeerOK, PeerFields
  <2>2. SameWants(ps[l], x)  BY Parts DEF PeersOK, PeerOK, PeerFields, SameWants
  <2>3. SameWants(ps[k], y)  BY <1>2, Parts DEF PeersOK, PeerOK, PeerFields, SameWants
  <2> HIDE DEF x, y
  <2>4. DOMAIN ps = Link  BY Parts DEF PeersOK
  <2>5. \A j \in Link : ps'[j] = IF j = k THEN y ELSE IF j = l THEN x ELSE ps[j]
    BY <1>2, <2>1, <2>4
  <2>6. \A j \in Link : SameWants(ps[j], ps[j])  BY DEF SameWants
  <2> QED BY <2>2, <2>3, <2>5, <2>6
<1>5. \A j \in Link : IsFiniteSet(ctl'[j])  BY <1>1 DEF LaneInv
<1> QED BY <1>3, <1>4, <1>5, LaneAlike

\* The vectors of a HAVE round are finitely many, of streams of the topic.
LEMMA VectorsOK ==
  ASSUME Inv, NEW l \in Link, NEW m, HavePage(l, m)
  PROVE  LET got == {q \in ps[l].pages : q.page # m.page} \cup {m}
             ws == IF l[1] \notin cert /\ m.fgen THEN {} ELSE UNION {q.vector : q \in got}
         IN IsFiniteSet(ws) /\ \A w \in ws : w.s \in Stream /\ w.chain \in Seq(Content)
<1> DEFINE got == {q \in ps[l].pages : q.page # m.page} \cup {m}
           ws == IF l[1] \notin cert /\ m.fgen THEN {} ELSE UNION {q.vector : q \in got}
           f == [q \in got |-> q.vector]
           vs == {f[q] : q \in got}
<1>1. PageOK(m)
  <2>1. m \in ctl[Back(l)] /\ m.t = "HAVE" /\ Back(l) \in Link
    BY LinkEnds DEF HavePage, Takes
  <2>2. MsgOK(World, Back(l), m)  BY <2>1, Parts DEF CtlOK
  <2> QED BY <2>1, <2>2 DEF MsgOK, ReqOK
<1>2. IsFiniteSet(got) /\ \A p \in got : PageOK(p)
  <2> DEFINE keep == {q \in ps[l].pages : q.page # m.page}
  <2>1. IsFiniteSet(keep) /\ \A p \in keep : PageOK(p)
    BY Parts, FS_Subset DEF PeersOK, PeerOK
  <2>2. IsFiniteSet(keep \cup {m})  BY <2>1, FS_AddElement
  <2> QED BY <1>1, <2>1, <2>2
<1> HIDE DEF got
<1>3. IsFiniteSet(vs)  BY <1>2, ImageFinite
<1>4. \A v \in vs : IsFiniteSet(v)  BY <1>2 DEF PageOK
<1>5. IsFiniteSet(UNION vs)  BY <1>3, <1>4, FS_UNION
<1>6. UNION vs = UNION {q.vector : q \in got}  OBVIOUS
<1>7. IsFiniteSet(ws)  BY <1>5, <1>6, FS_EmptySet
<1>8. \A w \in ws : w.s \in Stream /\ w.chain \in Seq(Content)  BY <1>2 DEF PageOK
<1> HIDE DEF ws
<1>9. IsFiniteSet(ws) /\ \A w \in ws : w.s \in Stream /\ w.chain \in Seq(Content)
  BY <1>7, <1>8
<1> QED BY <1>9 DEF ws, got

\* A HAVE page: the round it completes moves the want lane by queueWant only.
LEMMA HavePageLane ==
  ASSUME Inv, LaneInv, NEW l \in Link, NEW m, HavePage(l, m)
  PROVE  LaneInv'
<1> DEFINE n == l[1]
           x == ps[l]
           got == {q \in x.pages : q.page # m.page} \cup {m}
           whole == [x EXCEPT !.expected = 0, !.pages = {},
                              !.reqs = @ \ {[t |-> "HAVE_GET", req |-> m.req]}]
           held == n \notin cert /\ m.fgen
           ws == IF held THEN {} ELSE UNION {q.vector : q \in got}
           a == compareAll(l, whole, ws)
           seals == {SealItem(l, s) : s \in a.seals}
           y == [x EXCEPT !.pages = got]
           as == IF /\ m.req = x.expected /\ Cardinality(got) >= m.of
                    /\ n \in cert /\ ~m.fgen
                 THEN {[t |-> "FINALITY"]} ELSE {}
<1>1. PeerOK(x) /\ n \in Node /\ Slots(x, {}, Waiting(l))
  BY Parts, LinkEnds DEF PeersOK, LaneInv
<1>2. IsFiniteSet(ws) /\ \A w \in ws : w.s \in Stream /\ w.chain \in Seq(Content)
  BY VectorsOK
<1>3. /\ \/ UNCHANGED <<ps, queue>>
         \/ ps' = [ps EXCEPT ![l] = y] /\ UNCHANGED queue
         \/ /\ ps' = [ps EXCEPT ![l] = a.x]
            /\ queue' = [queue EXCEPT ![n] = @ \o SetToSeq(seals)]
      /\ Answer(l, m, as) /\ UNCHANGED settled
  BY DEF HavePage
<1>4. IsFiniteSet(as)  BY FS_EmptySet, FS_Singleton
<1>5. PeerOK(whole)  BY <1>1, FS_EmptySet DEF PeerOK, PeerFields
<1>6. Slots(whole, {}, Waiting(l))
  <2> DEFINE h == [t |-> "HAVE_GET", req |-> m.req]
  <2>1. /\ whole.active = x.active /\ whole.wantQueue = x.wantQueue /\ whole.wanted = x.wanted
        /\ whole.captured = x.captured /\ whole.reqs = x.reqs \ {h} /\ h.t = "HAVE_GET"
    BY <1>1 DEF PeerOK, PeerFields
  <2> HIDE DEF whole, h
  <2>2. IsFiniteSet(whole.reqs)  BY <1>1, <2>1, FS_Subset DEF Slots
  <2>3. \A w \in x.active : w.t = "WANT"  BY <1>1 DEF Slots
  <2>4. x.reqs \cap x.active \subseteq whole.reqs  BY <2>1, <2>3
  <2> QED BY <1>1, <2>1, <2>2, <2>4, SlotsKept
<1>7. Slots(y, {}, Waiting(l))
  <2>1. SameWants(x, y)  BY <1>1 DEF SameWants, PeerOK, PeerFields
  <2> HIDE DEF y
  <2> QED BY <1>1, <2>1, SlotsSame
<1> HIDE DEF whole, ws, as, got
<1>8. RoundAt(a)  BY <1>2, <1>5, Parts, compareAllOK
<1>9. Slots(a.x, {}, Waiting(l))  BY <1>2, <1>5, <1>6, compareAllSlots
<1> HIDE DEF a, y, x
<1>10. IsFiniteSet(seals)
  <2> DEFINE f == [s \in a.seals |-> SealItem(l, s)]
  <2>1. IsFiniteSet(a.seals)  BY <1>8, Topology, FS_Subset DEF RoundAt
  <2>2. IsFiniteSet({f[s] : s \in a.seals})  BY <2>1, ImageFinite
  <2>3. {f[s] : s \in a.seals} = seals  OBVIOUS
  <2> QED BY <2>2, <2>3
<1> HIDE DEF seals
<1>11. Floats
  <2>1. CASE UNCHANGED queue  BY <1>3, <2>1, FloatsSame
  <2>2. CASE queue' = [queue EXCEPT ![n] = @ \o SetToSeq(seals)]
    <3> DEFINE more == SetToSeq(seals)
    <3>1. IsSeq(more)  BY <1>10, SetSeq
    <3> HIDE DEF more
    <3>2. DOMAIN queue = Node /\ IsSeq(queue[n])  BY <1>1, Parts DEF QueueOK
    <3>3. ToSet(queue[n]) \subseteq ToSet(queue[n] \o more)  BY <3>1, <3>2, CatHas
    <3>4. \A k \in Node : queue'[k] = IF k = n THEN queue[n] \o more ELSE queue[k]
      BY <2>2, <3>2 DEF more
    <3>5. \A k \in Node : ToSet(queue[k]) \subseteq ToSet(queue'[k])  BY <3>3, <3>4
    <3>6. \A k \in Node : settled'[k] = settled[k]  BY <1>3
    <3> QED BY <3>5, <3>6 DEF Floats, Items
  <2> QED BY <1>3, <2>1, <2>2
<1>12. \A k \in Link : Slots(ps'[k], {}, Waiting(k)) /\ IsFiniteSet(ps'[k].reqs)
  <2>1. CASE UNCHANGED ps  BY <2>1 DEF LaneInv, Slots
  <2>2. CASE ps' = [ps EXCEPT ![l] = y]  BY <1>7, <2>2, LaneOne
  <2>3. CASE ps' = [ps EXCEPT ![l] = a.x]  BY <1>9, <2>3, LaneOne
  <2> QED BY <1>3, <2>1, <2>2, <2>3
<1>13. \A k \in Link : IsFiniteSet(ctl'[k])  BY <1>3, <1>4, <1>12, AnswerFinite
<1> QED BY <1>11, <1>12, <1>13, LaneKept

\* A floor that fits leaves the slot without a request until its callback has run.
LEMMA TruncatedLane ==
  ASSUME Inv, LaneInv, NEW l \in Link, NEW m, Truncated(l, m)
  PROVE  LaneInv'
<1> DEFINE n == l[1]
           x == ps[l]
           w == CHOOSE w \in x.active : w.req = m.req
           y == finishWant(l, x, m.req)
           z == [x EXCEPT !.reqs = @ \ {w}]
           q == [t |-> "floor", link |-> l, req |-> m.req, s |-> m.s,
                 chain |-> m.chain, peerHead |-> x.known[m.s], refused |-> FALSE]
<1>1. /\ \/ UNCHANGED <<ps, queue>>
         \/ ps' = [ps EXCEPT ![l] = y] /\ UNCHANGED queue
         \/ /\ \E v \in x.active : v.req = m.req
            /\ ps' = [ps EXCEPT ![l] = z] /\ queue' = [queue EXCEPT ![n] = Append(@, q)]
      /\ Answer(l, m, {}) /\ UNCHANGED settled
  BY DEF Truncated
<1>2. PeerOK(x) /\ n \in Node /\ Slots(x, {}, Waiting(l))
  BY Parts, LinkEnds DEF PeersOK, LaneInv
<1>3. CASE UNCHANGED <<ps, queue>>
  <2>1. \A k \in Link : Slots(ps'[k], {}, Waiting(k)) /\ IsFiniteSet(ps'[k].reqs)
    BY <1>3 DEF LaneInv, Slots
  <2>2. \A k \in Link : IsFiniteSet(ctl'[k])  BY <1>1, <2>1, AnswerFinite, FS_EmptySet
  <2> QED BY <1>1, <1>3, <2>1, <2>2, FloatsSame, LaneKept
<1>4. CASE ps' = [ps EXCEPT ![l] = y] /\ UNCHANGED queue
  <2>1. Slots(y, {}, Waiting(l))
    <3>1. Slots(y, {}, {v \in Waiting(l) : v.req # m.req})  BY <1>2, FinishWantSlots
    <3> HIDE DEF y
    <3>2. Loose(y) \cap {v \in Waiting(l) : v.req # m.req} \subseteq Waiting(l)  OBVIOUS
    <3> QED BY <3>1, <3>2, SlotsBound
  <2> HIDE DEF y
  <2>2. \A k \in Link : Slots(ps'[k], {}, Waiting(k)) /\ IsFiniteSet(ps'[k].reqs)
    BY <1>4, <2>1, LaneOne
  <2>3. \A k \in Link : IsFiniteSet(ctl'[k])  BY <1>1, <2>2, AnswerFinite, FS_EmptySet
  <2> QED BY <1>1, <1>4, <2>2, <2>3, FloatsSame, LaneKept
<1>5. CASE /\ \E v \in x.active : v.req = m.req
           /\ ps' = [ps EXCEPT ![l] = z] /\ queue' = [queue EXCEPT ![n] = Append(@, q)]
  <2>1. PICK d : d = w /\ d.req = m.req  BY <1>5
  <2> DEFINE L == Waiting(l) \cup {d}
  <2>2. q.t = "floor" /\ q.link = l /\ q.req = m.req  OBVIOUS
  <2> HIDE DEF q, w
  <2>3. Floats /\ q \in Items(n)'  BY <1>1, <1>2, <1>5, FloatsAdd
  <2>4. /\ z.active = x.active /\ z.wantQueue = x.wantQueue /\ z.wanted = x.wanted
        /\ z.captured = x.captured /\ z.reqs = x.reqs \ {d}
    BY <1>2, <2>1 DEF PeerOK, PeerFields
  <2> HIDE DEF z, x
  <2>5. Slots(z, {}, L)
    <3>1. Held(z) = Held(x) /\ Loose(z) \subseteq Loose(x) \cup {d}  BY <2>4 DEF Held, Loose
    <3>2. IsFiniteSet(z.reqs)  BY <1>2, <2>4, FS_Subset DEF Slots
    <3> QED BY <1>2, <2>4, <3>1, <3>2 DEF Slots
  <2>6. \A v \in L : Carried(l, v)'
    <3>1. Carried(l, d)'  BY <2>1, <2>2, <2>3 DEF Carried
    <3>2. \A v \in Waiting(l) : Carried(l, v)'  BY <1>2, <2>3 DEF Waiting, Carried, Floats
    <3> QED BY <3>1, <3>2
  <2>7. ASSUME NEW k \in Link
        PROVE  \E M : Slots(ps'[k], {}, M) /\ \A v \in M : Carried(k, v)'
    <3>1. DOMAIN ps = Link  BY Parts DEF PeersOK
    <3>2. CASE k = l
      <4>1. ps'[k] = z  BY <1>5, <3>1, <3>2
      <4> HIDE DEF L
      <4> QED BY <2>5, <2>6, <3>2, <4>1
    <3>3. CASE k # l
      <4>1. ps'[k] = ps[k]  BY <1>5, <3>1, <3>3
      <4>2. Slots(ps[k], {}, Waiting(k)) /\ k[1] \in Node  BY LinkEnds DEF LaneInv
      <4>3. \A v \in Waiting(k) : Carried(k, v)'
        BY <2>3, <4>2 DEF Waiting, Carried, Floats
      <4> QED BY <4>1, <4>2, <4>3
    <3> QED BY <3>2, <3>3
  <2>8. \A k \in Link : IsFiniteSet(ps'[k].reqs)  BY <2>7 DEF Slots
  <2>9. \A k \in Link : IsFiniteSet(ctl'[k])  BY <1>1, <2>8, AnswerFinite, FS_EmptySet
  <2> QED BY <2>7, <2>9, LaneStep
<1> QED BY <1>1, <1>3, <1>4, <1>5

\* pumpDirty takes no more than the data lane has room for.
LEMMA PumpDirtyLane ==
  ASSUME Inv, LaneInv, NEW l \in Link, pumpDirty(l), \A k \in Link : Len(lane[k]) <= LaneCap
  PROVE  LaneInv' /\ \A k \in Link : Len(lane'[k]) <= LaneCap
<1> DEFINE a == pumpAll(l)
<1>1. /\ ps' = [ps EXCEPT ![l] = a.x] /\ lane' = [lane EXCEPT ![l] = @ \o a.out]
      /\ UNCHANGED <<queue, settled, ctl>>
  BY DEF pumpDirty
<1>2. PumpSlots(l, a, Waiting(l))  BY pumpAllSlots DEF LaneInv
<1>3. IsSeq(a.out)
  <2>1. PeerOK(ps[l])  BY Parts DEF PeersOK
  <2> QED BY <2>1, Parts, pumpAllOK DEF PumpAt
<1> HIDE DEF a
<1>4. \A k \in Link : Slots(ps'[k], {}, Waiting(k))  BY <1>1, <1>2, LaneOne DEF PumpSlots
<1>5. \A k \in Link : IsFiniteSet(ctl'[k])  BY <1>1 DEF LaneInv
<1>6. LaneInv'  BY <1>1, <1>4, <1>5, FloatsSame, LaneKept
<1>7. DOMAIN lane = Link /\ IsSeq(lane[l])  BY Parts DEF LaneOK
<1>8. Len(lane[l] \o a.out) <= LaneCap
  <2>1. PICK S : lane[l] \in Seq(S)  BY <1>7 DEF IsSeq
  <2>2. PICK T : a.out \in Seq(T)  BY <1>3 DEF IsSeq
  <2>3. lane[l] \in Seq(S \cup T) /\ a.out \in Seq(S \cup T)  BY <2>1, <2>2
  <2>4. Len(lane[l] \o a.out) = Len(lane[l]) + Len(a.out)  BY <2>3, ConcatProperties
  <2> QED BY <1>2, <2>4 DEF PumpSlots
<1>9. \A k \in Link : Len(lane'[k]) <= LaneCap  BY <1>1, <1>7, <1>8
<1> QED BY <1>6, <1>9

\* onEntries' callback frees the slot, and asks again for what is still missing.
LEMMA CompleteEntriesLane ==
  ASSUME Inv, LaneInv, NEW n \in Node, CompleteEntries(n)
  PROVE  LaneInv'
<1> DEFINE q == Head(settled[n])
           l == q.link
           x == ps[l]
           mine == q.done /\ \E w \in x.active : w.req = q.req
           y == finishWant(l, x, q.req)
           seen == [y EXCEPT !.progress[q.s] = Contig(n, q.s)]
           ended == [y EXCEPT !.progress[q.s] = None, !.stalled = @ \ {q.s}]
           stuck == [seen EXCEPT !.stalled = @ \cup {q.s}]
           again == [seen EXCEPT !.stalled = @ \ {q.s}]
           z == IF ~mine THEN x
                ELSE IF q.s \in sealed[n] \/ q.to <= Contig(n, q.s) THEN ended
                ELSE IF Stuck(l, q.s) THEN stuck ELSE queueWant(l, again, q.s)
<1>1. /\ settled[n] # << >> /\ q.t = "entries" /\ settled' = [settled EXCEPT ![n] = Tail(@)]
      /\ ps' = [ps EXCEPT ![l] = z] /\ SendRequests /\ UNCHANGED queue
  BY DEF CompleteEntries
<1>2. DoneOK(n, q)  BY <1>1, Parts, SettledPop
<1>3. l \in Link /\ q.s \in Stream  BY <1>2 DEF DoneOK
<1>4. Floats  BY <1>1, FloatsPop
<1> HIDE DEF q, l
<1>5. PeerOK(x) /\ Slots(x, {}, Waiting(l))  BY <1>3, Parts DEF PeersOK, LaneInv
<1>6. PeerOK(y)  BY <1>3, <1>5, Parts, FinishWantOK
<1>7. Slots(y, {}, Waiting(l))
  <2> DEFINE M == {v \in Waiting(l) : v.req # q.req}
  <2>1. Slots(y, {}, M)  BY <1>3, <1>5, FinishWantSlots
  <2> HIDE DEF y
  <2>2. Loose(y) \cap M \subseteq Waiting(l)  OBVIOUS
  <2> HIDE DEF M
  <2> QED BY <2>1, <2>2, SlotsBound
<1> HIDE DEF y, x, mine
<1>8. PeerOK(again)  BY <1>6 DEF PeerOK, PeerFields
<1>9. SameWants(y, ended) /\ SameWants(y, stuck) /\ SameWants(y, again)
  BY <1>6 DEF PeerOK, PeerFields, SameWants
<1> HIDE DEF ended, stuck, again
<1>10. /\ Slots(ended, {}, Waiting(l)) /\ Slots(stuck, {}, Waiting(l))
       /\ Slots(again, {}, Waiting(l))
  BY <1>7, <1>9, SlotsSame
<1>11. Slots(queueWant(l, again, q.s), {}, Waiting(l))
  BY <1>3, <1>8, <1>10, QueueWantSlots
<1>12. Slots(z, {}, Waiting(l))  BY <1>5, <1>10, <1>11
<1> HIDE DEF z
<1>13. \A k \in Link : Slots(ps'[k], {}, Waiting(k)) /\ IsFiniteSet(ps'[k].reqs)
  BY <1>1, <1>3, <1>12, LaneOne
<1>14. \A k \in Link : IsFiniteSet(ctl'[k])  BY <1>1, <1>13, SendFinite
<1> QED BY <1>4, <1>13, <1>14, LaneKept

\* onTruncated's callback frees the slot its floor was for, and no other.
LEMMA CompleteFloorLane ==
  ASSUME Inv, LaneInv, NEW n \in Node, CompleteFloor(n)
  PROVE  LaneInv'
<1> DEFINE q == Head(settled[n])
           l == q.link
           x == ps[l]
           M == {v \in Waiting(l) : v.req # q.req}
           y == finishWant(l, x, q.req)
           z == IF q.refused \/ Contig(n, q.s) >= q.peerHead \/ q.req = 0
                THEN y ELSE queueWant(l, y, q.s)
<1>1. /\ settled[n] # << >> /\ settled' = [settled EXCEPT ![n] = Tail(@)]
      /\ ps' = [ps EXCEPT ![l] = z] /\ SendRequests /\ UNCHANGED queue
  BY DEF CompleteFloor
<1>2. DoneOK(n, q)  BY <1>1, Parts, SettledPop
<1>3. l \in Link /\ q.s \in Stream  BY <1>2 DEF DoneOK
<1>4. \A k \in Node : \A e \in Items(k) : e = q \/ e \in Items(k)'
  <2>1. DOMAIN settled = Node /\ IsSeq(settled[n])  BY Parts DEF SettledOK
  <2>2. ToSet(settled[n]) \subseteq {q} \cup ToSet(Tail(settled[n]))  BY <1>1, <2>1, TailHas
  <2> HIDE DEF q
  <2> QED BY <1>1, <2>1, <2>2 DEF Items
<1> HIDE DEF q, l
<1>5. PeerOK(x) /\ Slots(x, {}, Waiting(l))  BY <1>3, Parts DEF PeersOK, LaneInv
<1>6. PeerOK(y)  BY <1>3, <1>5, Parts, FinishWantOK
<1>7. Slots(y, {}, M)  BY <1>3, <1>5, FinishWantSlots
<1> HIDE DEF x, y, M
<1>8. Slots(z, {}, M)
  <2>1. Slots(queueWant(l, y, q.s), {}, M)  BY <1>3, <1>6, <1>7, QueueWantSlots
  <2> QED BY <1>7, <2>1
<1> HIDE DEF z
<1>9. DOMAIN ps = Link  BY Parts DEF PeersOK
<1>10. ASSUME NEW k \in Link
       PROVE  \E L : Slots(ps'[k], {}, L) /\ \A v \in L : Carried(k, v)'
  <2>1. k[1] \in Node  BY LinkEnds
  <2>2. CASE k = l
    <3>1. ps'[k] = z  BY <1>1, <1>9, <2>2
    <3>2. ASSUME NEW v \in M PROVE Carried(k, v)'
      <4>1. PICK e \in Items(k[1]) : e.t = "floor" /\ e.link = k /\ e.req = v.req
        BY <2>2, <3>2 DEF M, Waiting, Carried
      <4>2. v.req # q.req  BY <3>2 DEF M
      <4>3. e \in Items(k[1])'  BY <1>4, <2>1, <4>1, <4>2
      <4> QED BY <4>1, <4>3 DEF Carried
    <3> QED BY <1>8, <3>1, <3>2
  <2>3. CASE k # l
    <3>1. ps'[k] = ps[k]  BY <1>1, <1>9, <2>3
    <3>2. Slots(ps[k], {}, Waiting(k))  BY DEF LaneInv
    <3>3. ASSUME NEW v \in Waiting(k) PROVE Carried(k, v)'
      <4>1. PICK e \in Items(k[1]) : e.t = "floor" /\ e.link = k /\ e.req = v.req
        BY <3>3 DEF Waiting, Carried
      <4>2. e # q  BY <2>3, <4>1 DEF l
      <4>3. e \in Items(k[1])'  BY <1>4, <2>1, <4>1, <4>2
      <4> QED BY <4>1, <4>3 DEF Carried
    <3> QED BY <3>1, <3>2, <3>3
  <2> QED BY <2>2, <2>3
<1>11. \A k \in Link : IsFiniteSet(ps'[k].reqs)  BY <1>10 DEF Slots
<1>12. \A k \in Link : IsFiniteSet(ctl'[k])  BY <1>1, <1>11, SendFinite
<1> QED BY <1>10, <1>12, LaneStep

\* A new session has no slots.
LEMMA ReadySlots ==
  ASSUME NEW p
  PROVE  Slots(Ready(p), {}, {}) /\ IsFiniteSet(Ready(p).reqs)
<1> DEFINE x == Ready(p)
           h == [t |-> "HAVE_GET", req |-> 1]
<1>1. /\ x.active = {} /\ x.wantQueue = << >> /\ x.wanted = {} /\ x.captured = {}
      /\ x.reqs = {h}
  BY DEF Ready, NewPeer
<1> HIDE DEF x
<1>2. IsFiniteSet({h})  BY FS_Singleton
<1> HIDE DEF h
<1>3. Held(x) = {} /\ Loose(x) = {}  BY <1>1 DEF Held, Loose
<1>4. IsFiniteSet({}) /\ Cardinality({}) = 0  BY FS_EmptySet
<1>5. 0 <= MAX_WANT_CONCURRENT  BY Sizes
<1>6. ToSet(x.wantQueue) = {} /\ Len(x.wantQueue) = 0  BY <1>1, NilSet
<1>7. Slots(x, {}, {})  BY <1>1, <1>2, <1>3, <1>4, <1>5, <1>6 DEF Slots
<1> QED BY <1>1, <1>2, <1>7 DEF x

\* Floors of sessions that stay up are not touched when another one is dialled again.
LEMMA ReopenLane ==
  ASSUME Inv, LaneInv, NEW l \in Link, NEW down, reopen(l, down)
  PROVE  LaneInv'
<1> DEFINE both == IF down THEN {k \in Link : l[1] \in {k[1], k[2]}} ELSE {l, Back(l)}
           dead(seq) == [i \in DOMAIN seq |-> IF seq[i].link \in both
                           THEN [seq[i] EXCEPT !.req = 0] ELSE seq[i]]
<1>1. /\ ps' = [k \in Link |-> IF k \in both THEN Ready(ps[k].proto) ELSE ps[k]]
      /\ ctl' = [k \in Link |-> IF k \in both THEN ps'[k].reqs ELSE ctl[k]]
      /\ queue' = [n \in Node |-> IF down /\ n = l[1] THEN << >> ELSE dead(queue[n])]
      /\ settled' = [n \in Node |-> IF down /\ n = l[1] THEN << >> ELSE dead(settled[n])]
  BY DEF reopen
<1>2. \A k \in Link : down /\ k[1] = l[1] => k \in both  OBVIOUS
<1>3. \A seq : \A e \in ToSet(seq) : e.link \notin both => e \in ToSet(dead(seq))
  BY DEF ToSet
<1> HIDE DEF both, dead
<1>4. ASSUME NEW k \in Link
      PROVE  \E L : Slots(ps'[k], {}, L) /\ \A v \in L : Carried(k, v)'
  <2>1. CASE k \in both
    <3>1. ps'[k] = Ready(ps[k].proto)  BY <1>1, <2>1
    <3> QED BY <3>1, ReadySlots
  <2>2. CASE k \notin both
    <3>1. ps'[k] = ps[k] /\ Slots(ps[k], {}, Waiting(k))  BY <1>1, <2>2 DEF LaneInv
    <3>2. k[1] \in Node /\ ~(down /\ k[1] = l[1])  BY <1>2, <2>2, LinkEnds
    <3>3. queue'[k[1]] = dead(queue[k[1]]) /\ settled'[k[1]] = dead(settled[k[1]])
      BY <1>1, <3>2
    <3>4. \A e \in Items(k[1]) : e.link = k => e \in Items(k[1])'
      BY <1>3, <2>2, <3>3 DEF Items
    <3>5. \A v \in Waiting(k) : Carried(k, v)'  BY <3>4 DEF Waiting, Carried
    <3> QED BY <3>1, <3>5
  <2> QED BY <2>1, <2>2
<1>5. \A k \in Link : IsFiniteSet(ctl'[k])
  <2>1. \A k \in Link : IsFiniteSet(ps'[k].reqs)  BY <1>4 DEF Slots
  <2> QED BY <1>1, <2>1 DEF LaneInv
<1> QED BY <1>4, <1>5, LaneStep

LEMMA InitLane == Init => LaneInv
<1> SUFFICES ASSUME Init PROVE LaneInv  OBVIOUS
<1>1. PICK p : ps = [l \in Link |-> Ready(p)]  BY DEF Init
<1>2. ctl = [l \in Link |-> ps[l].reqs]  BY DEF Init
<1>3. Slots(Ready(p), {}, {}) /\ IsFiniteSet(Ready(p).reqs)  BY ReadySlots
<1>4. ASSUME NEW l \in Link PROVE Slots(ps[l], {}, Waiting(l)) /\ IsFiniteSet(ctl[l])
  <2>1. ps[l] = Ready(p) /\ ctl[l] = Ready(p).reqs  BY <1>1, <1>2
  <2>2. Slots(Ready(p), {}, Waiting(l))  BY <1>3, SlotsBound
  <2> QED BY <1>3, <2>1, <2>2
<1> QED BY <1>4 DEF LaneInv
--------------------------------------------------------------------------------
(* The type of a state *)

\* Entries parked as pending are at most PENDING_CAP,
Parked(P) == IsFiniteSet(P) /\ Cardinality(P) <= PENDING_CAP
ParkedOK == \A n \in Node, s \in Stream : Parked(pending[n][s])

\* and messages on a data lane at most LaneCap.
LaneBound == \A l \in Link : Len(lane[l]) <= LaneCap

LEMMA ParkedLess ==
  ASSUME NEW P, Parked(P), NEW Q, Q \subseteq P
  PROVE  Parked(Q)
<1>1. IsFiniteSet(Q) /\ Cardinality(Q) <= Cardinality(P)  BY FS_Subset DEF Parked
<1>2. Cardinality(Q) \in Nat /\ Cardinality(P) \in Nat /\ PENDING_CAP \in Nat
  BY <1>1, FS_CardinalityType, Sizes DEF Parked
<1>3. Cardinality(P) <= PENDING_CAP  BY DEF Parked
<1>4. \A i, j, k \in Nat : i <= j /\ j <= k => i <= k  OBVIOUS
<1>5. Cardinality(Q) <= PENDING_CAP  BY <1>1, <1>2, <1>3, <1>4
<1> QED BY <1>1, <1>5 DEF Parked

LEMMA drainParked == \A h, P : drain(h, P).pending \subseteq P
BY DEF drain

\* processExternal parks an entry only below the cap.
LEMMA ApplyParked ==
  ASSUME NEW n, NEW s, NEW v, ViewOK(n, s, v), Parked(v.pending), NEW e
  PROVE  Parked(applyExternal(n, s, v, e).pending)
<1> DEFINE fork == [v EXCEPT !.seal = TRUE]
           more == [v EXCEPT !.pending = @ \cup {e}]
           u == drain(e, v.pending)
<1>1. \/ applyExternal(n, s, v, e) \in {v, fork, u}
      \/ applyExternal(n, s, v, e) = more /\ ~(Cardinality(v.pending) >= PENDING_CAP)
  BY DEF applyExternal
<1>2. fork.pending = v.pending /\ more.pending = v.pending \cup {e}  BY DEF ViewOK
<1>3. Parked(u.pending)  BY drainParked, ParkedLess
<1>4. ASSUME ~(Cardinality(v.pending) >= PENDING_CAP) PROVE Parked(v.pending \cup {e})
  <2>1. /\ IsFiniteSet(v.pending) /\ Cardinality(v.pending) \in Nat /\ PENDING_CAP \in Nat
    BY FS_CardinalityType, Sizes DEF Parked
  <2>2. CASE e \in v.pending
    <3>1. v.pending \cup {e} = v.pending  BY <2>2
    <3> QED BY <3>1
  <2>3. CASE e \notin v.pending
    <3>1. /\ IsFiniteSet(v.pending \cup {e})
          /\ Cardinality(v.pending \cup {e}) = Cardinality(v.pending) + 1
      BY <2>1, <2>3, FS_AddElement
    <3> QED BY <1>4, <2>1, <3>1 DEF Parked
  <2> QED BY <2>2, <2>3
<1> HIDE DEF fork, more, u
<1> QED BY <1>1, <1>2, <1>3, <1>4

LEMMA applyAllParked ==
  ASSUME LogInv, ParkedOK, NEW n \in Node, NEW s \in Stream,
         NEW es, AllBacked(World, n, s, es)
  PROVE  Parked(applyAll(n, s, es).pending)
<1> DEFINE N == Len(es)
           b == View(n, s)
<1>1. IsSeq(es) /\ N \in Nat /\ \A i \in 1..N : Backed(World, n, s, es[i])
  BY DEF AllBacked, IsSeq, ToSet
<1>2. PICK G : /\ G[0] = b
               /\ \A i \in 1..N : G[i] = applyExternal(n, s, G[i - 1], es[i])
               /\ applyAll(n, s, es) = G[N]
  BY <1>1, applyAllFold
<1>3. ViewOK(n, s, b) /\ Parked(b.pending)
  <2>1. b.pending = pending[n][s]  BY DEF View
  <2>2. ViewOK(n, s, b)  BY ViewFirst
  <2> QED BY <2>1, <2>2 DEF ParkedOK
<1> HIDE DEF b, N
<1> DEFINE S == {i \in Nat : i <= N => ViewOK(n, s, G[i]) /\ Parked(G[i].pending)}
<1>4. 0 \in S  BY <1>2, <1>3
<1>5. ASSUME NEW i \in Nat, i \in S PROVE i + 1 \in S
  <2>1. CASE i + 1 <= N
    <3>1. i + 1 \in 1..N /\ (i + 1) - 1 = i /\ i <= N  BY <1>1, <2>1
    <3>2. /\ ViewOK(n, s, G[i]) /\ Parked(G[i].pending)
          /\ Backed(World, n, s, es[i + 1])
      BY <1>1, <1>5, <3>1
    <3>3. /\ ViewOK(n, s, applyExternal(n, s, G[i], es[i + 1]))
          /\ Parked(applyExternal(n, s, G[i], es[i + 1]).pending)
      BY <3>2, ApplyOK, ApplyParked DEF LogInv
    <3>4. G[i + 1] = applyExternal(n, s, G[i], es[i + 1])  BY <1>2, <3>1
    <3> QED BY <3>3, <3>4
  <2> QED BY <2>1
<1> HIDE DEF S
<1>6. N \in S  BY <1>1, <1>4, <1>5, NatInduct
<1> QED BY <1>1, <1>2, <1>6 DEF S

\* Entries are parked by a flush only,
LEMMA ParkedStep ==
  ASSUME Inv, ParkedOK, UNCHANGED pending \/ \E n \in Node : FlushEntries(n) \/ FlushFloor(n)
  PROVE  ParkedOK'
<1>1. ASSUME NEW n \in Node, NEW s \in Stream, NEW P, Parked(P),
             pending' = [pending EXCEPT ![n][s] = P]
      PROVE  ParkedOK'
  <2>1. pending \in [Node -> [Stream -> SUBSET Seq(Content)]]  BY Parts DEF LogInv, PendingOK
  <2>2. \A k \in Node, t \in Stream : pending'[k][t] \in {P, pending[k][t]}  BY <1>1, <2>1
  <2> QED BY <1>1, <2>2 DEF ParkedOK
<1>2. CASE UNCHANGED pending  BY <1>2 DEF ParkedOK
<1>3. ASSUME NEW n \in Node, queue[n] # << >> PROVE ItemOK(World, n, Head(queue[n]))
  BY <1>3, Parts, QueuePop
<1>4. ASSUME NEW n \in Node, FlushEntries(n) PROVE ParkedOK'
  <2> DEFINE q == Head(queue[n])
             v == applyAll(n, q.s, q.entries)
  <2>1. /\ queue[n] # << >> /\ q.t = "entries"
        /\ pending' = [pending EXCEPT ![n][q.s] = v.pending]
    BY <1>4, Zenon DEF FlushEntries, SetStream
  <2>2. q.s \in Stream /\ AllBacked(World, n, q.s, q.entries)
    BY <1>3, <2>1 DEF ItemOK, DoneOK
  <2> HIDE DEF q
  <2>3. Parked(v.pending)  BY <2>2, Parts, applyAllParked
  <2> HIDE DEF v
  <2> QED BY <1>1, <2>1, <2>2, <2>3, ZenonT(60)
<1>5. ASSUME NEW n \in Node, FlushFloor(n) PROVE ParkedOK'
  <2> DEFINE q == Head(queue[n])
             P == {c \in pending[n][q.s] : Len(c) > Len(q.chain)}
             v == drain(q.chain, P)
  <2>1. /\ queue[n] # << >>
        /\ UNCHANGED pending \/ pending' = [pending EXCEPT ![n][q.s] = v.pending]
    BY <1>5, Zenon DEF FlushFloor, SetStream
  <2>2. q.s \in Stream  BY <1>3, <2>1 DEF ItemOK, DoneOK
  <2> HIDE DEF q
  <2>3. v.pending \subseteq P  BY drainParked
  <2>4. v.pending \subseteq pending[n][q.s]  BY <2>3
  <2>5. Parked(v.pending)  BY <2>2, <2>4, ParkedLess DEF ParkedOK
  <2> HIDE DEF v
  <2> QED BY <1>1, <1>2, <2>1, <2>2, <2>5
<1> QED BY <1>2, <1>4, <1>5

\* and a lane takes no more than it has room for (pumpDirty: PumpDirtyLane).
LEMMA SendBound ==
  ASSUME NEW l \in Link, IsSeq(lane[l]), Len(lane[l]) <= LaneCap, NEW fs, IsSeq(fs)
  PROVE  Len(sendData(l, fs)) <= LaneCap
<1> DEFINE a == Len(fs)
           b == LaneCap - Len(lane[l])
           k == Min({a, b})
           c == SubSeq(fs, 1, k)
<1>1. a \in Nat /\ b \in Nat /\ Len(lane[l]) \in Nat /\ LaneCap \in Nat
  <2>1. Len(fs) \in Nat /\ Len(lane[l]) \in Nat /\ LaneCap \in Nat  BY Sizes DEF IsSeq
  <2> QED BY <2>1
<1>2. k \in Nat /\ k <= a /\ k <= b
  <2> HIDE DEF a, b
  <2>1. \E x \in {a, b} : \A y \in {a, b} : x <= y  BY <1>1
  <2>2. k \in {a, b} /\ \A y \in {a, b} : k <= y  BY <2>1 DEF Min
  <2> QED BY <1>1, <2>2
<1>3. sendData(l, fs) = lane[l] \o c  BY DEF sendData
<1> HIDE DEF k
<1>4. PICK S : lane[l] \in Seq(S)  BY DEF IsSeq
<1>5. PICK T : fs \in Seq(T)  BY DEF IsSeq
<1>6. c \in Seq(T) /\ Len(c) = k
  <2>1. k <= Len(fs) + 1  BY <1>1, <1>2
  <2> QED BY <1>1, <1>2, <1>5, <2>1, SubSeqProperties
<1> HIDE DEF c
<1>7. lane[l] \in Seq(S \cup T) /\ c \in Seq(S \cup T)  BY <1>4, <1>6
<1>8. Len(lane[l] \o c) = Len(lane[l]) + Len(c)  BY <1>7, ConcatProperties
<1> QED BY <1>1, <1>2, <1>3, <1>6, <1>8

LEMMA WantBound ==
  ASSUME Inv, LaneBound, NEW l \in Link, NEW m, Want(l, m)
  PROVE  LaneBound'
<1> DEFINE n == l[1]
           to == Contig(n, m.s)
           empty == Entries(n, m.s, m.req, m.from, to, {})
           rows == Batches(n, m.s, m.req, to)[m.from]
<1>1. m.s \in Stream /\ m.from \in 1..MaxSeq + 1
  <2>1. MsgOK(World, Back(l), m) /\ m.t = "WANT"  BY Received DEF Want
  <2> QED BY <2>1 DEF MsgOK, ReqOK, PageOK
<1>2. \/ lane' = [lane EXCEPT ![l] = lane[l]]
      \/ lane' = [lane EXCEPT ![l] = sendData(l, <<empty>>)]
      \/ lane' = [lane EXCEPT ![l] = sendData(l, rows)]
  BY DEF Want
<1>3. IsSeq(rows)  BY <1>1, Parts, BatchesOK
<1>4. IsSeq(<<empty>>)  BY OneSeq
<1> HIDE DEF empty, rows
<1>5. DOMAIN lane = Link /\ IsSeq(lane[l]) /\ Len(lane[l]) <= LaneCap
  BY Parts DEF LaneOK, LaneBound
<1>6. \A q : lane' = [lane EXCEPT ![l] = q] /\ Len(q) <= LaneCap => LaneBound'
  BY <1>5 DEF LaneBound
<1>7. Len(sendData(l, <<empty>>)) <= LaneCap /\ Len(sendData(l, rows)) <= LaneCap
  BY <1>3, <1>4, <1>5, SendBound
<1> QED BY <1>2, <1>5, <1>6, <1>7

LEMMA OnEntriesBound ==
  ASSUME Inv, LaneBound, NEW l \in Link, onEntries(l)
  PROVE  LaneBound'
<1> DEFINE k == Back(l)
<1>1. k \in Link  BY LinkEnds
<1>2. lane[k] # << >> /\ lane' = [lane EXCEPT ![k] = Tail(@)]  BY DEF onEntries
<1> HIDE DEF k
<1>3. DOMAIN lane = Link /\ IsSeq(lane[k]) /\ Len(lane[k]) <= LaneCap
  BY <1>1, Parts DEF LaneOK, LaneBound
<1>4. Len(Tail(lane[k])) <= LaneCap
  <2>1. PICK S : lane[k] \in Seq(S)  BY <1>3 DEF IsSeq
  <2>2. Len(Tail(lane[k])) = Len(lane[k]) - 1 /\ Len(lane[k]) \in Nat  BY <1>2, <2>1
  <2>3. LaneCap \in Nat  BY Sizes
  <2> QED BY <1>3, <2>2, <2>3
<1> QED BY <1>2, <1>3, <1>4 DEF LaneBound

LEMMA ReopenBound ==
  ASSUME Inv, LaneBound, NEW l, NEW down, reopen(l, down)
  PROVE  LaneBound'
<1>1. \E both : lane' = [k \in Link |-> IF k \in both THEN << >> ELSE lane[k]]
  BY DEF reopen
<1>2. Len(<< >>) <= LaneCap
  <2>1. LaneCap \in Nat  BY Sizes
  <2> QED BY <2>1, NilSet
<1> QED BY <1>1, <1>2 DEF LaneBound

\* What a step may do to pending entries, data lanes and certificates.
LEMMA Sides ==
  ASSUME Next
  PROVE  /\ UNCHANGED pending \/ \E n \in Node : FlushEntries(n) \/ FlushFloor(n)
         /\ \/ UNCHANGED lane
            \/ \E l \in Link : \/ onEntries(l) \/ pumpDirty(l) \/ (\E m : Want(l, m))
                              \/ \E down : reopen(l, down)
         /\ UNCHANGED cert \/ \E l \in Link : cert' = cert \cup {l[1]}
<1>1. CASE \E n \in Node, s \in Stream : append(n, s, "x") \/ prune(n, s)
  BY <1>1 DEF append, prune, netVars
<1>2. CASE \E l \in Link : \/ antiEntropy(l) \/ tick(l) \/ retry(l) \/ onEntries(l)
                           \/ (\E r : race(l, r)) \/ \E m : lose(l, m)
  BY <1>2, Zenon DEF antiEntropy, tick, retry, onEntries, race, lose, logVars
<1>3. CASE \E l \in Link : \E m : serveHave(l, m) \/ serveProbe(l, m) \/ ProbeRes(l, m)
  BY <1>3 DEF serveHave, serveProbe, ProbeRes, logVars
<1>8. CASE \E l \in Link : \E m : HavePage(l, m) \/ Truncated(l, m)
  <2>1. \A l \in Link : \A m : HavePage(l, m) => UNCHANGED <<pending, lane, cert>>
    BY Zenon DEF HavePage, logVars
  <2>2. \A l \in Link : \A m : Truncated(l, m) => UNCHANGED <<pending, lane, cert>>
    BY Zenon DEF Truncated, logVars
  <2> QED BY <1>8, <2>1, <2>2
<1>9. CASE \E l \in Link : \E m : Finality(l, m)  BY <1>9 DEF Finality
<1>4. CASE \E l \in Link : \E m : Want(l, m)  BY <1>4, ZenonT(60) DEF Want, logVars
<1>5. CASE \E n \in Node : FlushEntries(n) \/ FlushFloor(n)
  BY <1>5, Zenon DEF FlushEntries, FlushFloor, netVars
<1>6. CASE \E n \in Node : FlushSeal(n) \/ CompleteEntries(n) \/ CompleteFloor(n)
  BY <1>6, Zenon DEF FlushSeal, CompleteEntries, CompleteFloor, logVars, netVars
<1>7. CASE \E l \in Link : pumpDirty(l) \/ \E down : reopen(l, down)
  BY <1>7 DEF pumpDirty, reopen, logVars
<1> QED BY <1>1, <1>2, <1>3, <1>4, <1>5, <1>6, <1>7, <1>8, <1>9 DEF Next

\* The induction,
SyncInv == Inv /\ LaneInv /\ LaneBound /\ ParkedOK /\ cert \subseteq Node

LEMMA InitWants == Init => SyncInv
<1> SUFFICES ASSUME Init PROVE SyncInv  OBVIOUS
<1>1. Inv /\ LaneInv  BY InitInv, InitLane
<1>2. LaneBound
  <2>1. lane = [l \in Link |-> << >>]  BY DEF Init
  <2>2. Len(<< >>) <= LaneCap
    <3>1. LaneCap \in Nat  BY Sizes
    <3> QED BY <3>1, NilSet
  <2> QED BY <2>1, <2>2 DEF LaneBound
<1>3. ParkedOK
  <2>1. pending = [n \in Node |-> [s \in Stream |-> {}]]  BY DEF Init
  <2>2. Parked({})
    <3>1. IsFiniteSet({}) /\ Cardinality({}) = 0 /\ PENDING_CAP \in Nat  BY FS_EmptySet, Sizes
    <3> QED BY <3>1 DEF Parked
  <2> QED BY <2>1, <2>2 DEF ParkedOK
<1>4. cert \subseteq Node  BY StartStates DEF Init
<1> QED BY <1>1, <1>2, <1>3, <1>4 DEF SyncInv

\* one lemma per action.
LEMMA NextLane == SyncInv /\ Next => LaneInv'
<1> SUFFICES ASSUME Inv, LaneInv, LaneBound, Next PROVE LaneInv'  BY DEF SyncInv
<1>1. CASE \E n \in Node, s \in Stream : append(n, s, "x") \/ prune(n, s)
  BY <1>1, LocalLane
<1>2. CASE \E l \in Link : antiEntropy(l) \/ tick(l)  BY <1>2, RoundLane
<1>3. CASE \E l \in Link : retry(l) \/ (\E r \in ps[l].reqs : race(l, r))
                           \/ (\E m \in ctl[l] : lose(l, m))
  BY <1>3, ResendLane
<1>4. CASE \E l \in Link : \E m \in ctl[Back(l)] :
             serveHave(l, m) \/ HavePage(l, m) \/ Finality(l, m)
  BY <1>4, ServeHaveLane, HavePageLane, FinalityLane
<1>5. CASE \E l \in Link : \E m \in ctl[Back(l)] :
             Want(l, m) \/ Truncated(l, m) \/ serveProbe(l, m) \/ ProbeRes(l, m)
  BY <1>5, ServeLane, TruncatedLane, ProbeResLane
<1>6. CASE \E l \in Link : onEntries(l) \/ pumpDirty(l)
  BY <1>6, OnEntriesLane, PumpDirtyLane DEF LaneBound
<1>7. CASE \E n \in Node : FlushEntries(n) \/ FlushSeal(n) \/ FlushFloor(n)
  BY <1>7, FlushLane
<1>8. CASE \E n \in Node : CompleteEntries(n) \/ CompleteFloor(n)
  BY <1>8, CompleteEntriesLane, CompleteFloorLane
<1>9. CASE \E l \in Link, down \in BOOLEAN : reopen(l, down)  BY <1>9, ReopenLane
<1> QED BY <1>1, <1>2, <1>3, <1>4, <1>5, <1>6, <1>7, <1>8, <1>9 DEF Next

LEMMA NextWants == SyncInv /\ [Next]_vars => SyncInv'
<1> SUFFICES ASSUME SyncInv, [Next]_vars PROVE SyncInv'  OBVIOUS
<1>1. Inv /\ LaneInv /\ LaneBound /\ ParkedOK /\ cert \subseteq Node  BY DEF SyncInv
<1>2. Inv'  BY <1>1, NextInv
<1>3. CASE UNCHANGED vars
  <2>1. UNCHANGED <<ps, ctl, lane, queue, settled, pending, cert>>
    BY <1>3 DEF vars, logVars, netVars
  <2>2. \A l \in Link : SameWants(ps[l], ps'[l])  BY <2>1 DEF SameWants
  <2>3. \A l \in Link : IsFiniteSet(ctl'[l])  BY <1>1, <2>1 DEF LaneInv
  <2>4. LaneInv'  BY <1>1, <2>1, <2>2, <2>3, FloatsSame, LaneAlike
  <2>5. LaneBound' /\ ParkedOK' /\ cert' \subseteq Node  BY <1>1, <2>1 DEF LaneBound, ParkedOK
  <2> QED BY <1>2, <2>4, <2>5 DEF SyncInv
<1>4. CASE Next
  <2>1. LaneInv'  BY <1>4, NextLane
  <2>2. ParkedOK'  BY <1>1, <1>4, Sides, ParkedStep
  <2>3. LaneBound'
    <3>1. CASE UNCHANGED lane  BY <1>1, <3>1 DEF LaneBound
    <3>2. CASE \E l \in Link : onEntries(l)  BY <1>1, <3>2, OnEntriesBound
    <3>3. CASE \E l \in Link : pumpDirty(l)  BY <1>1, <3>3, PumpDirtyLane DEF LaneBound
    <3>4. CASE \E l \in Link : \E m : Want(l, m)  BY <1>1, <3>4, WantBound
    <3>5. CASE \E l \in Link : \E down : reopen(l, down)  BY <1>1, <3>5, ReopenBound
    <3> QED BY <1>4, <3>1, <3>2, <3>3, <3>4, <3>5, Sides
  <2>4. cert' \subseteq Node
    <3>1. UNCHANGED cert \/ \E l \in Link : cert' = cert \cup {l[1]}  BY <1>4, Sides
    <3> QED BY <1>1, <3>1, LinkEnds
  <2> QED BY <1>2, <2>1, <2>2, <2>3, <2>4 DEF SyncInv
<1> QED BY <1>3, <1>4

\* A set with as many elements as another.
LEMMA SameSize ==
  ASSUME NEW S, IsFiniteSet(S), NEW f, \A u, v \in S : f[u] = f[v] => u = v
  PROVE  IsFiniteSet({f[u] : u \in S}) /\ Cardinality({f[u] : u \in S}) = Cardinality(S)
<1> DEFINE T == {f[u] : u \in S}
           g == [u \in S |-> f[u]]
<1>1. g \in [S -> T]  OBVIOUS
<1>2. \A u, v \in S : g[u] = g[v] => u = v  OBVIOUS
<1>3. \A t \in T : \E u \in S : g[u] = t  OBVIOUS
<1> HIDE DEF g, T
<1>4. g \in Injection(S, T) /\ g \in Surjection(S, T)
  BY <1>1, <1>2, <1>3 DEF Injection, IsInjective, Surjection
<1>5. ExistsBijection(S, T)  BY <1>4 DEF Bijection, ExistsBijection
<1>6. IsFiniteSet(T) /\ Cardinality(T) = Cardinality(S)  BY <1>5, FS_Bijection
<1> QED BY <1>6 DEF T

\* A wanted stream waits once or holds one slot.
LEMMA WantedSize ==
  ASSUME NEW x, NEW L, Slots(x, {}, L), x.wantQueue \in Seq(Stream)
  PROVE  Cardinality(x.wanted) = Len(x.wantQueue) + Cardinality(x.active)
<1> DEFINE q == x.wantQueue
           N == Len(q)
           D == 1..N
           f == [w \in x.active |-> w.s]
           W == {q[i] : i \in D}
           H == {f[w] : w \in x.active}
<1>1. N \in Nat /\ DOMAIN q = D  OBVIOUS
<1>2. IsFiniteSet(D) /\ Cardinality(D) = N  BY <1>1, FS_Interval
<1>3. \A i, j \in D : q[i] = q[j] => i = j  BY DEF Slots
<1>4. IsFiniteSet(x.active) /\ \A v, w \in x.active : f[v] = f[w] => v = w  BY DEF Slots
<1>5. W = ToSet(q)  BY <1>1 DEF ToSet
<1>6. H = Held(x)  BY DEF Held
<1> HIDE DEF q, N, D, f
<1>7. IsFiniteSet(W) /\ Cardinality(W) = N  BY <1>2, <1>3, SameSize
<1>8. IsFiniteSet(H) /\ Cardinality(H) = Cardinality(x.active)  BY <1>4, SameSize
<1> HIDE DEF W, H
<1>9. W \cap H = {} /\ x.wanted = W \cup H  BY <1>5, <1>6 DEF Slots, q
<1>10. Cardinality(x.wanted) = N + Cardinality(x.active)
  <2>1. Cardinality(W \cup H) = Cardinality(W) + Cardinality(H) - Cardinality(W \cap H)
    BY <1>7, <1>8, FS_Union
  <2>2. Cardinality(W \cap H) = 0  BY <1>9, FS_EmptySet
  <2>3. Cardinality(x.active) \in Nat  BY <1>4, FS_CardinalityType
  <2> QED BY <1>1, <1>7, <1>8, <1>9, <2>1, <2>2, <2>3
<1> QED BY <1>10 DEF N, q

\* What is in one of two sequences is in their concatenation.
LEMMA CatHasBoth ==
  ASSUME NEW q, NEW r, IsSeq(q), IsSeq(r)
  PROVE  ToSet(r) \subseteq ToSet(q \o r)
<1>1. PICK S : q \in Seq(S)  BY DEF IsSeq
<1>2. PICK T : r \in Seq(T)  BY DEF IsSeq
<1>3. q \in Seq(S \cup T) /\ r \in Seq(S \cup T)  BY <1>1, <1>2
<1> DEFINE a == q \o r
<1>4. /\ a \in Seq(S \cup T) /\ Len(a) = Len(q) + Len(r) /\ Len(q) \in Nat /\ Len(r) \in Nat
      /\ \A i \in 1..Len(r) : a[Len(q) + i] = r[i]
  <2>1. /\ Len(a) = Len(q) + Len(r)
        /\ \A i \in 1..Len(a) : a[i] = IF i <= Len(q) THEN q[i] ELSE r[i - Len(q)]
    BY <1>3, ConcatProperties
  <2>2. Len(q) \in Nat /\ Len(r) \in Nat /\ a \in Seq(S \cup T)  BY <1>3, ConcatProperties
  <2> HIDE DEF a
  <2>3. ASSUME NEW i \in 1..Len(r) PROVE a[Len(q) + i] = r[i]
    <3>1. Len(q) + i \in 1..Len(a) /\ ~(Len(q) + i <= Len(q)) /\ (Len(q) + i) - Len(q) = i
      BY <2>1, <2>2
    <3> QED BY <2>1, <3>1
  <2> QED BY <2>1, <2>2, <2>3
<1>5. DOMAIN r = 1..Len(r) /\ DOMAIN a = 1..Len(q) + Len(r)  BY <1>3, <1>4
<1> HIDE DEF a
<1>6. \A i \in DOMAIN r : Len(q) + i \in DOMAIN a /\ a[Len(q) + i] = r[i]  BY <1>4, <1>5
<1>7. ToSet(r) \subseteq ToSet(a)  BY <1>6 DEF ToSet
<1> QED BY <1>7 DEF a

LEMMA WantsFromInv == SyncInv => TypeOK /\ NoOrphanWant
<1> SUFFICES ASSUME Inv, LaneInv, LaneBound, ParkedOK, cert \subseteq Node
             PROVE  TypeOK /\ NoOrphanWant
  BY DEF SyncInv
<1>1. LogInv /\ WorldOK(World) /\ PendingOK(World, pending) /\ sealed \in [Node -> SUBSET Stream]
  BY Parts DEF LogInv
<1>2. \A c \in Seq(Content) : Len(c) <= MaxSeq => c \in Chains
  <2> SUFFICES ASSUME NEW c \in Seq(Content), Len(c) <= MaxSeq PROVE c \in Chains  OBVIOUS
  <2>1. Len(c) \in 0..MaxSeq /\ c \in [1..Len(c) -> Content]
    <3>1. MaxSeq \in Nat  BY Sizes
    <3> QED BY <3>1
  <2> QED BY <2>1 DEF Chains
<1>3. TypeOK
  <2>1. log \in [Node -> [Stream -> Chains]]
    <3>1. log \in [Node -> [Stream -> Seq(Content)]]  BY <1>1 DEF WorldOK, World
    <3>2. \A n \in Node, s \in Stream : Len(log[n][s]) <= MaxSeq  BY <1>1 DEF WorldOK, World
    <3>3. \A n \in Node, s \in Stream : log[n][s] \in Chains  BY <1>2, <3>1, <3>2
    <3> QED BY <3>1, <3>3
  <2>2. \A n \in Node, s \in Stream : floor[n][s] <= Contig(n, s) /\ floor[n][s] \in Nat
    BY <1>1 DEF WorldOK, World, Contig
  <2>3. floor \in [Node -> [Stream -> 0..MaxSeq]]
    <3>1. floor \in [Node -> [Stream -> Nat]]  BY <1>1 DEF WorldOK, World
    <3>2. ASSUME NEW n \in Node, NEW s \in Stream PROVE floor[n][s] \in 0..MaxSeq
      <4>1. log[n][s] \in Seq(Content) /\ Len(log[n][s]) <= MaxSeq
        BY <1>1 DEF WorldOK, World
      <4>2. Len(log[n][s]) \in Nat /\ MaxSeq \in Nat  BY <4>1, Sizes
      <4> QED BY <2>2, <4>1, <4>2 DEF Contig
    <3> QED BY <3>1, <3>2
  <2>4. pending \in [Node -> [Stream -> SUBSET Chains]]
    <3>1. pending \in [Node -> [Stream -> SUBSET Seq(Content)]]  BY <1>1 DEF PendingOK
    <3>2. ASSUME NEW n \in Node, NEW s \in Stream, NEW c \in pending[n][s] PROVE c \in Chains
      <4>1. Backed(World, n, s, c)  BY <1>1 DEF PendingOK
      <4> QED BY <1>1, <1>2, <4>1, BackedLen
    <3> QED BY <3>1, <3>2
  <2>5. \A n \in Node, s \in Stream : Cardinality(pending[n][s]) <= PENDING_CAP
    BY DEF ParkedOK, Parked
  <2>6. \A l \in Link : Len(lane[l]) <= LaneCap /\ Cardinality(ps[l].active) <= MAX_WANT_CONCURRENT
    BY DEF LaneBound, LaneInv, Slots
  <2> QED BY <1>1, <2>1, <2>2, <2>3, <2>4, <2>5, <2>6 DEF TypeOK
<1>4. NoOrphanWant
  <2> SUFFICES ASSUME NEW l \in Link
               PROVE  LET x == ps[l]
                      IN /\ x.wanted = ToSet(x.wantQueue) \cup {w.s : w \in x.active}
                         /\ Cardinality(x.wanted) = Len(x.wantQueue) + Cardinality(x.active)
                         /\ x.wantQueue # << >> => Cardinality(x.active) = MAX_WANT_CONCURRENT
                         /\ \A w \in x.active \ x.reqs :
                              \E q \in ToSet(queue[l[1]] \o settled[l[1]]) :
                                q.link = l /\ q.req = w.req
    BY DEF NoOrphanWant
  <2> DEFINE x == ps[l]
  <2>1. Slots(x, {}, Waiting(l)) /\ x.wantQueue \in Seq(Stream)
    BY Parts DEF LaneInv, PeersOK, PeerOK
  <2>2. ASSUME NEW w \in x.active \ x.reqs
        PROVE  \E q \in ToSet(queue[l[1]] \o settled[l[1]]) : q.link = l /\ q.req = w.req
    <3>1. w \in Waiting(l)  BY <2>1 DEF Slots, Loose
    <3>2. PICK q \in Items(l[1]) : q.link = l /\ q.req = w.req  BY <3>1 DEF Waiting, Carried
    <3>3. IsSeq(queue[l[1]]) /\ IsSeq(settled[l[1]])  BY LinkEnds, Parts DEF QueueOK, SettledOK
    <3>4. Items(l[1]) \subseteq ToSet(queue[l[1]] \o settled[l[1]])
      BY <3>3, CatHas, CatHasBoth DEF Items
    <3> QED BY <3>2, <3>4
  <2> HIDE DEF x
  <2>3. Cardinality(x.wanted) = Len(x.wantQueue) + Cardinality(x.active)
    BY <2>1, WantedSize
  <2>4. /\ x.wanted = ToSet(x.wantQueue) \cup {w.s : w \in x.active}
        /\ x.wantQueue # << >> => Cardinality(x.active) = MAX_WANT_CONCURRENT
    BY <2>1 DEF Slots, Held
  <2> QED BY <2>2, <2>3, <2>4 DEF x
<1> QED BY <1>3, <1>4
--------------------------------------------------------------------------------
(* The non-progress rule *)

\* The answers to l's WANTs under way, and the operations they have led to,
Cuts(l) == {m \in ctl[Back(l)] : m.t = "TRUNCATED"}
Replies(l) == Cuts(l) \cup ToSet(lane[Back(l)]) \cup {q \in Items(l[1]) : q.link = l}

\* and with the WANTs in flight all that bears their numbers.
Asked(l) == {m \in ctl[l] : m.t = "WANT"}
Out(l) == Asked(l) \cup Replies(l)

WantReqs(x) == \A r \in x.reqs : r.t = "WANT" => r \in x.active

\* One number is of one stream; a WANT asks from the head of its time; only a peer of
\* protocol 3 sends a floor, and it answers from beyond its own head with nothing.
AsksOK(l) ==
  LET n == l[1]
      x == ps[l]
  IN /\ WantReqs(x)
     /\ \A m \in Out(l) : "req" \in DOMAIN m
     /\ \A w \in x.active : /\ w.req # 0 /\ w.s \in Stream
                            /\ w.from \in Nat /\ w.from <= Contig(n, w.s) + 1
                            /\ \A m \in Out(l) : m.req = w.req => m.s = w.s
     /\ \A m \in Asked(l) : m.from <= Contig(n, m.s) + 1
     /\ x.proto = ps[Back(l)].proto
     /\ \A m \in Cuts(l) : x.proto >= 3

EmptyOK(n, q) ==
  q.req # 0 /\ q.entries = << >> => q.to \in Nat /\ q.to <= Contig(n, q.s)
EmptiesOK(l) ==
  ps[l].proto >= 3 =>
    /\ \A f \in ToSet(lane[Back(l)]) : EmptyOK(l[1], f)
    /\ \A q \in Items(l[1]) : q.t = "entries" /\ q.link = l => EmptyOK(l[1], q)

\* After a round that brought nothing `progress` is at the head, after two the stream is
\* not asked for; a round under way that has brought something makes the count 0.
CountOK(l, s) ==
  LET n == l[1]
      x == ps[l]
      c == fruitless[l][s]
  IN /\ c \in 0..2 /\ s \in DOMAIN x.progress /\ x.progress[s] \in Int
     /\ c > 0 => \/ x.progress[s] # None /\ x.progress[s] >= Contig(n, s)
                 \/ s \in sealed[n] \/ s \notin x.wanted
     /\ c = 2 => s \notin Held(x) /\ (s \in sealed[n] \/ s \notin x.wanted)
     /\ \A w \in x.active : w.s = s /\ w.from <= Contig(n, s) => c = 0

\* A floor on its way reaches beyond what its WANT asked from; with the WANT gone and the
\* floor reached the count is 0,
IsFloor(q) == q.t = "floor" /\ q.req # 0
FloorOK(n, q) ==
  LET x == ps[q.link]
  IN /\ x.proto >= 3 /\ Len(q.chain) \in Nat /\ "refused" \in DOMAIN q
     /\ \A w \in x.active : w.req = q.req => w.from <= Len(q.chain)
     /\ (\A w \in x.active : w.req # q.req) /\ Contig(n, q.s) >= Len(q.chain)
          => fruitless[q.link][q.s] = 0

\* for entries of another WANT of the stream come after it.
Follows(p, a, b) ==
  IsFloor(b) /\ a.t = "entries" /\ a.link = b.link =>
    \/ a.entries = << >>
    \/ \A w \in p[b.link].active : w.req = a.req /\ w.s = b.s => w.req = b.req
Chained(p, q) == \A i, j \in DOMAIN q : i < j => Follows(p, q[i], q[j])
Order(p, q, d) ==
  /\ Chained(p, q) /\ Chained(p, d)
  /\ \A a \in ToSet(d), b \in ToSet(q) : Follows(p, a, b)

FloorsOK(n) ==
  /\ \A q \in Items(n) : IsFloor(q) => FloorOK(n, q)
  /\ \A q \in ToSet(settled[n]) : IsFloor(q) /\ ~q.refused => Contig(n, q.s) >= Len(q.chain)
  /\ Order(ps, queue[n], settled[n])

SpinInv ==
  /\ DOMAIN fruitless = Link /\ \A l \in Link : DOMAIN fruitless[l] = Stream
  /\ \A l \in Link : AsksOK(l) /\ EmptiesOK(l) /\ \A s \in Stream : CountOK(l, s)
  /\ \A n \in Node : FloorsOK(n)

\* Sequences of operations in order: one more at the end,
LEMMA ChainedAdd ==
  ASSUME NEW p, NEW q, IsSeq(q), Chained(p, q), NEW e, \A a \in ToSet(q) : Follows(p, a, e)
  PROVE  Chained(p, Append(q, e))
<1> DEFINE r == Append(q, e)
<1>1. PICK S : q \in Seq(S)  BY DEF IsSeq
<1>2. q \in Seq(S \cup {e})  BY <1>1
<1>3. /\ DOMAIN q = 1..Len(q) /\ DOMAIN r = 1..Len(q) + 1 /\ Len(q) \in Nat
      /\ r[Len(q) + 1] = e /\ \A i \in 1..Len(q) : r[i] = q[i]
  BY <1>2
<1> HIDE DEF r
<1>4. ASSUME NEW i \in DOMAIN r, NEW j \in DOMAIN r, i < j PROVE Follows(p, r[i], r[j])
  <2>1. i \in 1..Len(q) /\ r[i] = q[i] /\ q[i] \in ToSet(q)
    <3>1. i \in 1..Len(q)  BY <1>3, <1>4
    <3> QED BY <1>3, <3>1 DEF ToSet
  <2>2. CASE j \in 1..Len(q)
    <3>1. Follows(p, q[i], q[j])  BY <1>3, <1>4, <2>1, <2>2 DEF Chained
    <3> QED BY <1>3, <2>1, <2>2, <3>1
  <2>3. CASE j = Len(q) + 1
    <3>1. Follows(p, q[i], e)  BY <2>1
    <3> QED BY <1>3, <2>1, <2>3, <3>1
  <2> QED BY <1>3, <1>4, <2>2, <2>3
<1> QED BY <1>4 DEF Chained, r

\* one less at the front.
LEMMA ChainedTail ==
  ASSUME NEW p, NEW q, IsSeq(q), Chained(p, q), q # << >>
  PROVE  /\ Chained(p, Tail(q))
         /\ \A b \in ToSet(Tail(q)) : Follows(p, Head(q), b)
<1> DEFINE r == Tail(q)
<1>1. PICK S : q \in Seq(S)  BY DEF IsSeq
<1>2. /\ Head(q) = q[1] /\ Len(q) \in Nat /\ Len(q) > 0 /\ DOMAIN q = 1..Len(q)
      /\ DOMAIN r = 1..Len(q) - 1 /\ \A i \in 1..Len(q) - 1 : r[i] = q[i + 1]
  BY <1>1
<1> HIDE DEF r
<1>3. ASSUME NEW i \in DOMAIN r PROVE i + 1 \in DOMAIN q /\ r[i] = q[i + 1] /\ 1 < i + 1 /\ i \in Int
  BY <1>2
<1>4. 1 \in DOMAIN q  BY <1>2
<1>5. ASSUME NEW i \in DOMAIN r, NEW j \in DOMAIN r, i < j PROVE Follows(p, r[i], r[j])
  <2>1. i + 1 < j + 1  BY <1>3, <1>5
  <2>2. Follows(p, q[i + 1], q[j + 1])  BY <1>3, <2>1 DEF Chained
  <2>3. r[i] = q[i + 1] /\ r[j] = q[j + 1]  BY <1>3
  <2> QED BY <2>2, <2>3
<1>6. ASSUME NEW i \in DOMAIN r PROVE Follows(p, Head(q), r[i])
  <2>1. Follows(p, q[1], q[i + 1])  BY <1>3, <1>4 DEF Chained
  <2>2. r[i] = q[i + 1]  BY <1>3
  <2> QED BY <1>2, <2>1, <2>2
<1> QED BY <1>5, <1>6 DEF Chained, ToSet, r

\* The commit queue and the callbacks due: an operation is queued,
LEMMA OrderAdd ==
  ASSUME NEW p, NEW q, NEW d, IsSeq(q), Order(p, q, d), NEW e,
         \A a \in ToSet(q) \cup ToSet(d) : Follows(p, a, e)
  PROVE  Order(p, Append(q, e), d)
<1>1. Chained(p, Append(q, e))  BY ChainedAdd DEF Order
<1>2. ToSet(Append(q, e)) = ToSet(q) \cup {e}  BY AppendSet
<1> QED BY <1>1, <1>2 DEF Order

\* its callback is due at once,
LEMMA OrderDone ==
  ASSUME NEW p, NEW q, NEW d, IsSeq(d), Order(p, q, d), NEW e,
         \A a \in ToSet(d) : Follows(p, a, e), \A b \in ToSet(q) : Follows(p, e, b)
  PROVE  Order(p, q, Append(d, e))
<1>1. Chained(p, Append(d, e))  BY ChainedAdd DEF Order
<1>2. ToSet(Append(d, e)) = ToSet(d) \cup {e}  BY AppendSet
<1> QED BY <1>1, <1>2 DEF Order

\* it is flushed,
LEMMA OrderFlush ==
  ASSUME NEW p, NEW q, NEW d, IsSeq(q), IsSeq(d), Order(p, q, d), q # << >>, NEW z,
         \A b : Follows(p, Head(q), b) => Follows(p, z, b),
         \A a : Follows(p, a, Head(q)) => Follows(p, a, z)
  PROVE  Order(p, Tail(q), Append(d, z))
<1>1. /\ Chained(p, Tail(q)) /\ \A b \in ToSet(Tail(q)) : Follows(p, Head(q), b)
  BY ChainedTail DEF Order
<1>2. ToSet(Tail(q)) \subseteq ToSet(q) /\ Head(q) \in ToSet(q)  BY TailSet
<1>3. Order(p, Tail(q), d)  BY <1>1, <1>2 DEF Order
<1>4. \A a \in ToSet(d) : Follows(p, a, z)  BY <1>2 DEF Order
<1>5. \A b \in ToSet(Tail(q)) : Follows(p, z, b)  BY <1>1
<1> QED BY <1>3, <1>4, <1>5, OrderDone

\* and its callback runs.
LEMMA OrderPop ==
  ASSUME NEW p, NEW q, NEW d, IsSeq(d), Order(p, q, d), d # << >>
  PROVE  /\ Order(p, q, Tail(d))
         /\ \A b \in ToSet(q) \cup ToSet(Tail(d)) : Follows(p, Head(d), b)
<1>1. /\ Chained(p, Tail(d)) /\ \A b \in ToSet(Tail(d)) : Follows(p, Head(d), b)
  BY ChainedTail DEF Order
<1>2. ToSet(Tail(d)) \subseteq ToSet(d) /\ Head(d) \in ToSet(d)  BY TailSet
<1> QED BY <1>1, <1>2 DEF Order

\* Operations that carry neither entries nor a floor stand anywhere.
LEMMA OrderCat ==
  ASSUME NEW p, NEW q, NEW d, IsSeq(q), Order(p, q, d), NEW r, IsSeq(r),
         \A e \in ToSet(r) : e.t = "seal"
  PROVE  Order(p, q \o r, d)
<1> DEFINE a == q \o r
<1>1. PICK S : q \in Seq(S)  BY DEF IsSeq
<1>2. PICK T : r \in Seq(T)  BY DEF IsSeq
<1>3. q \in Seq(S \cup T) /\ r \in Seq(S \cup T)  BY <1>1, <1>2
<1>4. /\ DOMAIN a = 1..Len(q) + Len(r) /\ Len(q) \in Nat /\ Len(r) \in Nat
      /\ \A i \in 1..Len(q) + Len(r) : a[i] = IF i <= Len(q) THEN q[i] ELSE r[i - Len(q)]
      /\ DOMAIN q = 1..Len(q) /\ DOMAIN r = 1..Len(r)
  BY <1>3, ConcatProperties
<1> HIDE DEF a
<1>5. ASSUME NEW i \in DOMAIN a PROVE (i \in DOMAIN q /\ a[i] = q[i]) \/ a[i].t = "seal"
  <2>1. CASE i <= Len(q)
    <3>1. i \in DOMAIN q  BY <1>4, <1>5, <2>1
    <3> QED BY <1>4, <1>5, <2>1, <3>1
  <2>2. CASE ~(i <= Len(q))
    <3>1. i - Len(q) \in DOMAIN r /\ a[i] = r[i - Len(q)]  BY <1>4, <1>5, <2>2
    <3> QED BY <3>1 DEF ToSet
  <2> QED BY <2>1, <2>2
<1>6. \A u, v : u.t = "seal" \/ v.t = "seal" => Follows(p, u, v)  BY DEF Follows, IsFloor
<1>7. Chained(p, a)
  <2> SUFFICES ASSUME NEW i \in DOMAIN a, NEW j \in DOMAIN a, i < j PROVE Follows(p, a[i], a[j])
    BY DEF Chained
  <2>1. CASE a[i].t = "seal" \/ a[j].t = "seal"  BY <1>6, <2>1
  <2>2. CASE i \in DOMAIN q /\ a[i] = q[i] /\ j \in DOMAIN q /\ a[j] = q[j]
    <3>1. Follows(p, q[i], q[j])  BY <2>2 DEF Order, Chained
    <3> QED BY <2>2, <3>1
  <2> QED BY <1>5, <2>1, <2>2
<1>8. \A u \in ToSet(d), v \in ToSet(a) : Follows(p, u, v)
  <2> SUFFICES ASSUME NEW u \in ToSet(d), NEW i \in DOMAIN a PROVE Follows(p, u, a[i])
    BY DEF ToSet
  <2>1. CASE a[i].t = "seal"  BY <1>6, <2>1
  <2>2. CASE i \in DOMAIN q /\ a[i] = q[i]
    <3>1. q[i] \in ToSet(q)  BY <2>2 DEF ToSet
    <3>2. Follows(p, u, q[i])  BY <3>1 DEF Order
    <3> QED BY <2>2, <3>2
  <2> QED BY <1>5, <2>1, <2>2
<1>9. Order(p, a, d)  BY <1>7, <1>8 DEF Order
<1> QED BY <1>9 DEF a

\* A new request number is borne by nothing of the session.
LEMMA FreshAll ==
  ASSUME Inv, LaneInv, NEW l \in Link, NEW x, IsFiniteSet(x.reqs), IsFiniteSet(x.active)
  PROVE  /\ FreshReq(l, x) \in Nat \ {0}
         /\ \A m \in x.reqs \cup x.active \cup ctl[l] \cup ctl[Back(l)] \cup ToSet(lane[Back(l)])
                      \cup Items(l[1]) :
              "req" \in DOMAIN m => FreshReq(l, x) # m.req
<1> DEFINE k == Back(l)
           bearers == x.reqs \cup x.active \cup ctl[l] \cup ctl[k] \cup ToSet(lane[k])
                      \cup ps[k].captured \cup ToSet(queue[l[1]] \o settled[l[1]])
           named == {m \in bearers : "req" \in DOMAIN m}
           used == {m.req : m \in named}
           Free(r) == r \notin used /\ \A j \in 1..r - 1 : j \in used
           N == Cardinality(used)
<1>1. FreshReq(l, x) = CHOOSE r \in 1..N + 1 : Free(r)  BY DEF FreshReq
<1>2. l[1] \in Node /\ k \in Link  BY LinkEnds
<1>3. IsFiniteSet(bearers)
  <2>1. IsFiniteSet(ctl[l]) /\ IsFiniteSet(ctl[k]) /\ IsFiniteSet(ps[k].captured)
    BY <1>2 DEF LaneInv, Slots
  <2>2. IsFiniteSet(ToSet(lane[k]))  BY <1>2, Parts, SeqFinite DEF LaneOK
  <2>3. IsFiniteSet(ToSet(queue[l[1]] \o settled[l[1]]))
    <3>1. IsSeq(queue[l[1]]) /\ IsSeq(settled[l[1]])  BY <1>2, Parts DEF QueueOK, SettledOK
    <3> QED BY <3>1, CatSet, SeqFinite
  <2> HIDE DEF k
  <2>4. IsFiniteSet(x.reqs \cup x.active \cup ctl[l] \cup ctl[k])  BY <2>1, FS_Union
  <2>5. IsFiniteSet(x.reqs \cup x.active \cup ctl[l] \cup ctl[k] \cup ToSet(lane[k]))
    BY <2>2, <2>4, FS_Union
  <2>6. IsFiniteSet(x.reqs \cup x.active \cup ctl[l] \cup ctl[k] \cup ToSet(lane[k])
                    \cup ps[k].captured)
    BY <2>1, <2>5, FS_Union
  <2> QED BY <2>3, <2>6, FS_Union
<1>4. ASSUME NEW m \in x.reqs \cup x.active \cup ctl[l] \cup ctl[Back(l)] \cup ToSet(lane[Back(l)])
                     \cup Items(l[1]),
             "req" \in DOMAIN m
      PROVE  m.req \in used
  <2>1. Items(l[1]) \subseteq ToSet(queue[l[1]] \o settled[l[1]])
    <3>1. IsSeq(queue[l[1]]) /\ IsSeq(settled[l[1]])  BY <1>2, Parts DEF QueueOK, SettledOK
    <3> QED BY <3>1, CatHas, CatHasBoth DEF Items
  <2>2. m \in bearers  BY <2>1
  <2>3. m \in named  BY <1>4, <2>2
  <2> QED BY <2>3
<1> HIDE DEF bearers
<1>5. IsFiniteSet(used) /\ N \in Nat
  <2>1. IsFiniteSet(named)  BY <1>3, FS_Subset
  <2> DEFINE f == [m \in named |-> m.req]
  <2>2. IsFiniteSet({f[m] : m \in named})  BY <2>1, ImageFinite
  <2>3. {f[m] : m \in named} = used  OBVIOUS
  <2> HIDE DEF used
  <2> QED BY <2>2, <2>3, FS_CardinalityType
<1> HIDE DEF used, named
<1>6. \E r \in 1..N + 1 : Free(r)
  <2> HIDE DEF N
  <2> DEFINE D == {r \in 1..N + 1 : r \notin used}
  <2>1. D # {}
    <3> SUFFICES ASSUME D = {} PROVE FALSE  OBVIOUS
    <3>1. 1..N + 1 \subseteq used  OBVIOUS
    <3>2. Cardinality(1..N + 1) <= N  BY <1>5, <3>1, FS_Subset DEF N
    <3>3. Cardinality(1..N + 1) = N + 1  BY <1>5, FS_Interval
    <3> QED BY <1>5, <3>2, <3>3
  <2>2. D \in SUBSET Nat  BY <1>5
  <2>3. PICK r \in D : \A j \in D : r <= j  BY <2>1, <2>2, Least
  <2>4. ASSUME NEW j \in 1..r - 1 PROVE j \in used
    <3>1. r \in 1..N + 1 /\ j \in 1..N + 1 /\ ~(r <= j)  BY <1>5, <2>3
    <3>2. j \notin D  BY <2>3, <3>1
    <3> QED BY <3>1, <3>2
  <2> QED BY <2>3, <2>4
<1>7. Free(FreshReq(l, x)) /\ FreshReq(l, x) \in 1..N + 1  BY <1>1, <1>6
<1>8. FreshReq(l, x) \in Nat \ {0}  BY <1>5, <1>7
<1> QED BY <1>4, <1>7, <1>8

\* A WANT that was not there before,
IsNew(l, w) ==
  /\ w.t = "WANT" /\ w.req \in Nat \ {0} /\ w.s \in Stream
  /\ w.from = Contig(l[1], w.s) + 1 /\ w.s \notin sealed[l[1]]
  /\ \A m \in Out(l) : "req" \in DOMAIN m => w.req # m.req

\* and a peer state that has turned to such WANTs and may want the streams W besides.
Renews(l, x, y, W) ==
  /\ y.proto = x.proto /\ y.progress = x.progress /\ y.wanted \subseteq x.wanted \cup W
  /\ \A w \in y.active : w \in x.active \/ IsNew(l, w)
  /\ WantReqs(x) => WantReqs(y)

LEMMA RenewsTrans ==
  ASSUME NEW l, NEW x, NEW y, NEW z, NEW W, NEW V, Renews(l, x, y, W), Renews(l, y, z, V)
  PROVE  Renews(l, x, z, W \cup V)
BY DEF Renews

\* What leaves slots and dedupe set alone renews a peer state.
LEMMA RenewsSame ==
  ASSUME NEW l, NEW x, NEW y, y.proto = x.proto, y.progress = x.progress,
         y.active = x.active, y.wanted = x.wanted,
         \A r \in y.reqs : r \in x.reqs \/ r.t # "WANT"
  PROVE  Renews(l, x, y, {})
BY DEF Renews, WantReqs

\* wantNext,
LEMMA WantNextRenews ==
  ASSUME Inv, LaneInv, NEW l \in Link, NEW x, PeerOK(x), NEW s \in Stream,
         IsFiniteSet(x.reqs), IsFiniteSet(x.active)
  PROVE  /\ Renews(l, x, wantNext(l, x, s), {})
         /\ IsFiniteSet(wantNext(l, x, s).reqs) /\ IsFiniteSet(wantNext(l, x, s).active)
<1> DEFINE r == FreshReq(l, x)
           w == [t |-> "WANT", req |-> r, s |-> s, from |-> Contig(l[1], s) + 1]
           a == [x EXCEPT !.wantQueue = Append(@, s)]
           b == [x EXCEPT !.wanted = @ \ {s}]
           c == [x EXCEPT !.active = @ \cup {w}, !.reqs = @ \cup {w}]
<1>1. Renews(l, x, a, {}) /\ a.reqs = x.reqs /\ a.active = x.active
  BY DEF Renews, WantReqs, PeerOK, PeerFields
<1>2. Renews(l, x, b, {}) /\ b.reqs = x.reqs /\ b.active = x.active
  BY DEF Renews, WantReqs, PeerOK, PeerFields
<1>3. \/ /\ Renews(l, x, c, {})
         /\ c.reqs = x.reqs \cup {w} /\ c.active = x.active \cup {w}
      \/ s \in sealed[l[1]]
  <2> SUFFICES ASSUME s \notin sealed[l[1]]
               PROVE  /\ Renews(l, x, c, {})
                      /\ c.reqs = x.reqs \cup {w} /\ c.active = x.active \cup {w}
    OBVIOUS
  <2>1. /\ c.proto = x.proto /\ c.progress = x.progress /\ c.wanted = x.wanted
        /\ c.reqs = x.reqs \cup {w} /\ c.active = x.active \cup {w}
    BY DEF PeerOK, PeerFields
  <2>2. r \in Nat \ {0} /\ \A m \in Out(l) : "req" \in DOMAIN m => r # m.req
    BY FreshAll DEF Out, Asked, Replies, Cuts
  <2>3. /\ w.t = "WANT" /\ w.req = r /\ w.s = s /\ w.from = Contig(l[1], s) + 1  OBVIOUS
  <2> HIDE DEF c, w, r
  <2>4. IsNew(l, w)  BY <2>2, <2>3 DEF IsNew
  <2> QED BY <2>1, <2>4 DEF Renews, WantReqs
<1>4. wantNext(l, x, s) \in {a, b} \/ (wantNext(l, x, s) = c /\ s \notin sealed[l[1]])
  BY DEF wantNext
<1> HIDE DEF a, b, c, w
<1>5. IsFiniteSet(x.reqs \cup {w}) /\ IsFiniteSet(x.active \cup {w})  BY FS_AddElement
<1> QED BY <1>1, <1>2, <1>3, <1>4, <1>5

\* pumpWants,
LEMMA pumpWantsRenews ==
  ASSUME Inv, LaneInv, NEW l \in Link, NEW x, PeerOK(x),
         IsFiniteSet(x.reqs), IsFiniteSet(x.active)
  PROVE  Renews(l, x, pumpWants(l, x), {})
<1> DEFINE q == x.wantQueue
           N == Len(q)
           Good(y) == /\ PeerOK(y) /\ IsFiniteSet(y.reqs) /\ IsFiniteSet(y.active)
                      /\ Renews(l, x, y, {})
<1>1. q \in Seq(Stream) /\ N \in Nat /\ \A i \in 1..N : q[i] \in Stream  BY DEF PeerOK
<1>2. IsSeq(q)  BY <1>1 DEF IsSeq
<1>3. PICK G : /\ G[0] = [x EXCEPT !.wantQueue = << >>]
               /\ \A i \in 1..N : G[i] = wantNext(l, G[i - 1], q[i])
               /\ pumpWants(l, x) = G[N]
  BY <1>2, pumpWantsFold
<1> DEFINE S == {i \in Nat : i <= N => Good(G[i])}
<1>5. 0 \in S
  <2> DEFINE z == [x EXCEPT !.wantQueue = << >>]
  <2>1. PeerOK(z)  BY DEF PeerOK, PeerFields
  <2>2. Renews(l, x, z, {}) /\ z.reqs = x.reqs /\ z.active = x.active
    BY DEF Renews, WantReqs, PeerOK, PeerFields
  <2> HIDE DEF z
  <2>3. Good(z)  BY <2>1, <2>2
  <2>4. Good(G[0])  BY <1>3, <2>3, Zenon DEF z
  <2> QED BY <2>4
<1>6. ASSUME NEW i \in Nat, i \in S PROVE i + 1 \in S
  <2>1. CASE i + 1 <= N
    <3>1. i + 1 \in 1..N /\ (i + 1) - 1 = i /\ i <= N  BY <1>1, <2>1
    <3>2. Good(G[i])  BY <1>6, <3>1
    <3> HIDE DEF q, N
    <3>3. PeerOK(wantNext(l, G[i], q[i + 1]))  BY <1>1, <3>1, <3>2, Parts, WantNextOK
    <3> DEFINE y == wantNext(l, G[i], q[i + 1])
    <3>4. /\ Renews(l, G[i], y, {}) /\ IsFiniteSet(y.reqs) /\ IsFiniteSet(y.active)
      BY <1>1, <3>1, <3>2, WantNextRenews
    <3> HIDE DEF y
    <3>5. Renews(l, x, y, {} \cup {})  BY <3>2, <3>4, RenewsTrans
    <3>6. {} \cup {} = {}  OBVIOUS
    <3>7. Renews(l, x, y, {})  BY <3>5, <3>6
    <3>8. Good(y)  BY <3>3, <3>4, <3>7 DEF y
    <3>9. G[i + 1] = y  BY <1>3, <3>1 DEF y
    <3>10. Good(G[i + 1])  BY <3>8, <3>9, Zenon
    <3> QED BY <3>10
  <2> QED BY <2>1
<1> HIDE DEF S, q, N, Good
<1>8. N \in S  BY <1>1, <1>5, <1>6, NatInduct
<1>9. N <= N  BY <1>1
<1>10. Good(G[N])  BY <1>8, <1>9, Zenon DEF S
<1>11. Renews(l, x, G[N], {})  BY <1>10 DEF Good
<1> QED BY <1>3, <1>11, Zenon

\* queueWant,
LEMMA QueueWantRenews ==
  ASSUME Inv, LaneInv, NEW l \in Link, NEW x, PeerOK(x), NEW L, Slots(x, {}, L),
         NEW s \in Stream
  PROVE  Renews(l, x, queueWant(l, x, s), {s})
<1>1. CASE s \in x.wanted
  <2>1. queueWant(l, x, s) = x  BY <1>1 DEF queueWant
  <2> QED BY <2>1 DEF Renews
<1>2. CASE s \notin x.wanted
  <2> DEFINE y == [x EXCEPT !.wanted = @ \cup {s}, !.wantQueue = Append(@, s)]
  <2>1. PeerOK(y)  BY DEF PeerOK, PeerFields
  <2>2. /\ y.proto = x.proto /\ y.progress = x.progress /\ y.wanted = x.wanted \cup {s}
        /\ y.active = x.active /\ y.reqs = x.reqs
    BY DEF PeerOK, PeerFields
  <2>3. queueWant(l, x, s) = pumpWants(l, y)  BY <1>2 DEF queueWant
  <2> HIDE DEF y
  <2>4. Renews(l, x, y, {s})  BY <2>2 DEF Renews, WantReqs
  <2>5. Renews(l, y, pumpWants(l, y), {})  BY <2>1, <2>2, pumpWantsRenews DEF Slots
  <2>6. Renews(l, x, pumpWants(l, y), {s} \cup {})  BY <2>4, <2>5, RenewsTrans
  <2>7. {s} \cup {} = {s}  OBVIOUS
  <2> QED BY <2>3, <2>6, <2>7, Zenon
<1> QED BY <1>1, <1>2

\* finishWant, which leaves the stream of the request unwanted.
LEMMA FinishWantRenews ==
  ASSUME Inv, LaneInv, NEW l \in Link, NEW x, PeerOK(x), NEW L, Slots(x, {}, L), NEW r
  PROVE  /\ Renews(l, x, finishWant(l, x, r), {})
         /\ \A w \in x.active : w.req = r => w.s \notin finishWant(l, x, r).wanted
<1>1. CASE \A w \in x.active : w.req # r
  <2>1. finishWant(l, x, r) = x  BY <1>1 DEF finishWant
  <2> QED BY <1>1, <2>1 DEF Renews
<1>2. CASE \E w \in x.active : w.req = r
  <2> DEFINE w == CHOOSE w \in x.active : w.req = r
             y == [x EXCEPT !.active = @ \ {w}, !.reqs = @ \ {w}, !.wanted = @ \ {w.s}]
  <2>1. w \in x.active /\ w.req = r  BY <1>2
  <2>2. finishWant(l, x, r) = pumpWants(l, y)  BY <1>2 DEF finishWant
  <2> HIDE DEF w
  <2>3. PeerOK(y)  BY DEF PeerOK, PeerFields
  <2>4. /\ y.active = x.active \ {w} /\ y.reqs = x.reqs \ {w} /\ y.wanted = x.wanted \ {w.s}
        /\ y.proto = x.proto /\ y.progress = x.progress
    BY DEF PeerOK, PeerFields
  <2> HIDE DEF y
  <2>5. Renews(l, x, y, {})  BY <2>4 DEF Renews, WantReqs
  <2>6. IsFiniteSet(y.active) /\ IsFiniteSet(y.reqs)  BY <2>4, FS_Subset DEF Slots
  <2>7. Renews(l, y, pumpWants(l, y), {})  BY <2>3, <2>6, pumpWantsRenews
  <2>8. Renews(l, x, pumpWants(l, y), {} \cup {})  BY <2>5, <2>7, RenewsTrans
  <2>9. {} \cup {} = {}  OBVIOUS
  <2>10. pumpWants(l, y).wanted \subseteq x.wanted \ {w.s}  BY <2>4, <2>7 DEF Renews
  <2>11. \A v \in x.active : v.req = r => v = w  BY <2>1 DEF Slots
  <2>12. Renews(l, x, finishWant(l, x, r), {})  BY <2>2, <2>8, <2>9, Zenon
  <2> QED BY <2>2, <2>10, <2>11, <2>12
<1> QED BY <1>1, <1>2

\* A vector compared,
LEMMA CompareRenews ==
  ASSUME Inv, LaneInv, NEW l \in Link, NEW a, RoundAt(a), NEW L, Slots(a.x, {}, L),
         NEW w, w.s \in Stream, w.chain \in Seq(Content)
  PROVE  Renews(l, a.x, comparePeer(l, a, w).x, Stream)
<1> DEFINE x == [a.x EXCEPT !.known[w.s] = Len(w.chain)]
           at == Len(w.chain)
           mine == Contig(l[1], w.s)
           y == CASE at > mine -> queueWant(l, x, w.s)
                  [] at < mine -> markDirty(x, w.s)
                  [] at = mine -> x
           d == markDirty(x, w.s)
           f == locateFork(x, w.s, at)
<1>1. at \in Nat /\ mine \in Nat  BY LinkEnds, Parts, LogBounds
<1>2. PeerOK(x)  BY DEF RoundAt, PeerOK, PeerFields
<1>3. SameWants(a.x, x) /\ Renews(l, a.x, x, {})
  BY DEF SameWants, Renews, WantReqs, RoundAt, PeerOK, PeerFields
<1>4. comparePeer(l, a, w) \in {[a EXCEPT !.x = x], [a EXCEPT !.x = y],
                                [x |-> f, seals |-> a.seals \cup {w.s}]}
  BY DEF comparePeer
<1> HIDE DEF x, mine
<1>5. Renews(l, x, d, {})  BY <1>2 DEF markDirty, Renews, WantReqs, PeerOK, PeerFields
<1>6. Renews(l, x, f, {})
  <2> DEFINE seqs == {at - k : k \in {0} \cup {2^i : i \in 0..MaxSeq}} \cap 1..at
             r == [t |-> "PROBE", s |-> w.s, seqs |-> seqs, upTo |-> at]
             keep == {v \in x.reqs : v.t # "PROBE" \/ v.s # w.s}
  <2>1. f = [x EXCEPT !.reqs = keep \cup {r}]  BY DEF locateFork
  <2>2. r.t # "WANT"  OBVIOUS
  <2> HIDE DEF f, r
  <2>3. /\ f.proto = x.proto /\ f.progress = x.progress /\ f.active = x.active
        /\ f.wanted = x.wanted /\ f.reqs = keep \cup {r}
    BY <1>2, <2>1 DEF PeerOK, PeerFields
  <2>4. \A v \in f.reqs : v \in x.reqs \/ v.t # "WANT"  BY <2>2, <2>3
  <2> HIDE DEF keep
  <2> QED BY <2>3, <2>4, RenewsSame
<1> HIDE DEF at, d, f
<1>7. Renews(l, x, y, {w.s})
  <2>1. Slots(x, {}, L)  BY <1>3, SlotsSame
  <2>2. Renews(l, x, queueWant(l, x, w.s), {w.s})  BY <1>2, <2>1, QueueWantRenews
  <2>3. Renews(l, x, x, {})  BY DEF Renews
  <2>4. y \in {x, d, queueWant(l, x, w.s)}  BY <1>1 DEF d
  <2> HIDE DEF y
  <2> QED BY <1>5, <2>2, <2>3, <2>4 DEF Renews
<1> HIDE DEF y
<1>8. comparePeer(l, a, w).x \in {x, y, f}  BY <1>4 DEF RoundAt
<1>9. \A z \in {x, y, f} : Renews(l, a.x, z, {w.s})  BY <1>3, <1>6, <1>7 DEF Renews
<1> QED BY <1>8, <1>9 DEF Renews

\* and a whole round of them.
LEMMA compareAllRenews ==
  ASSUME Inv, LaneInv, NEW l \in Link, NEW x, PeerOK(x), NEW L, Slots(x, {}, L),
         NEW ws, IsFiniteSet(ws), \A w \in ws : w.s \in Stream /\ w.chain \in Seq(Content)
  PROVE  Renews(l, x, compareAll(l, x, ws).x, Stream)
<1>1. PICK F : Compares(F, l, x, ws) /\ compareAll(l, x, ws) = F[ws]  BY compareAllFold
<1> DEFINE Good(a) == RoundAt(a) /\ Slots(a.x, {}, L) /\ Renews(l, x, a.x, Stream)
           G == {t \in SUBSET ws : Good(F[t])}
<1>2. {} \in G
  <2>1. F[{}] = [x |-> x, seals |-> {}]  BY <1>1 DEF Compares
  <2>2. Renews(l, x, x, Stream)  BY DEF Renews
  <2> QED BY <2>1, <2>2 DEF RoundAt
<1>3. ASSUME NEW t \in SUBSET ws, t # {} PROVE \E e \in t : t \ {e} \in G => t \in G
  <2>1. PICK e \in t : F[t] = comparePeer(l, F[t \ {e}], e)
    BY <1>1, <1>3 DEF Compares
  <2>2. ASSUME NEW a, Good(a) PROVE Good(comparePeer(l, a, e))
    <3>1. e.s \in Stream /\ e.chain \in Seq(Content)  OBVIOUS
    <3> DEFINE b == comparePeer(l, a, e)
    <3>2. RoundAt(b)  BY <2>2, <3>1, Parts, CompareOK
    <3>3. Slots(b.x, {}, L)  BY <2>2, <3>1, CompareSlots
    <3>4. Renews(l, a.x, b.x, Stream)  BY <2>2, <3>1, CompareRenews
    <3> HIDE DEF b
    <3>5. Renews(l, x, b.x, Stream \cup Stream)  BY <2>2, <3>4, RenewsTrans
    <3>6. Stream \cup Stream = Stream  OBVIOUS
    <3>7. Renews(l, x, b.x, Stream)  BY <3>5, <3>6
    <3>8. Good(b)  BY <3>2, <3>3, <3>7
    <3> QED BY <3>8 DEF b
  <2> HIDE DEF Good
  <2>3. t \ {e} \in G => t \in G  BY <2>1, <2>2
  <2> QED BY <2>3
<1> HIDE DEF G
<1>4. \A t \in SUBSET ws : t \in G  BY <1>2, <1>3, SetInduct
<1> QED BY <1>1, <1>4 DEF G

\* Steps.  No head moves back and no seal is lifted,
Grown ==
  \A n \in Node, s \in Stream : /\ Contig(n, s)' \in Nat /\ Contig(n, s) <= Contig(n, s)'
                               /\ sealed[n] \subseteq sealed'[n]

\* a peer state keeps its WANTs or turns to new ones,
Moves(l) ==
  /\ ps'[l].proto = ps[l].proto /\ WantReqs(ps'[l])
  /\ \A w \in ps'[l].active : w \in ps[l].active \/ IsNew(l, w)

\* a message or an operation bears the number of a WANT or of another that was there,
Traced(l, m) ==
  /\ "req" \in DOMAIN m
  /\ m.req = 0 \/ m \in ps'[l].active \/ \E o \in Out(l) : o.req = m.req /\ o.s = m.s

Sent(l) ==
  /\ \A m \in Out(l)' : Traced(l, m)
  /\ \A m \in Asked(l)' : m \in Asked(l) \/ m \in ps'[l].active
  /\ Cuts(l)' \subseteq Cuts(l) \/ ps[l].proto >= 3

\* and a count starts over or stays while the stream stays.
Kept(l, s) ==
  \/ fruitless'[l][s] = 0
  \/ fruitless'[l][s] = fruitless[l][s] /\ Contig(l[1], s)' = Contig(l[1], s)

LEMMA GrownSame ==
  ASSUME Inv, UNCHANGED log, \A n \in Node : sealed[n] \subseteq sealed'[n]
  PROVE  Grown
<1> SUFFICES ASSUME NEW n \in Node, NEW s \in Stream
             PROVE  Contig(n, s)' \in Nat /\ Contig(n, s) <= Contig(n, s)'
  BY DEF Grown
<1>1. Contig(n, s) \in Nat  BY Parts, LogBounds
<1>2. Contig(n, s)' = Contig(n, s)  BY DEF Contig
<1> QED BY <1>1, <1>2

LEMMA AsksKept ==
  ASSUME Inv, LaneInv', Grown, NEW l \in Link, AsksOK(l), Moves(l), Moves(Back(l)), Sent(l)
  PROVE  AsksOK(l)'
<1> DEFINE n == l[1]
<1>1. n \in Node /\ Back(l) \in Link  BY LinkEnds
<1>2. \A s \in Stream : /\ Contig(n, s) \in Nat /\ Contig(n, s) <= Contig(n, s)'
                        /\ Contig(n, s)' \in Nat
  BY <1>1, Parts, LogBounds DEF Grown
<1>3. ASSUME NEW w \in ps'[l].active
      PROVE  /\ w.req # 0 /\ w.s \in Stream /\ w.from \in Nat /\ w.from <= Contig(n, w.s) + 1
             /\ \A o \in Out(l) : o.req = w.req => o.s = w.s
  <2>1. CASE w \in ps[l].active  BY <2>1 DEF AsksOK
  <2>2. CASE IsNew(l, w)
    <3>1. Contig(n, w.s) \in Nat  BY <1>2, <2>2 DEF IsNew
    <3>2. \A o \in Out(l) : o.req # w.req  BY <2>2 DEF IsNew, AsksOK
    <3> QED BY <2>2, <3>1, <3>2 DEF IsNew
  <2> QED BY <1>3, <2>1, <2>2 DEF Moves
<1>4. \A s \in Stream, k \in Nat : k <= Contig(n, s) + 1 => k <= Contig(n, s)' + 1
  <2> SUFFICES ASSUME NEW s \in Stream, NEW k \in Nat, k <= Contig(n, s) + 1
               PROVE  k <= Contig(n, s)' + 1
    OBVIOUS
  <2> QED BY <1>2
<1>5. ASSUME NEW w \in ps'[l].active, NEW m \in Out(l)', m.req = w.req PROVE m.s = w.s
  <2>1. \A v \in ps'[l].active : v.req = w.req => v = w  BY DEF LaneInv, Slots
  <2> QED BY <1>3, <1>5, <2>1 DEF Sent, Traced
<1>6. ASSUME NEW m \in Asked(l)' PROVE m.from <= Contig(n, m.s)' + 1
  <2>1. CASE m \in Asked(l)
    <3>1. m.s \in Stream /\ m.from \in Nat
      <4>1. MsgOK(World, l, m) /\ m.t = "WANT"  BY <2>1, Parts DEF CtlOK, Asked
      <4>2. MaxSeq \in Nat  BY Sizes
      <4> QED BY <4>1, <4>2 DEF MsgOK, ReqOK, PageOK
    <3>2. m.from <= Contig(n, m.s) + 1  BY <2>1 DEF AsksOK
    <3> QED BY <1>4, <3>1, <3>2
  <2>2. CASE m \in ps'[l].active  BY <1>3, <1>4, <2>2
  <2> QED BY <1>6, <2>1, <2>2 DEF Sent
<1>7. ps'[l].proto = ps'[Back(l)].proto  BY DEF Moves, AsksOK
<1>8. \A m \in Cuts(l)' : ps'[l].proto >= 3  BY DEF Sent, Moves, AsksOK
<1>9. \A m \in Out(l)' : "req" \in DOMAIN m  BY DEF Sent, Traced
<1>10. WantReqs(ps'[l])  BY DEF Moves
<1> HIDE DEF n
<1>11. \A w \in ps'[l].active :
         /\ w.req # 0 /\ w.s \in Stream /\ w.from \in Nat /\ w.from <= Contig(n, w.s)' + 1
         /\ \A m \in Out(l)' : m.req = w.req => m.s = w.s
  BY <1>3, <1>4, <1>5
<1> QED BY <1>6, <1>7, <1>8, <1>9, <1>10, <1>11 DEF AsksOK, n
LEMMA EmptiesKept ==
  ASSUME Inv, Grown, NEW l \in Link, EmptiesOK(l), Moves(l),
         ps[l].proto >= 3 =>
           /\ \A f \in ToSet(lane'[Back(l)]) : 
                \/ f \in ToSet(lane[Back(l)])
                \/ f.s \in Stream /\ EmptyOK(l[1], f)
           /\ \A q \in Items(l[1])' : q.t = "entries" /\ q.link = l =>
                \/ q \in Items(l[1])
                \/ q.req = 0
                \/ \E f \in ToSet(lane[Back(l)]) :
                     q.req = f.req /\ q.entries = f.entries /\ q.to = f.to /\ q.s = f.s
  PROVE  EmptiesOK(l)'
<1> DEFINE n == l[1]
<1>1. SUFFICES ASSUME ps'[l].proto >= 3
               PROVE  /\ \A f \in ToSet(lane'[Back(l)]) : EmptyOK(n, f)'
                      /\ \A q \in Items(n)' : q.t = "entries" /\ q.link = l => EmptyOK(n, q)'
  BY DEF EmptiesOK
<1>2. ps[l].proto >= 3 /\ n \in Node /\ Back(l) \in Link  BY <1>1, LinkEnds DEF Moves
<1>3. ASSUME NEW q, EmptyOK(n, q), q.s \in Stream PROVE EmptyOK(n, q)'
  <2>1. Contig(n, q.s) \in Nat /\ Contig(n, q.s)' \in Nat /\ Contig(n, q.s) <= Contig(n, q.s)'
    BY <1>2, <1>3, Parts, LogBounds DEF Grown
  <2> QED BY <1>3, <2>1 DEF EmptyOK
<1>4. \A f \in ToSet(lane[Back(l)]) : EmptyOK(n, f) /\ f.s \in Stream
  BY <1>2, Parts DEF EmptiesOK, LaneOK, FrameOK
<1>5. \A q \in Items(n) : q.s \in Stream
  BY <1>2, Parts DEF Items, QueueOK, SettledOK, ItemOK, DoneOK
<1>6. ASSUME NEW f \in ToSet(lane'[Back(l)]) PROVE EmptyOK(n, f) /\ f.s \in Stream
  BY <1>2, <1>4
<1>7. ASSUME NEW q \in Items(n)', q.t = "entries", q.link = l
      PROVE  q.req = 0 \/ (EmptyOK(n, q) /\ q.s \in Stream)
  <2>1. CASE q \in Items(n)  BY <1>2, <1>5, <1>7, <2>1 DEF EmptiesOK
  <2>2. CASE \E f \in ToSet(lane[Back(l)]) :
               q.req = f.req /\ q.entries = f.entries /\ q.to = f.to /\ q.s = f.s
    BY <1>4, <2>2 DEF EmptyOK
  <2> QED BY <1>2, <1>7, <2>1, <2>2
<1> HIDE DEF n
<1>8. \A q : q.req = 0 => EmptyOK(n, q)'  BY DEF EmptyOK
<1> QED BY <1>3, <1>6, <1>7, <1>8

\* A count starts over,
LEMMA CountZero ==
  ASSUME NEW l \in Link, NEW s \in Stream, fruitless'[l][s] = 0,
         s \in DOMAIN ps'[l].progress, ps'[l].progress[s] \in Int
  PROVE  CountOK(l, s)'
BY DEF CountOK

\* or nothing is wanted that was not, and the head is where it was.
LEMMA CountKept ==
  ASSUME Inv, LaneInv', NEW l \in Link, NEW s \in Stream, CountOK(l, s), Moves(l),
         fruitless'[l][s] = fruitless[l][s], Contig(l[1], s)' = Contig(l[1], s),
         sealed[l[1]] \subseteq sealed'[l[1]],
         DOMAIN ps'[l].progress = DOMAIN ps[l].progress, ps'[l].progress[s] = ps[l].progress[s],
         s \in ps'[l].wanted => s \in ps[l].wanted
  PROVE  CountOK(l, s)'
<1> DEFINE n == l[1]
           c == fruitless[l][s]
<1>1. Contig(n, s) \in Nat  BY LinkEnds, Parts, LogBounds
<1>2. ASSUME NEW w \in ps'[l].active, w.s = s
      PROVE  /\ w.from <= Contig(n, s) => c = 0
             /\ c # 2
  <2>1. CASE w \in ps[l].active  BY <1>2, <2>1 DEF CountOK, Held
  <2>2. CASE IsNew(l, w)
    <3>1. w.from = Contig(n, s) + 1 /\ s \notin sealed[n]  BY <1>2, <2>2 DEF IsNew
    <3>2. s \in ps'[l].wanted  BY <1>2 DEF LaneInv, Slots, Held
    <3> QED BY <1>1, <3>1, <3>2 DEF CountOK
  <2> QED BY <1>2, <2>1, <2>2 DEF Moves
<1> HIDE DEF n
<1>3. c = 2 => s \notin Held(ps'[l])  BY <1>2 DEF Held
<1> QED BY <1>2, <1>3 DEF CountOK, n

\* A floor on its way stays what it is: the count is as it was or the floor is not reached.
Spared(n, q) == Kept(q.link, q.s) \/ ~(Contig(n, q.s)' >= Len(q.chain))

LEMMA FloorKept ==
  ASSUME Inv, NEW n \in Node, NEW q \in Items(n), IsFloor(q), FloorOK(n, q), Moves(q.link),
         AsksOK(q.link), CountOK(q.link, q.s), Spared(n, q)
  PROVE  FloorOK(n, q)'
<1> DEFINE l == q.link
<1>1. l \in Link /\ l[1] = n /\ q.s \in Stream
  BY Parts DEF Items, QueueOK, SettledOK, ItemOK, DoneOK
<1>2. q \in Out(l)  BY <1>1 DEF Out, Replies
<1> HIDE DEF l
<1>3. ASSUME NEW w \in ps'[l].active, w.req = q.req PROVE w \in ps[l].active
  BY <1>2, <1>3 DEF Moves, IsNew, AsksOK, l
<1>4. ASSUME \A w \in ps'[l].active : w.req # q.req, Contig(n, q.s)' >= Len(q.chain),
             fruitless'[l][q.s] # 0
      PROVE  FALSE
  <2>1. fruitless'[l][q.s] = fruitless[l][q.s] /\ Contig(n, q.s)' = Contig(n, q.s)
    BY <1>1, <1>4 DEF Kept, Spared, l
  <2>2. PICK w \in ps[l].active : w.req = q.req
    BY <1>4, <2>1 DEF FloorOK, l
  <2>3. w.from <= Len(q.chain) /\ w.s = q.s /\ w.from \in Nat /\ Len(q.chain) \in Nat
    BY <1>2, <2>2 DEF FloorOK, AsksOK, l
  <2>4. Contig(n, q.s) \in Nat  BY <1>1, Parts, LogBounds
  <2>5. w.from <= Contig(n, q.s)  BY <1>4, <2>1, <2>3, <2>4
  <2>6. fruitless[l][q.s] = 0  BY <1>1, <2>2, <2>3, <2>5 DEF CountOK, l
  <2> QED BY <1>4, <2>1, <2>6
<1>5. ps'[l].proto >= 3 /\ Len(q.chain) \in Nat /\ "refused" \in DOMAIN q  BY DEF FloorOK, Moves, l
<1>6. \A w \in ps'[l].active : w.req = q.req => w.from <= Len(q.chain)
  BY <1>3 DEF FloorOK, l
<1> QED BY <1>4, <1>5, <1>6 DEF FloorOK, l

\* The order of the operations stays.
LEMMA OrderKept ==
  ASSUME Inv, NEW n \in Node, Order(ps, queue[n], settled[n]),
         \A l \in Link : AsksOK(l) /\ Moves(l)
  PROVE  Order(ps', queue[n], settled[n])
<1>1. ASSUME NEW a \in Items(n), NEW b \in Items(n), Follows(ps, a, b) PROVE Follows(ps', a, b)
  <2>1. /\ a.link \in Link /\ a.link[1] = n
    BY Parts DEF Items, QueueOK, SettledOK, ItemOK, DoneOK
  <2>2. a \in Out(a.link)  BY <2>1 DEF Out, Replies
  <2>3. \A w \in ps'[a.link].active : w.req = a.req => w \in ps[a.link].active
    BY <2>1, <2>2 DEF Moves, IsNew, AsksOK
  <2> QED BY <1>1, <2>3 DEF Follows
<1>2. \A i \in DOMAIN queue[n] : queue[n][i] \in Items(n)  BY DEF Items, ToSet
<1>3. \A i \in DOMAIN settled[n] : settled[n][i] \in Items(n)  BY DEF Items, ToSet
<1>4. Chained(ps', queue[n])  BY <1>1, <1>2 DEF Order, Chained
<1>5. Chained(ps', settled[n])  BY <1>1, <1>3 DEF Order, Chained
<1>6. \A a \in ToSet(settled[n]), b \in ToSet(queue[n]) : Follows(ps', a, b)
  BY <1>1 DEF Order, Items
<1> QED BY <1>4, <1>5, <1>6 DEF Order

\* The floors on their way, when some were and the others are in order,
LEMMA FloorsAt ==
  ASSUME Inv, SpinInv, Grown, NEW n \in Node,
         \A l \in Link : Moves(l), \A p \in Items(n) : IsFloor(p) => Spared(n, p),
         \A q \in Items(n)' : IsFloor(q) =>
           \/ FloorOK(n, q)'
           \/ \E p \in Items(n) : /\ IsFloor(p) /\ p.link = q.link /\ p.s = q.s /\ p.req = q.req
                                  /\ p.chain = q.chain /\ DOMAIN p = DOMAIN q,
         \A q \in ToSet(settled'[n]) : IsFloor(q) /\ ~q.refused =>
           q \in ToSet(settled[n]) \/ Contig(n, q.s)' >= Len(q.chain),
         Order(ps', queue'[n], settled'[n])
  PROVE  FloorsOK(n)'
<1>1. ASSUME NEW p \in Items(n), IsFloor(p) PROVE FloorOK(n, p)'
  <2>1. p.link \in Link /\ p.s \in Stream
    BY Parts DEF Items, QueueOK, SettledOK, ItemOK, DoneOK
  <2> QED BY <1>1, <2>1, FloorKept DEF SpinInv, FloorsOK
<1>2. ASSUME NEW q \in Items(n)', IsFloor(q) PROVE FloorOK(n, q)'
  <2>1. CASE \E p \in Items(n) : /\ IsFloor(p) /\ p.link = q.link /\ p.s = q.s
                                 /\ p.req = q.req /\ p.chain = q.chain /\ DOMAIN p = DOMAIN q
    <3>1. PICK p \in Items(n) : /\ IsFloor(p) /\ p.link = q.link /\ p.s = q.s
                                /\ p.req = q.req /\ p.chain = q.chain /\ DOMAIN p = DOMAIN q
      BY <2>1
    <3>2. FloorOK(n, p)'  BY <1>1, <3>1
    <3> QED BY <3>1, <3>2 DEF FloorOK
  <2> QED BY <1>2, <2>1
<1>3. ASSUME NEW q \in ToSet(settled[n]), IsFloor(q), ~q.refused
      PROVE  Contig(n, q.s)' >= Len(q.chain)
  <2>1. q.s \in Stream  BY Parts DEF SettledOK, DoneOK
  <2>2. q \in Items(n)  BY DEF Items
  <2>3. Contig(n, q.s) >= Len(q.chain) /\ Len(q.chain) \in Nat
    BY <1>3, <2>2 DEF SpinInv, FloorsOK, FloorOK
  <2>4. Contig(n, q.s) \in Nat  BY <2>1, Parts, LogBounds
  <2> QED BY <2>1, <2>3, <2>4 DEF Grown
<1> QED BY <1>2, <1>3 DEF FloorsOK

LEMMA AllSpared ==
  ASSUME Inv, NEW n \in Node, \A l \in Link, s \in Stream : Kept(l, s)
  PROVE  \A p \in Items(n) : Spared(n, p)
BY Parts DEF Spared, Items, QueueOK, SettledOK, ItemOK, DoneOK

\* and with queue and callbacks as they were.
LEMMA FloorsKept ==
  ASSUME Inv, SpinInv, Grown, NEW n \in Node, queue'[n] = queue[n], settled'[n] = settled[n],
         \A l \in Link : Moves(l) /\ \A s \in Stream : Kept(l, s)
  PROVE  FloorsOK(n)'
<1>1. Order(ps', queue'[n], settled'[n])  BY OrderKept DEF SpinInv, FloorsOK
<1>2. Items(n)' = Items(n)  BY DEF Items
<1>3. \A q \in Items(n)' : IsFloor(q) =>
        \E p \in Items(n) : /\ IsFloor(p) /\ p.link = q.link /\ p.s = q.s /\ p.req = q.req
                            /\ p.chain = q.chain /\ DOMAIN p = DOMAIN q
  BY <1>2
<1>4. \A q \in ToSet(settled'[n]) : q \in ToSet(settled[n])  OBVIOUS
<1>5. \A p \in Items(n) : Spared(n, p)  BY AllSpared
<1> QED BY <1>1, <1>3, <1>4, <1>5, FloorsAt

LEMMA RenewsMoves ==
  ASSUME NEW l \in Link, WantReqs(ps[l]), NEW W, Renews(l, ps[l], ps'[l], W)
  PROVE  Moves(l)
BY DEF Renews, Moves

LEMMA TracedSame ==
  ASSUME NEW l \in Link, AsksOK(l), NEW m \in Out(l)
  PROVE  Traced(l, m)
BY DEF AsksOK, Traced

\* What is new on a control lane is a request of its node, neither a WANT nor a floor,
\* or the floor some WANT was answered with.
Says(k) ==
  \A m \in ctl'[k] :
    \/ m \in ctl[k] \cup ps'[k].reqs
    \/ m.t \notin {"WANT", "TRUNCATED"}
    \/ m.t = "TRUNCATED" /\ ps[Back(k)].proto >= 3 /\ Traced(Back(k), m)

LEMMA SentBy ==
  ASSUME Inv', LaneInv', NEW l \in Link, AsksOK(l), Moves(l), \A k \in Link : Says(k),
         \A f \in ToSet(lane'[Back(l)]) : Traced(l, f),
         \A q \in Items(l[1])' : q.link = l => Traced(l, q)
  PROVE  Sent(l)
<1>1. Back(l) \in Link /\ Back(Back(l)) = l
  <2>1. Link \subseteq Node \X Node  BY Topology
  <2> QED BY <2>1, LinkEnds DEF Back
<1>2. \A k \in Link : \A r \in ps'[k].reqs : r.t # "TRUNCATED"
  BY DEF Inv, PeersOK, PeerOK, ReqOK
<1>3. ASSUME NEW m \in Asked(l)'
      PROVE  (m \in Asked(l) \/ m \in ps'[l].active) /\ Traced(l, m)
  <2>1. m \in ctl'[l] /\ m.t = "WANT"  BY <1>3 DEF Asked
  <2>2. CASE m \in ctl[l]
    <3>1. m \in Asked(l) /\ m \in Out(l)  BY <2>1, <2>2 DEF Asked, Out
    <3> QED BY <3>1, TracedSame
  <2>3. CASE m \in ps'[l].reqs
    <3>1. m \in ps'[l].active  BY <2>1, <2>3 DEF Moves, WantReqs
    <3>2. "req" \in DOMAIN m  BY <3>1 DEF LaneInv, Slots
    <3> QED BY <3>1, <3>2 DEF Traced
  <2> QED BY <2>1, <2>2, <2>3 DEF Says
<1>4. ASSUME NEW m \in Cuts(l)'
      PROVE  (m \in Cuts(l) \/ ps[l].proto >= 3) /\ Traced(l, m)
  <2>1. m \in ctl'[Back(l)] /\ m.t = "TRUNCATED"  BY <1>4 DEF Cuts
  <2>2. CASE m \in ctl[Back(l)]
    <3>1. m \in Cuts(l) /\ m \in Out(l)  BY <2>1, <2>2 DEF Cuts, Out, Replies
    <3> QED BY <3>1, TracedSame
  <2>3. CASE ps[l].proto >= 3 /\ Traced(l, m)  BY <2>3
  <2>4. m \notin ps'[Back(l)].reqs  BY <1>1, <1>2, <2>1
  <2> QED BY <1>1, <2>1, <2>2, <2>3, <2>4 DEF Says
<1>5. ASSUME NEW m \in Out(l)' PROVE Traced(l, m)
  <2>1. \/ m \in Asked(l)' \/ m \in Cuts(l)' \/ m \in ToSet(lane'[Back(l)])
        \/ m \in Items(l[1])' /\ m.link = l
    BY DEF Out, Replies
  <2> QED BY <1>3, <1>4, <2>1
<1> QED BY <1>3, <1>4, <1>5 DEF Sent

\* A step keeps all of it.
LEMMA SpinStep ==
  ASSUME Inv, SpinInv, LaneInv', Grown,
         DOMAIN fruitless' = Link, \A l \in Link : DOMAIN fruitless'[l] = Stream,
         \A l \in Link : Moves(l) /\ Sent(l) /\ EmptiesOK(l)' /\ \A s \in Stream : CountOK(l, s)',
         \A n \in Node : FloorsOK(n)'
  PROVE  SpinInv'
<1>1. \A l \in Link : Back(l) \in Link  BY LinkEnds
<1>2. ASSUME NEW l \in Link PROVE AsksOK(l)'  BY <1>1, AsksKept DEF SpinInv
<1> QED BY <1>2 DEF SpinInv

\* What is new on a data lane answers a WANT, with nothing only up to where it asked from.
Carries(l) ==
  \A f \in ToSet(lane'[Back(l)]) :
    \/ f \in ToSet(lane[Back(l)])
    \/ /\ Traced(l, f) /\ f.s \in Stream
       /\ ps[l].proto >= 3 => EmptyOK(l[1], f)

\* What is new in the commit queue answers a WANT as the message it came with.
Comes(n, q) ==
  \/ q \in Items(n)
  \/ /\ Traced(q.link, q)
     /\ q.t = "entries" => q.req = 0 \/ \E f \in ToSet(lane[Back(q.link)]) :
          q.req = f.req /\ q.entries = f.entries /\ q.to = f.to /\ q.s = f.s

LEMMA LaneSpin ==
  ASSUME Inv, SpinInv, Inv', LaneInv', Grown,
         DOMAIN fruitless' = Link, \A l \in Link : DOMAIN fruitless'[l] = Stream,
         \A l \in Link : Moves(l) /\ Says(l) /\ Carries(l) /\ \A s \in Stream : CountOK(l, s)',
         \A n \in Node : (\A q \in Items(n)' : Comes(n, q)) /\ FloorsOK(n)'
  PROVE  SpinInv'
<1>1. ASSUME NEW l \in Link PROVE Sent(l)
  <2>1. AsksOK(l)  BY DEF SpinInv
  <2>2. \A m \in Out(l) : Traced(l, m)  BY <2>1, TracedSame
  <2>3. \A f \in ToSet(lane'[Back(l)]) : Traced(l, f)
    BY <2>2 DEF Carries, Out, Replies
  <2>4. \A q \in Items(l[1])' : q.link = l => Traced(l, q)
    BY <2>2, LinkEnds DEF Comes, Out, Replies
  <2> QED BY <2>1, <2>3, <2>4, SentBy
<1>2. ASSUME NEW l \in Link PROVE EmptiesOK(l)'
  <2>1. EmptiesOK(l)  BY DEF SpinInv
  <2>2. \A f \in ToSet(lane'[Back(l)]) : \/ f \in ToSet(lane[Back(l)])
                                         \/ ps[l].proto >= 3 => f.s \in Stream /\ EmptyOK(l[1], f)
    BY DEF Carries
  <2>3. \A q \in Items(l[1])' : q.t = "entries" /\ q.link = l =>
                \/ q \in Items(l[1])
                \/ q.req = 0
                \/ \E f \in ToSet(lane[Back(l)]) :
                     q.req = f.req /\ q.entries = f.entries /\ q.to = f.to /\ q.s = f.s
    BY LinkEnds DEF Comes
  <2> QED BY <2>1, <2>2, <2>3, EmptiesKept
<1> QED BY <1>1, <1>2, SpinStep

\* A count while nothing is wanted that was not.
LEMMA CountStep ==
  ASSUME Inv, LaneInv', Grown, NEW l \in Link, NEW s \in Stream, CountOK(l, s), Moves(l), Kept(l, s),
         ps'[l].progress = ps[l].progress,
         s \in ps'[l].wanted => s \in ps[l].wanted \/ fruitless'[l][s] = 0
  PROVE  CountOK(l, s)'
<1>1. s \in DOMAIN ps'[l].progress /\ ps'[l].progress[s] \in Int  BY DEF CountOK
<1>2. CASE fruitless'[l][s] = 0  BY <1>1, <1>2, CountZero
<1>3. CASE fruitless'[l][s] # 0
  <2>1. fruitless'[l][s] = fruitless[l][s] /\ Contig(l[1], s)' = Contig(l[1], s)
    BY <1>3 DEF Kept
  <2>2. (s \in ps'[l].wanted => s \in ps[l].wanted) /\ sealed[l[1]] \subseteq sealed'[l[1]]
    BY <1>3, LinkEnds DEF Grown
  <2> QED BY <1>3, <2>1, <2>2, CountKept
<1> QED BY <1>2, <1>3

\* A step that completes no WANT round.
LEMMA WorkSpin ==
  ASSUME Inv, SpinInv, Inv', LaneInv', Grown,
         DOMAIN fruitless' = Link, \A l \in Link : DOMAIN fruitless'[l] = Stream,
         \A l \in Link : Renews(l, ps[l], ps'[l], Stream) /\ Says(l) /\ Carries(l),
         \A l \in Link, s \in Stream :
           Kept(l, s) /\ (s \in ps'[l].wanted => s \in ps[l].wanted \/ fruitless'[l][s] = 0),
         \A n \in Node : (\A q \in Items(n)' : Comes(n, q)) /\ FloorsOK(n)'
  PROVE  SpinInv'
<1>1. ASSUME NEW l \in Link PROVE Moves(l)  BY RenewsMoves DEF SpinInv, AsksOK
<1>2. ASSUME NEW l \in Link, NEW s \in Stream PROVE CountOK(l, s)'
  <2>1. CountOK(l, s) /\ ps'[l].progress = ps[l].progress  BY DEF SpinInv, Renews
  <2> QED BY <1>1, <2>1, CountStep
<1> QED BY <1>1, <1>2, LaneSpin

\* A step that touches neither the log nor the commit queue.
LEMMA CalmSpin ==
  ASSUME Inv, SpinInv, Inv', LaneInv', UNCHANGED <<log, sealed, queue, settled, fruitless>>,
         \A l \in Link : Renews(l, ps[l], ps'[l], {}) /\ Says(l) /\ Carries(l)
  PROVE  SpinInv'
<1>1. Grown  BY GrownSame
<1>2. \A l \in Link, s \in Stream : Kept(l, s)  BY DEF Kept, Contig
<1>3. \A l \in Link : Moves(l)  BY RenewsMoves DEF SpinInv, AsksOK
<1>4. \A n \in Node : FloorsOK(n)'
  <2>1. UNCHANGED <<queue, settled>>  OBVIOUS
  <2> QED BY <1>1, <1>2, <1>3, <2>1, FloorsKept
<1>5. \A n \in Node : \A q \in Items(n)' : Comes(n, q)  BY DEF Items, Comes
<1>6. \A l \in Link : /\ Renews(l, ps[l], ps'[l], Stream)
                      /\ \A s \in Stream : s \in ps'[l].wanted => s \in ps[l].wanted
  BY DEF Renews
<1>7. DOMAIN fruitless' = Link /\ \A l \in Link : DOMAIN fruitless'[l] = Stream
  BY DEF SpinInv
<1> QED BY <1>1, <1>2, <1>4, <1>5, <1>6, <1>7, WorkSpin

LEMMA RenewsOne ==
  ASSUME Inv, NEW l, NEW y, Renews(l, ps[l], y, {}), ps' = [ps EXCEPT ![l] = y]
  PROVE  \A k \in Link : Renews(k, ps[k], ps'[k], {})
<1>1. DOMAIN ps = Link  BY Parts DEF PeersOK
<1>2. \A k \in Link : Renews(k, ps[k], ps[k], {})  BY DEF Renews
<1> QED BY <1>1, <1>2

LEMMA SaysAnswer ==
  ASSUME NEW l \in Link, NEW m, NEW as, Answer(l, m, as),
         \A a \in as : \/ a.t \notin {"WANT", "TRUNCATED"}
                       \/ a.t = "TRUNCATED" /\ ps[Back(l)].proto >= 3 /\ Traced(Back(l), a)
  PROVE  \A k \in Link : Says(k)
BY DEF Answer, Says

LEMMA SaysSend ==
  ASSUME SendRequests
  PROVE  \A k \in Link : Says(k)
BY DEF SendRequests, Says

\* Retention, a HAVE round started, requests sent again or lost,
LEMMA LocalSpin ==
  ASSUME Inv, SpinInv, Inv', LaneInv', NEW n \in Node, NEW s \in Stream, prune(n, s)
  PROVE  SpinInv'
<1>1. UNCHANGED <<log, sealed, queue, settled, fruitless, ps, ctl, lane>>
  BY DEF prune, netVars
<1>2. \A l \in Link : Renews(l, ps[l], ps'[l], {})  BY <1>1 DEF Renews
<1>3. \A l \in Link : Says(l) /\ Carries(l)  BY <1>1 DEF Says, Carries
<1> QED BY <1>1, <1>2, <1>3, CalmSpin

LEMMA RoundRenews ==
  ASSUME NEW l, NEW x, PeerOK(x)
  PROVE  Renews(l, x, startHaveRound(l, x), {})
<1> DEFINE r == [t |-> "HAVE_GET", req |-> FreshReq(l, x)]
           y == [x EXCEPT !.expected = FreshReq(l, x), !.pages = {}, !.reqs = @ \cup {r}]
<1>1. startHaveRound(l, x) = y  BY DEF startHaveRound
<1>2. /\ y.proto = x.proto /\ y.progress = x.progress /\ y.active = x.active
      /\ y.wanted = x.wanted /\ y.reqs = x.reqs \cup {r} /\ r.t # "WANT"
  BY DEF PeerOK, PeerFields
<1> HIDE DEF y, r
<1> QED BY <1>1, <1>2, RenewsSame

LEMMA RoundSpin ==
  ASSUME Inv, SpinInv, Inv', LaneInv', NEW l \in Link, antiEntropy(l) \/ tick(l)
  PROVE  SpinInv'
<1>1. /\ ps' = [ps EXCEPT ![l] = startHaveRound(l, ps[l])] /\ SendRequests
      /\ UNCHANGED <<log, sealed, queue, settled, lane, fruitless>>
  BY DEF antiEntropy, tick, logVars
<1>2. Renews(l, ps[l], startHaveRound(l, ps[l]), {})  BY Parts, RoundRenews DEF PeersOK
<1>3. \A k \in Link : Renews(k, ps[k], ps'[k], {})  BY <1>1, <1>2, RenewsOne
<1>4. \A k \in Link : Says(k)  BY <1>1, SaysSend
<1>5. \A k \in Link : Carries(k)  BY <1>1 DEF Carries
<1> QED BY <1>1, <1>3, <1>4, <1>5, CalmSpin

LEMMA ResendSpin ==
  ASSUME Inv, SpinInv, Inv', LaneInv', NEW l \in Link,
         retry(l) \/ (\E r \in ps[l].reqs : race(l, r)) \/ (\E m \in ctl[l] : lose(l, m))
  PROVE  SpinInv'
<1>1. UNCHANGED <<log, sealed, queue, settled, lane, fruitless, ps>>
  BY DEF retry, race, lose, logVars
<1>2. DOMAIN ctl = Link  BY Parts DEF CtlOK
<1>3. \A k \in Link : ctl'[k] \subseteq ctl[k] \cup ps[k].reqs
  BY <1>2 DEF retry, race, lose
<1>4. \A k \in Link : Says(k) /\ Carries(k)  BY <1>1, <1>3 DEF Says, Carries
<1>5. \A k \in Link : Renews(k, ps[k], ps'[k], {})  BY <1>1 DEF Renews
<1> QED BY <1>1, <1>4, <1>5, CalmSpin

\* a certificate, a round or a probe served, a probe answered.
LEMMA FinalitySpin ==
  ASSUME Inv, SpinInv, Inv', LaneInv', NEW l \in Link, NEW m, Finality(l, m)
  PROVE  SpinInv'
<1>1. /\ Answer(l, m, {})
      /\ UNCHANGED <<log, sealed, queue, settled, lane, fruitless>>
  BY DEF Finality
<1>2. \A k \in Link : Renews(k, ps[k], ps'[k], {})
  <2> SUFFICES ASSUME NEW k \in Link PROVE Renews(k, ps[k], ps'[k], {})  OBVIOUS
  <2>1. ps'[k] = ps[k] \/ ps'[k] = startHaveRound(k, ps[k])  BY DEF Finality
  <2>2. Renews(k, ps[k], startHaveRound(k, ps[k]), {})  BY Parts, RoundRenews DEF PeersOK
  <2>3. Renews(k, ps[k], ps[k], {})  BY DEF Renews
  <2> QED BY <2>1, <2>2, <2>3
<1>3. \A k \in Link : Says(k)  BY <1>1, SaysAnswer
<1>4. \A k \in Link : Carries(k)  BY <1>1 DEF Carries
<1> QED BY <1>1, <1>2, <1>3, <1>4, CalmSpin

LEMMA ServeHaveSpin ==
  ASSUME Inv, SpinInv, Inv', LaneInv', NEW l \in Link, NEW m, serveHave(l, m)
  PROVE  SpinInv'
<1> DEFINE c == capture(l, m.req)
           y == [ps[l] EXCEPT !.captured = c]
<1>1. /\ ps' = [ps EXCEPT ![l] = y] /\ Answer(l, m, UNION {k.pages : k \in c})
      /\ UNCHANGED <<log, sealed, queue, settled, lane, fruitless>>
  BY DEF serveHave, logVars
<1>2. PeerOK(ps[l])  BY Parts DEF PeersOK
<1>3. \A k \in c : \A p \in k.pages : PageOK(p)
  <2>1. \A p \in paginateHave(l[1], m.req) : PageOK(p)  BY LinkEnds, Parts, PagesOK
  <2> QED BY <1>2, <2>1 DEF capture, PeerOK
<1> HIDE DEF c
<1>4. /\ y.proto = ps[l].proto /\ y.progress = ps[l].progress /\ y.active = ps[l].active
      /\ y.wanted = ps[l].wanted /\ y.reqs = ps[l].reqs
  BY <1>2 DEF PeerOK, PeerFields
<1> HIDE DEF y
<1>5. Renews(l, ps[l], y, {})  BY <1>4, RenewsSame
<1>6. \A k \in Link : Renews(k, ps[k], ps'[k], {})  BY <1>1, <1>5, RenewsOne
<1>7. \A a \in UNION {k.pages : k \in c} : a.t \notin {"WANT", "TRUNCATED"}
  BY <1>3 DEF PageOK
<1>8. \A k \in Link : Says(k)  BY <1>1, <1>7, SaysAnswer
<1>9. \A k \in Link : Carries(k)  BY <1>1 DEF Carries
<1> QED BY <1>1, <1>6, <1>8, <1>9, CalmSpin

LEMMA ServeProbeSpin ==
  ASSUME Inv, SpinInv, Inv', LaneInv', NEW l \in Link, NEW m, serveProbe(l, m)
  PROVE  SpinInv'
<1> DEFINE a == [t |-> "PROBE_RES", s |-> m.s,
                 points |-> {Chain(l[1], m.s, i) : i \in {i \in m.seqs : HasRow(l[1], m.s, i)}}]
<1>1. /\ UNCHANGED ps /\ Answer(l, m, {a})
      /\ UNCHANGED <<log, sealed, queue, settled, lane, fruitless>>
  BY DEF serveProbe, logVars
<1>2. a.t \notin {"WANT", "TRUNCATED"}  OBVIOUS
<1> HIDE DEF a
<1>3. \A k \in Link : Says(k)  BY <1>1, <1>2, SaysAnswer
<1>4. \A k \in Link : Carries(k) /\ Renews(k, ps[k], ps'[k], {})  BY <1>1 DEF Carries, Renews
<1> QED BY <1>1, <1>3, <1>4, CalmSpin

LEMMA ProbeResSpin ==
  ASSUME Inv, SpinInv, Inv', LaneInv', NEW l \in Link, NEW m, ProbeRes(l, m)
  PROVE  SpinInv'
<1> DEFINE mine == {r \in ps[l].reqs : r.t = "PROBE" /\ r.s = m.s}
           y == [ps[l] EXCEPT !.reqs = @ \ mine]
<1>1. /\ ps' = [ps EXCEPT ![l] = y] /\ Answer(l, m, {})
      /\ UNCHANGED <<log, sealed, queue, settled, lane, fruitless>>
  <2>1. DOMAIN ps = Link  BY Parts DEF PeersOK
  <2> QED BY <2>1 DEF ProbeRes, logVars
<1>2. PeerOK(ps[l])  BY Parts DEF PeersOK
<1> HIDE DEF mine
<1>4. /\ y.proto = ps[l].proto /\ y.progress = ps[l].progress /\ y.active = ps[l].active
      /\ y.wanted = ps[l].wanted /\ y.reqs = ps[l].reqs \ mine
  BY <1>2 DEF PeerOK, PeerFields
<1> HIDE DEF y
<1>5. Renews(l, ps[l], y, {})  BY <1>4, RenewsSame
<1>6. \A k \in Link : Renews(k, ps[k], ps'[k], {})  BY <1>1, <1>5, RenewsOne
<1>7. \A k \in Link : Says(k)  BY <1>1, SaysAnswer
<1>8. \A k \in Link : Carries(k)  BY <1>1 DEF Carries
<1> QED BY <1>1, <1>6, <1>7, <1>8, CalmSpin

\* A WANT is answered: nothing is said to be all there is only from beyond the head here.
LEMMA WantSpin ==
  ASSUME Inv, SpinInv, Inv', LaneInv', NEW l \in Link, NEW m, Want(l, m)
  PROVE  SpinInv'
<1> DEFINE n == l[1]
           k == Back(l)
           to == Contig(n, m.s)
           empty == Entries(n, m.s, m.req, m.from, to, {})
           low == floor[n][m.s]
           below == low > 0 /\ m.from <= low
           cut == [t |-> "TRUNCATED", req |-> m.req, s |-> m.s, chain |-> Chain(n, m.s, low)]
           rows == Batches(n, m.s, m.req, to)[m.from]
           as == IF below /\ ps[l].proto >= 3 THEN {cut} ELSE {}
<1>1. m.s \in Stream /\ m.from \in 1..MaxSeq + 1 /\ m.t = "WANT"
  <2>1. MsgOK(World, Back(l), m) /\ m.t = "WANT"  BY Received DEF Want
  <2> QED BY <2>1 DEF MsgOK, ReqOK, PageOK
<1>2. /\ UNCHANGED <<log, sealed, queue, settled, ps, fruitless>> /\ Answer(l, m, as)
      /\ m \in ctl[k]
      /\ \/ lane' = [lane EXCEPT ![l] = lane[l]]
         \/ lane' = [lane EXCEPT ![l] = sendData(l, <<empty>>)]
            /\ (ps[l].proto >= 3 => m.from > to)
         \/ lane' = [lane EXCEPT ![l] = sendData(l, rows)]
  BY DEF Want, logVars, Takes
<1>3. /\ n \in Node /\ k \in Link /\ k[1] \in Node /\ MaxSeq \in Nat
      /\ \A j \in Link : Back(j) = l => j = k
  <2>1. Link \subseteq Node \X Node  BY Topology
  <2> QED BY <2>1, LinkEnds, Sizes DEF Back
<1>4. to \in Nat  BY <1>1, <1>3, Parts, LogBounds
<1>5. AsksOK(k) /\ AsksOK(l) /\ m \in Asked(k)  BY <1>1, <1>2, <1>3 DEF SpinInv, Asked
<1>6. /\ m \in Out(k) /\ "req" \in DOMAIN m /\ m.from <= Contig(k[1], m.s) + 1
      /\ ps[k].proto = ps[l].proto
  BY <1>5 DEF Out, AsksOK
<1>7. \A f : "req" \in DOMAIN f /\ f.req = m.req /\ f.s = m.s => Traced(k, f)
  BY <1>6 DEF Traced
<1>8. ToSet(rows) \subseteq {f \in ToSet(rows) : FrameOK(World, l, f) /\ RowsOf(f, m.s, m.req)}
      /\ IsSeq(rows)
  BY <1>1, Parts, BatchesOK
<1>9. "req" \in DOMAIN empty /\ empty.req = m.req /\ empty.s = m.s /\ empty.to = to
  BY DEF Entries
<1>10. FrameOK(World, l, empty)
  <2>1. 1..0 = {}  OBVIOUS
  <2>2. 1 \in Nat /\ 0 \in Nat /\ 0 <= Contig(l[1], m.s) /\ 1 > 0  BY <1>4
  <2>3. FrameOK(World, l, Entries(l[1], m.s, m.req, m.from, to, 1..0))
    BY ONLY <1>1, <1>4, <2>2, Inv, l \in Link, Parts, EntriesOK
  <2> QED BY <2>1, <2>3
<1>11. "req" \in DOMAIN cut /\ cut.req = m.req /\ cut.s = m.s /\ cut.t = "TRUNCATED"  OBVIOUS
<1> HIDE DEF empty, rows, cut, k
<1>12. \A f \in ToSet(rows) : Traced(k, f) /\ f.s \in Stream /\ EmptyOK(k[1], f)
  BY <1>1, <1>7, <1>8 DEF RowsOf, EmptyOK
<1>13. Traced(k, empty) /\ empty.s \in Stream
       /\ (ps[l].proto >= 3 /\ m.from > to => EmptyOK(k[1], empty))
  <2>1. Contig(k[1], m.s) \in Nat  BY <1>1, <1>3, Parts, LogBounds
  <2>2. m.from > to => to <= Contig(k[1], m.s)
    <3> HIDE DEF to
    <3> QED BY <1>1, <1>3, <1>4, <1>6, <2>1
  <2> QED BY <1>1, <1>4, <1>7, <1>9, <2>2 DEF EmptyOK
<1>14. ASSUME NEW f \in ToSet(lane'[l])
       PROVE  \/ f \in ToSet(lane[l])
              \/ Traced(k, f) /\ f.s \in Stream /\ (ps[k].proto >= 3 => EmptyOK(k[1], f))
  <2>1. LaneOK(World, lane) /\ l \in DOMAIN lane  BY Parts DEF LaneOK
  <2>2. IsSeq(<<empty>>) /\ ToSet(<<empty>>) = {empty}  BY OneSeq
  <2>3. ToSet(sendData(l, <<empty>>)) \subseteq ToSet(lane[l]) \cup {empty}
    BY <1>10, <2>1, <2>2, LaneAdd
  <2>4. ToSet(sendData(l, rows)) \subseteq ToSet(lane[l]) \cup ToSet(rows)
    BY <1>8, <2>1, LaneAdd
  <2>5. CASE lane' = [lane EXCEPT ![l] = lane[l]]  BY <1>14, <2>1, <2>5
  <2>6. CASE lane' = [lane EXCEPT ![l] = sendData(l, <<empty>>)] /\ (ps[l].proto >= 3 => m.from > to)
    <3>1. f \in ToSet(lane[l]) \cup {empty}  BY <1>14, <2>1, <2>3, <2>6
    <3> HIDE DEF to
    <3> QED BY <1>6, <1>13, <2>6, <3>1
  <2>7. CASE lane' = [lane EXCEPT ![l] = sendData(l, rows)]
    <3>1. f \in ToSet(lane[l]) \cup ToSet(rows)  BY <1>14, <2>1, <2>4, <2>7
    <3> QED BY <1>12, <3>1
  <2> QED BY <1>2, <2>5, <2>6, <2>7
<1>15. \A j \in Link : j # l => lane'[j] = lane[j]
  <2>1. DOMAIN lane = Link  BY Parts DEF LaneOK
  <2> QED BY <1>2, <2>1
<1>16. \A j \in Link : Carries(j)
  <2> SUFFICES ASSUME NEW j \in Link PROVE Carries(j)  OBVIOUS
  <2>1. CASE Back(j) = l
    <3>1. j = k  BY <1>3, <2>1
    <3> QED BY <1>14, <2>1, <3>1 DEF Carries
  <2>2. CASE Back(j) # l
    <3>1. lane'[Back(j)] = lane[Back(j)]  BY <1>15, <2>2, LinkEnds
    <3> QED BY <3>1 DEF Carries
  <2> QED BY <2>1, <2>2
<1>17. \A j \in Link : Says(j)
  <2>1. Traced(k, cut)  BY <1>7, <1>11
  <2>2. \A a \in as : a.t = "TRUNCATED" /\ ps[k].proto >= 3 /\ Traced(k, a)
    BY <1>6, <1>11, <2>1
  <2> QED BY <1>2, <2>2, SaysAnswer DEF k
<1>18. \A j \in Link : Renews(j, ps[j], ps'[j], {})  BY <1>2 DEF Renews
<1> QED BY <1>2, <1>16, <1>17, <1>18, CalmSpin

\* A push bears no number and leaves the WANTs alone.
LEMMA PumpStreamRenews ==
  ASSUME Inv, NEW l \in Link, NEW a, PumpAt(l, a), NEW s \in Stream
  PROVE  Renews(l, a.x, pumpStream(l, a, s).x, {})
<1> DEFINE n == l[1]
           at == a.x.known[s]
           ids == {i \in at + 1..at + ENTRIES_BATCH_MAX : HasRow(n, s, i)}
           clean == [a EXCEPT !.x.dirty = @ \ {s}]
           sent == [a EXCEPT !.out = Append(@, Entries(n, s, 0, Min(ids), Contig(n, s), ids)),
                             !.x.known[s] = Max(ids)]
           gone == [sent EXCEPT !.x.dirty = @ \ {s}]
           stop == [a EXCEPT !.stop = TRUE]
           Same(b) == /\ b.x.proto = a.x.proto /\ b.x.progress = a.x.progress
                      /\ b.x.active = a.x.active /\ b.x.wanted = a.x.wanted
                      /\ b.x.reqs = a.x.reqs
<1>1. Same(clean) /\ Same(stop)  BY DEF PumpAt, PeerOK, PeerFields
<1>2. Same(sent) /\ Same(gone)
  <2> HIDE DEF ids
  <2> QED BY DEF PumpAt, PeerOK, PeerFields
<1>3. pumpStream(l, a, s) \in {clean, stop, sent, gone}  BY DEF pumpStream
<1> HIDE DEF clean, stop, sent, gone
<1>4. Same(pumpStream(l, a, s))  BY <1>1, <1>2, <1>3
<1> QED BY <1>4, RenewsSame

LEMMA pumpAllRenews ==
  ASSUME Inv, NEW l \in Link
  PROVE  Renews(l, ps[l], pumpAll(l).x, {})
<1> DEFINE T == ps[l].dirty
           b == [x |-> [ps[l] EXCEPT !.pump = FALSE], out |-> << >>, stop |-> FALSE]
<1>1. T \in SUBSET Stream /\ IsFiniteSet(T) /\ PeerOK(ps[l])
  BY Parts, Topology, FS_Subset DEF PeersOK, PeerOK
<1>2. PICK F : /\ F[{}] = b
               /\ \A t \in SUBSET T : t # {} => \E e \in t : F[t] = pumpStream(l, F[t \ {e}], e)
               /\ pumpAll(l) = F[T]
  BY <1>1, pumpAllFold
<1> DEFINE Good(a) == PumpAt(l, a) /\ Renews(l, ps[l], a.x, {})
           G == {t \in SUBSET T : Good(F[t])}
<1>3. Good(b)
  <2> DEFINE y == [ps[l] EXCEPT !.pump = FALSE]
  <2>1. PeerOK(y) /\ Renews(l, ps[l], y, {})
    BY <1>1 DEF PeerOK, PeerFields, Renews, WantReqs
  <2> HIDE DEF y
  <2> QED BY <2>1, NilSet DEF PumpAt, y
<1> HIDE DEF T, b
<1>4. {} \in G  BY <1>2, <1>3
<1>5. ASSUME NEW t \in SUBSET T, t # {} PROVE \E e \in t : t \ {e} \in G => t \in G
  <2>1. PICK e \in t : F[t] = pumpStream(l, F[t \ {e}], e)  BY <1>2, <1>5
  <2>2. ASSUME NEW a, Good(a) PROVE Good(pumpStream(l, a, e))
    <3>1. e \in Stream  BY <1>1
    <3> DEFINE z == pumpStream(l, a, e)
    <3>2. PumpAt(l, z)  BY <2>2, <3>1, Parts, PumpOK
    <3>3. Renews(l, a.x, z.x, {})  BY <2>2, <3>1, PumpStreamRenews
    <3> HIDE DEF z
    <3>4. Renews(l, ps[l], z.x, {} \cup {})  BY <2>2, <3>3, RenewsTrans
    <3>5. {} \cup {} = {}  OBVIOUS
    <3>6. Renews(l, ps[l], z.x, {})  BY <3>4, <3>5
    <3>7. Good(z)  BY <3>2, <3>6
    <3> QED BY <3>7 DEF z
  <2> HIDE DEF Good
  <2>3. t \ {e} \in G => t \in G  BY <2>1, <2>2
  <2> QED BY <2>3
<1> HIDE DEF G
<1>6. \A t \in SUBSET T : t \in G  BY <1>1, <1>4, <1>5, SetInduct
<1> QED BY <1>2, <1>6 DEF G

LEMMA PumpDirtySpin ==
  ASSUME Inv, SpinInv, Inv', LaneInv', NEW l \in Link, pumpDirty(l)
  PROVE  SpinInv'
<1> DEFINE a == pumpAll(l)
<1>1. /\ ps' = [ps EXCEPT ![l] = a.x] /\ lane' = [lane EXCEPT ![l] = @ \o a.out]
      /\ UNCHANGED <<log, sealed, queue, settled, ctl, fruitless>>
  BY DEF pumpDirty, logVars
<1>2. PumpAt(l, a)  BY Parts, pumpAllOK DEF PeersOK
<1>3. Renews(l, ps[l], a.x, {})  BY pumpAllRenews
<1> HIDE DEF a
<1>4. \A k \in Link : Renews(k, ps[k], ps'[k], {})  BY <1>1, <1>3, RenewsOne
<1>5. \A k \in Link : Says(k)  BY <1>1 DEF Says
<1>6. DOMAIN lane = Link /\ IsSeq(lane[l])  BY Parts DEF LaneOK
<1>7. ToSet(lane[l] \o a.out) \subseteq ToSet(lane[l]) \cup ToSet(a.out)
  BY <1>2, <1>6, CatSet DEF PumpAt
<1>8. \A k \in Link : \A f \in ToSet(lane'[k]) : f \in ToSet(lane[k]) \/ f \in ToSet(a.out)
  BY <1>1, <1>6, <1>7
<1>9. \A f \in ToSet(a.out) : f.s \in Stream /\ "req" \in DOMAIN f /\ f.req = 0
  BY <1>2 DEF PumpAt, FrameOK
<1>10. \A k \in Link : \A f \in ToSet(a.out) : Traced(k, f) /\ EmptyOK(k[1], f)
  BY <1>9 DEF Traced, EmptyOK
<1>11. \A k \in Link : Carries(k)  BY <1>8, <1>9, <1>10, LinkEnds DEF Carries
<1> QED BY <1>1, <1>4, <1>5, <1>11, CalmSpin

\* A stream that grows starts every count of its node over.
LEMMA RecountKept ==
  ASSUME Inv, SpinInv, NEW n \in Node, NEW s \in Stream,
         NEW h \in Seq(Content), Contig(n, s) <= Len(h), log' = [log EXCEPT ![n][s] = h],
         Recount(n, s, h), \A m \in Node : sealed[m] \subseteq sealed'[m]
  PROVE  /\ Grown /\ DOMAIN fruitless' = Link /\ \A l \in Link : DOMAIN fruitless'[l] = Stream
         /\ \A l \in Link, t \in Stream : Kept(l, t)
<1>1. /\ log \in [Node -> [Stream -> Seq(Content)]] /\ Len(h) \in Nat
      /\ DOMAIN fruitless = Link /\ \A l \in Link : DOMAIN fruitless[l] = Stream
  BY Parts DEF WorldOK, World, SpinInv
<1>2. ASSUME NEW m \in Node, NEW t \in Stream
      PROVE  /\ Contig(m, t)' \in Nat /\ Contig(m, t) <= Contig(m, t)'
             /\ m # n \/ t # s \/ h = log[n][s] => Contig(m, t)' = Contig(m, t)
  <2>1. Contig(m, t) \in Nat  BY Parts, LogBounds
  <2>2. Contig(m, t)' = IF m = n /\ t = s THEN Len(h) ELSE Contig(m, t)  BY <1>1 DEF Contig
  <2> QED BY <1>1, <2>1, <2>2 DEF Contig
<1>3. Grown  BY <1>2 DEF Grown
<1>4. ASSUME NEW l \in Link
      PROVE  fruitless'[l] = IF l[1] = n /\ h # log[n][s] THEN [fruitless[l] EXCEPT ![s] = 0]
                             ELSE fruitless[l]
  BY DEF Recount
<1>5. DOMAIN fruitless' = Link /\ \A l \in Link : DOMAIN fruitless'[l] = Stream
  BY <1>1, <1>4 DEF Recount
<1>6. ASSUME NEW l \in Link, NEW t \in Stream PROVE Kept(l, t)
  <2>1. l[1] \in Node  BY LinkEnds
  <2>2. CASE l[1] = n /\ h # log[n][s] /\ t = s  BY <1>1, <1>4, <2>2 DEF Kept
  <2>3. CASE ~(l[1] = n /\ h # log[n][s] /\ t = s)
    <3>1. fruitless'[l][t] = fruitless[l][t]  BY <1>1, <1>4, <2>3
    <3>2. Contig(l[1], t)' = Contig(l[1], t)  BY <1>2, <2>1, <2>3
    <3> QED BY <3>1, <3>2 DEF Kept
  <2> QED BY <2>2, <2>3
<1> QED BY <1>3, <1>5, <1>6

\* The peers hear of it,
LEMMA AppliedRenews ==
  ASSUME Inv, UNCHANGED ps \/ \E n, s, via : handleApplied(n, s, via)
  PROVE  \A l \in Link : Renews(l, ps[l], ps'[l], Stream) /\ ps'[l].wanted = ps[l].wanted
<1> SUFFICES ASSUME NEW l \in Link
             PROVE  Renews(l, ps[l], ps'[l], Stream) /\ ps'[l].wanted = ps[l].wanted
  OBVIOUS
<1>1. CASE ps'[l] = ps[l]  BY <1>1 DEF Renews
<1>2. CASE \E s : ps'[l] = markDirty(ps[l], s)
  <2>1. PICK s : ps'[l] = markDirty(ps[l], s)  BY <1>2
  <2>2. PeerOK(ps[l])  BY Parts DEF PeersOK
  <2> QED BY <2>1, <2>2 DEF markDirty, PeerOK, PeerFields, Renews, WantReqs
<1> QED BY <1>1, <1>2 DEF handleApplied

\* and nothing goes out yet.
LEMMA LogSpin ==
  ASSUME Inv, SpinInv, Inv', LaneInv', Grown,
         DOMAIN fruitless' = Link, \A l \in Link : DOMAIN fruitless'[l] = Stream,
         UNCHANGED ps \/ \E n, s, via : handleApplied(n, s, via), UNCHANGED <<ctl, lane>>,
         \A l \in Link, s \in Stream : Kept(l, s),
         \A n \in Node : (\A q \in Items(n)' : Comes(n, q)) /\ FloorsOK(n)'
  PROVE  SpinInv'
<1>1. \A l \in Link : Renews(l, ps[l], ps'[l], Stream) /\ ps'[l].wanted = ps[l].wanted
  BY AppliedRenews
<1>2. \A l \in Link : Says(l) /\ Carries(l)  BY DEF Says, Carries
<1> QED BY <1>1, <1>2, WorkSpin

LEMMA AppliedMoves ==
  ASSUME Inv, SpinInv, UNCHANGED ps \/ \E n, s, via : handleApplied(n, s, via)
  PROVE  \A l \in Link : Moves(l)
BY AppliedRenews, RenewsMoves DEF SpinInv, AsksOK

LEMMA AppendSpin ==
  ASSUME Inv, SpinInv, Inv', LaneInv', NEW n \in Node, NEW s \in Stream, append(n, s, "x")
  PROVE  SpinInv'
<1> DEFINE h == Append(log[n][s], "x")
<1>1. /\ log' = [log EXCEPT ![n] = [log[n] EXCEPT ![s] = h]] /\ handleApplied(n, s, n)
      /\ Recount(n, s, h)
      /\ UNCHANGED <<sealed, queue, settled, ctl, lane>>
  BY DEF append, netVars
<1>2. h \in Seq(Content) /\ Contig(n, s) <= Len(h)
  <2>1. log[n][s] \in Seq(Content) /\ "x" \in Content  BY Parts, LogBounds DEF Content
  <2> QED BY <2>1 DEF Contig
<1> HIDE DEF h
<1>3. /\ Grown /\ DOMAIN fruitless' = Link /\ \A l \in Link : DOMAIN fruitless'[l] = Stream
      /\ \A l \in Link, t \in Stream : Kept(l, t)
  BY <1>1, <1>2, RecountKept
<1>4. \A l \in Link : Moves(l)  BY <1>1, AppliedMoves
<1>5. \A m \in Node : FloorsOK(m)'  BY <1>1, <1>3, <1>4, FloorsKept
<1>6. \A m \in Node : \A q \in Items(m)' : Comes(m, q)  BY <1>1 DEF Items, Comes
<1> QED BY <1>1, <1>3, <1>5, <1>6, LogSpin

\* An operation flushed: its callback stands behind the ones that are due.
LEMMA FlushKept ==
  ASSUME Inv, SpinInv, Grown, NEW n \in Node, NEW q, q = Head(queue[n]), NEW z,
         queue[n] # << >>, queue' = [queue EXCEPT ![n] = Tail(@)],
         settled' = [settled EXCEPT ![n] = Append(@, z)],
         DOMAIN z = DOMAIN q, z.t = q.t, z.link = q.link, z.s = q.s, z.req = q.req,
         z = q \/ (z.t = "floor" /\ z.chain = q.chain),
         IsFloor(z) /\ ~z.refused => Contig(n, z.s)' >= Len(z.chain),
         \A l \in Link : Moves(l) /\ \A s \in Stream : Kept(l, s)
  PROVE  \A m \in Node : (\A e \in Items(m)' : Comes(m, e)) /\ FloorsOK(m)'
<1>1. /\ DOMAIN queue = Node /\ DOMAIN settled = Node
      /\ IsSeq(queue[n]) /\ IsSeq(settled[n])
  BY Parts DEF QueueOK, SettledOK
<1>2. queue'[n] = Tail(queue[n]) /\ settled'[n] = Append(settled[n], z)  BY <1>1
<1>3. /\ ToSet(Tail(queue[n])) \subseteq ToSet(queue[n]) /\ q \in ToSet(queue[n])
      /\ ToSet(Append(settled[n], z)) = ToSet(settled[n]) \cup {z}
  BY <1>1, TailSet, AppendSet
<1>4. Items(n)' \subseteq Items(n) \cup {z} /\ q \in Items(n)  BY <1>2, <1>3 DEF Items
<1>5. q.link \in Link /\ q.link[1] = n  BY <1>3, Parts DEF QueueOK, ItemOK, DoneOK
<1>6. Comes(n, z)
  <2>1. CASE z = q  BY <1>4, <2>1 DEF Comes
  <2>2. CASE z.t = "floor"
    <3>1. q \in Out(q.link)  BY <1>4, <1>5 DEF Out, Replies
    <3>2. "req" \in DOMAIN q  BY <1>5, <3>1 DEF SpinInv, AsksOK
    <3>3. Traced(z.link, z)  BY <3>1, <3>2 DEF Traced
    <3> QED BY <2>2, <3>3 DEF Comes
  <2> QED BY <2>1, <2>2
<1>7. FloorsOK(n)'
  <2>1. Order(ps', queue[n], settled[n])  BY OrderKept DEF SpinInv, FloorsOK
  <2>2. ASSUME NEW b, Follows(ps', q, b) PROVE Follows(ps', z, b)
    BY <2>2 DEF Follows
  <2>3. ASSUME NEW a, Follows(ps', a, q) PROVE Follows(ps', a, z)
    BY <2>3 DEF Follows, IsFloor
  <2>4. Order(ps', Tail(queue[n]), Append(settled[n], z))
    BY <1>1, <2>1, <2>2, <2>3, OrderFlush
  <2>5. ASSUME NEW e \in Items(n)', IsFloor(e)
        PROVE  \E p \in Items(n) : /\ IsFloor(p) /\ p.link = e.link /\ p.s = e.s /\ p.req = e.req
                                   /\ p.chain = e.chain /\ DOMAIN p = DOMAIN e
    <3>1. CASE e \in Items(n)  BY <2>5, <3>1
    <3>2. CASE e = z  BY <1>4, <2>5, <3>2 DEF IsFloor
    <3> QED BY <1>4, <2>5, <3>1, <3>2
  <2>6. \A e \in ToSet(settled'[n]) : IsFloor(e) /\ ~e.refused =>
           e \in ToSet(settled[n]) \/ Contig(n, e.s)' >= Len(e.chain)
    BY <1>2, <1>3
  <2>7. \A p \in Items(n) : Spared(n, p)  BY AllSpared
  <2> QED BY <1>2, <2>4, <2>5, <2>6, <2>7, FloorsAt
<1>8. ASSUME NEW m \in Node \ {n}
      PROVE  (\A e \in Items(m)' : Comes(m, e)) /\ FloorsOK(m)'
  <2>1. queue'[m] = queue[m] /\ settled'[m] = settled[m]  BY <1>1
  <2>2. FloorsOK(m)'  BY <2>1, FloorsKept
  <2> QED BY <2>1, <2>2 DEF Items, Comes
<1> QED BY <1>4, <1>6, <1>7, <1>8 DEF Comes

LEMMA FlushEntriesSpin ==
  ASSUME Inv, SpinInv, Inv', LaneInv', NEW n \in Node, FlushEntries(n)
  PROVE  SpinInv'
<1> DEFINE q == Head(queue[n])
           s == q.s
           v == applyAll(n, s, q.entries)
<1>1. /\ queue[n] # << >> /\ q.t = "entries" /\ queue' = [queue EXCEPT ![n] = Tail(@)]
      /\ settled' = [settled EXCEPT ![n] = Append(@, q)] /\ SetStream(n, s, v)
      /\ Recount(n, s, v.head)
      /\ UNCHANGED ps \/ handleApplied(n, s, q.link[2])
      /\ UNCHANGED <<ctl, lane>>
  BY DEF FlushEntries, netVars
<1>2. ItemOK(World, n, q)  BY <1>1, Parts, QueuePop
<1>3. s \in Stream /\ AllBacked(World, n, s, q.entries)
  BY <1>1, <1>2 DEF ItemOK, DoneOK
<1>4. ViewOK(n, s, v)  BY <1>3, Parts, applyAllOK
<1>5. UNCHANGED ps \/ \E m, t, via : handleApplied(m, t, via)  BY <1>1
<1> HIDE DEF q, s, v
<1>6. v.head \in Seq(Content) /\ Contig(n, s) <= Len(v.head)
  <2>1. log[n][s] \in Seq(Content)  BY <1>3, Parts, LogBounds
  <2> QED BY <1>4, <2>1, PrefixIs DEF ViewOK, Contig
<1>7. log' = [log EXCEPT ![n][s] = v.head] /\ \A m \in Node : sealed[m] \subseteq sealed'[m]
  <2>1. sealed \in [Node -> SUBSET Stream]  BY Parts DEF LogInv
  <2> QED BY <1>1, <2>1 DEF SetStream
<1>8. /\ Grown /\ DOMAIN fruitless' = Link /\ \A l \in Link : DOMAIN fruitless'[l] = Stream
      /\ \A l \in Link, t \in Stream : Kept(l, t)
  BY <1>1, <1>3, <1>6, <1>7, RecountKept
<1>9. \A l \in Link : Moves(l)  BY <1>5, AppliedMoves
<1>10. \A m \in Node : (\A e \in Items(m)' : Comes(m, e)) /\ FloorsOK(m)'
  <2>1. ~IsFloor(q)  BY <1>1 DEF IsFloor
  <2> QED BY <1>1, <1>8, <1>9, <2>1, FlushKept DEF q
<1> QED BY <1>1, <1>5, <1>8, <1>10, LogSpin

LEMMA FlushFloorSpin ==
  ASSUME Inv, SpinInv, Inv', LaneInv', NEW n \in Node, FlushFloor(n)
  PROVE  SpinInv'
<1>a. PICK q : q = Head(queue[n])  OBVIOUS
<1> DEFINE s == q.s
           at == Len(q.chain)
           P == {c \in pending[n][s] : Len(c) > at}
           v == drain(q.chain, P)
           below == Contig(n, s) < at
           refused == ~(s \notin sealed[n]) /\ below
<1>b. PICK z : z = [q EXCEPT !.refused = refused]  OBVIOUS
<1>1. /\ queue[n] # << >> /\ q.t = "floor" /\ queue' = [queue EXCEPT ![n] = Tail(@)]
      /\ settled' = [settled EXCEPT ![n] = Append(@, z)]
      /\ UNCHANGED <<ps, ctl, lane>>
  BY <1>a, <1>b DEF FlushFloor, netVars
<1>2. \/ UNCHANGED <<log, sealed, fruitless>> /\ ~(s \notin sealed[n] /\ below)
      \/ below /\ SetStream(n, s, v) /\ Recount(n, s, v.head)
  BY <1>a DEF FlushFloor
<1>3. ItemOK(World, n, q)  BY <1>1, <1>a, Parts, QueuePop
<1>4. s \in Stream /\ FloorBacked(World, n, s, q.chain) /\ q.link \in Link
  BY <1>1, <1>3 DEF ItemOK, DoneOK
<1>5. /\ z.t = "floor" /\ z.link = q.link /\ z.s = q.s /\ z.req = q.req /\ z.chain = q.chain
      /\ DOMAIN z = DOMAIN q /\ ("refused" \in DOMAIN q => z.refused = refused)
  <2> HIDE DEF refused
  <2> QED BY <1>1, <1>b
<1> HIDE DEF v, P
<1>6. at \in Nat /\ Contig(n, s) \in Nat /\ log[n][s] \in Seq(Content) /\ q.chain \in Seq(Content)
  BY <1>4, Parts, LogBounds, BackedLen DEF FloorBacked
<1>7. IsFloor(z) => "refused" \in DOMAIN q
  <2>1. q \in Items(n)
    <3>1. IsSeq(queue[n])  BY Parts DEF QueueOK
    <3> QED BY <1>1, <1>a, <3>1, TailSet DEF Items
  <2> QED BY <1>1, <1>5, <2>1 DEF SpinInv, FloorsOK, FloorOK, IsFloor
<1>8. SUFFICES ASSUME /\ Grown /\ DOMAIN fruitless' = Link
                      /\ \A l \in Link : DOMAIN fruitless'[l] = Stream
                      /\ \A l \in Link, t \in Stream : Kept(l, t)
                      /\ ~refused => Contig(n, s)' >= at
               PROVE  SpinInv'
  <2>1. CASE UNCHANGED <<log, sealed, fruitless>> /\ ~(s \notin sealed[n] /\ below)
    <3>1. Grown  BY <2>1, GrownSame
    <3>2. \A l \in Link, t \in Stream : Kept(l, t)  BY <2>1 DEF Kept, Contig
    <3>3. ~refused => ~below
      <4> HIDE DEF below, s
      <4> QED BY <2>1
    <3>4. Contig(n, s)' = Contig(n, s)  BY <2>1 DEF Contig
    <3>5. ~below => Contig(n, s) >= at
      <4> HIDE DEF at, s
      <4> QED BY <1>6
    <3>6. DOMAIN fruitless' = Link /\ \A l \in Link : DOMAIN fruitless'[l] = Stream
      BY <2>1 DEF SpinInv
    <3> HIDE DEF refused, below, at, s
    <3> QED BY <1>8, <3>1, <3>2, <3>3, <3>4, <3>5, <3>6
  <2>2. CASE below /\ SetStream(n, s, v) /\ Recount(n, s, v.head)
    <3>1. \A c \in P : Backed(World, n, s, c)  BY <1>4, Parts DEF P, LogInv, PendingOK
    <3>2. Backed(World, n, s, v.head) /\ IsPrefix(q.chain, v.head)
      BY <1>4, <3>1, Parts, DrainOK DEF v, FloorBacked
    <3>3. v.head \in Seq(Content) /\ at <= Len(v.head) /\ Len(v.head) \in Nat
      <4>1. v.head \in Seq(Content)  BY <3>2 DEF Backed
      <4> QED BY <1>6, <3>2, <4>1, PrefixIs
    <3>4. Contig(n, s) <= Len(v.head)
      <4> HIDE DEF at, s
      <4> QED BY <1>6, <2>2, <3>3
    <3>5. log' = [log EXCEPT ![n][s] = v.head] /\ \A m \in Node : sealed[m] \subseteq sealed'[m]
      <4>1. sealed \in [Node -> SUBSET Stream]  BY Parts DEF LogInv
      <4> QED BY <2>2, <4>1 DEF SetStream
    <3>6. /\ Grown /\ DOMAIN fruitless' = Link /\ \A l \in Link : DOMAIN fruitless'[l] = Stream
          /\ \A l \in Link, t \in Stream : Kept(l, t)
      BY <1>4, <2>2, <3>3, <3>4, <3>5, RecountKept
    <3>7. Contig(n, s)' = Len(v.head)
      <4>1. log \in [Node -> [Stream -> Seq(Content)]]  BY Parts DEF WorldOK, World
      <4> QED BY <1>4, <3>5, <4>1 DEF Contig
    <3>8. Contig(n, s)' >= at
      <4> HIDE DEF at
      <4> QED BY <1>6, <3>3, <3>7
    <3> QED BY <1>8, <3>6, <3>8
  <2> QED BY <1>2, <2>1, <2>2
<1>9. UNCHANGED ps \/ \E m, t, via : handleApplied(m, t, via)  BY <1>1
<1>10. \A l \in Link : Moves(l)  BY <1>9, AppliedMoves
<1> HIDE DEF refused, below
<1>11. IsFloor(z) /\ ~z.refused => Contig(n, z.s)' >= Len(z.chain)
  BY <1>5, <1>7, <1>8
<1>12. \A m \in Node : (\A e \in Items(m)' : Comes(m, e)) /\ FloorsOK(m)'
  <2>1. z.t = "floor" /\ z.t = q.t  BY <1>1, <1>5
  <2> QED BY <1>a, <1>1, <1>5, <1>8, <1>10, <1>11, <2>1, FlushKept
<1> QED BY <1>1, <1>8, <1>9, <1>12, LogSpin

LEMMA FlushSealSpin ==
  ASSUME Inv, SpinInv, Inv', LaneInv', NEW n \in Node, FlushSeal(n)
  PROVE  SpinInv'
<1>1. /\ queue[n] # << >> /\ queue' = [queue EXCEPT ![n] = Tail(@)]
      /\ sealed' = [sealed EXCEPT ![n] = @ \cup {Head(queue[n]).s}]
      /\ UNCHANGED <<log, settled, ps, ctl, lane, fruitless>>
  BY DEF FlushSeal, netVars
<1>2. \A m \in Node : sealed[m] \subseteq sealed'[m]
  <2>1. sealed \in [Node -> SUBSET Stream]  BY Parts DEF LogInv
  <2> QED BY <1>1, <2>1
<1>3. Grown  BY <1>1, <1>2, GrownSame
<1>4. \A l \in Link, t \in Stream : Kept(l, t)  BY <1>1 DEF Kept, Contig
<1>5. UNCHANGED ps \/ \E m, t, via : handleApplied(m, t, via)  BY <1>1
<1>6. \A l \in Link : Moves(l)  BY <1>5, AppliedMoves
<1>7. /\ DOMAIN queue = Node /\ IsSeq(queue[n])  BY Parts DEF QueueOK
<1>8. queue'[n] = Tail(queue[n]) /\ settled'[n] = settled[n]  BY <1>1, <1>7
<1>9. Items(n)' \subseteq Items(n)
  <2>1. ToSet(Tail(queue[n])) \subseteq ToSet(queue[n])  BY <1>1, <1>7, TailSet
  <2> QED BY <1>8, <2>1 DEF Items
<1>10. FloorsOK(n)'
  <2>1. Order(ps', queue[n], settled[n])  BY <1>6, OrderKept DEF SpinInv, FloorsOK
  <2>2. Order(ps', Tail(queue[n]), settled[n])
    <3>1. Chained(ps', Tail(queue[n]))  BY <1>1, <1>7, <2>1, ChainedTail DEF Order
    <3>2. ToSet(Tail(queue[n])) \subseteq ToSet(queue[n])  BY <1>1, <1>7, TailSet
    <3> QED BY <2>1, <3>1, <3>2 DEF Order
  <2>3. \A q \in Items(n)' : IsFloor(q) =>
          \E p \in Items(n) : /\ IsFloor(p) /\ p.link = q.link /\ p.s = q.s /\ p.req = q.req
                              /\ p.chain = q.chain /\ DOMAIN p = DOMAIN q
    BY <1>9
  <2>4. \A p \in Items(n) : Spared(n, p)  BY <1>4, AllSpared
  <2> QED BY <1>3, <1>6, <1>8, <2>2, <2>3, <2>4, FloorsAt
<1>11. ASSUME NEW m \in Node PROVE (\A e \in Items(m)' : Comes(m, e)) /\ FloorsOK(m)'
  <2>1. CASE m = n  BY <1>9, <1>10, <2>1 DEF Comes
  <2>2. CASE m # n
    <3>1. queue'[m] = queue[m] /\ settled'[m] = settled[m]  BY <1>1, <1>7, <2>2
    <3>2. FloorsOK(m)'  BY <1>3, <1>4, <1>6, <3>1, FloorsKept
    <3> QED BY <3>1, <3>2 DEF Items, Comes
  <2> QED BY <2>1, <2>2
<1>12. DOMAIN fruitless' = Link /\ \A l \in Link : DOMAIN fruitless'[l] = Stream
  BY <1>1 DEF SpinInv
<1> QED BY <1>1, <1>3, <1>4, <1>5, <1>11, <1>12, LogSpin

\* An operation put into the commit queue, or due at once, that is no floor.
LEMMA AddKept ==
  ASSUME Inv, SpinInv, Grown, NEW n \in Node, NEW z, ~IsFloor(z), Comes(n, z),
         \/ queue' = [queue EXCEPT ![n] = Append(@, z)] /\ UNCHANGED settled
         \/ /\ settled' = [settled EXCEPT ![n] = Append(@, z)] /\ UNCHANGED queue
            /\ z.entries = << >>,
         \A l \in Link : Moves(l) /\ \A s \in Stream : Kept(l, s)
  PROVE  \A m \in Node : (\A e \in Items(m)' : Comes(m, e)) /\ FloorsOK(m)'
<1>1. /\ DOMAIN queue = Node /\ DOMAIN settled = Node
      /\ IsSeq(queue[n]) /\ IsSeq(settled[n])
  BY Parts DEF QueueOK, SettledOK
<1>2. /\ ToSet(Append(queue[n], z)) = ToSet(queue[n]) \cup {z}
      /\ ToSet(Append(settled[n], z)) = ToSet(settled[n]) \cup {z}
  BY <1>1, AppendSet
<1>3. \/ queue'[n] = Append(queue[n], z) /\ settled'[n] = settled[n]
      \/ queue'[n] = queue[n] /\ settled'[n] = Append(settled[n], z) /\ z.entries = << >>
  BY <1>1
<1>4. Items(n)' = Items(n) \cup {z}  BY <1>2, <1>3 DEF Items
<1>5. FloorsOK(n)'
  <2>1. Order(ps', queue[n], settled[n])  BY OrderKept DEF SpinInv, FloorsOK
  <2>2. Order(ps', queue'[n], settled'[n])
    <3>1. \A a : Follows(ps', a, z)  BY DEF Follows
    <3>2. CASE queue'[n] = Append(queue[n], z) /\ settled'[n] = settled[n]
      <4>1. Order(ps', Append(queue[n], z), settled[n])  BY <1>1, <2>1, <3>1, OrderAdd
      <4> QED BY <3>2, <4>1
    <3>3. CASE queue'[n] = queue[n] /\ settled'[n] = Append(settled[n], z) /\ z.entries = << >>
      <4>1. \A b : Follows(ps', z, b)  BY <3>3 DEF Follows
      <4>2. Order(ps', queue[n], Append(settled[n], z))
        BY <1>1, <2>1, <3>1, <4>1, OrderDone
      <4> QED BY <3>3, <4>2
    <3> QED BY <1>3, <3>2, <3>3
  <2>3. \A q \in Items(n)' : IsFloor(q) =>
          \E p \in Items(n) : /\ IsFloor(p) /\ p.link = q.link /\ p.s = q.s /\ p.req = q.req
                              /\ p.chain = q.chain /\ DOMAIN p = DOMAIN q
    BY <1>4
  <2>4. \A q \in ToSet(settled'[n]) : IsFloor(q) => q \in ToSet(settled[n])
    BY <1>2, <1>3
  <2>5. \A p \in Items(n) : Spared(n, p)  BY AllSpared
  <2> QED BY <2>2, <2>3, <2>4, <2>5, FloorsAt
<1>6. ASSUME NEW m \in Node \ {n} PROVE (\A e \in Items(m)' : Comes(m, e)) /\ FloorsOK(m)'
  <2>1. queue'[m] = queue[m] /\ settled'[m] = settled[m]  BY <1>1
  <2>2. FloorsOK(m)'  BY <2>1, FloorsKept
  <2> QED BY <2>1, <2>2 DEF Items, Comes
<1> QED BY <1>4, <1>5, <1>6 DEF Comes

\* onEntries takes a frame off the lane and passes on the number it bears.
LEMMA OnEntriesSpin ==
  ASSUME Inv, SpinInv, Inv', LaneInv', NEW l \in Link, onEntries(l)
  PROVE  SpinInv'
<1>a. PICK m : m = Head(lane[Back(l)])  OBVIOUS
<1>b. PICK item : item = [t |-> "entries", link |-> l, req |-> m.req, s |-> m.s, to |-> m.to,
                          entries |-> m.entries, done |-> m.done]
  OBVIOUS
<1> DEFINE n == l[1]
           k == Back(l)
           x == [ps[l] EXCEPT !.known[m.s] = IF m.to > @ THEN m.to ELSE @]
           y == [ps[k] EXCEPT !.pump = @ \/ ps[k].dirty # {}]
<1>1. n \in Node /\ k \in Link /\ k # l
  <2>1. n \in Node /\ k \in Link /\ k[1] = l[2] /\ l[1] # l[2]  BY LinkEnds
  <2> QED BY <2>1
<1>2. lane[k] # << >>  BY DEF onEntries
<1>3. DOMAIN lane = Link /\ ToSet(Tail(lane[k])) \subseteq ToSet(lane[k]) /\ m \in ToSet(lane[k])
  <2>1. DOMAIN lane = Link /\ IsSeq(lane[k])  BY <1>1, Parts DEF LaneOK
  <2> QED BY <1>a, <1>2, <2>1, TailSet
<1>4. /\ \/ /\ settled' = [settled EXCEPT ![n] = Append(@, item)] /\ UNCHANGED queue
            /\ item.entries = << >>
         \/ queue' = [queue EXCEPT ![n] = Append(@, item)] /\ UNCHANGED settled
      /\ lane' = [lane EXCEPT ![k] = Tail(@)]
      /\ UNCHANGED <<log, sealed, ctl, fruitless>>
  BY <1>a, <1>b DEF onEntries, logVars
<1>5. ps' = [ps EXCEPT ![l] = x, ![k] = y]
  <2>1. ps' = [ps EXCEPT ![l].known[m.s] = IF m.to > @ THEN m.to ELSE @,
                         ![k].pump = @ \/ ps[k].dirty # {}]
    BY <1>a DEF onEntries
  <2> HIDE DEF k
  <2> QED BY <1>1, <2>1, Parts DEF PeersOK, PeerOK, PeerFields
<1>6. /\ SameWants(ps[l], x) /\ x.proto = ps[l].proto /\ x.progress = ps[l].progress
      /\ SameWants(ps[k], y) /\ y.proto = ps[k].proto /\ y.progress = ps[k].progress
  BY <1>1, Parts DEF PeersOK, PeerOK, PeerFields, SameWants
<1> HIDE DEF x, y
<1>7. ASSUME NEW j \in Link
      PROVE  SameWants(ps[j], ps'[j]) /\ Renews(j, ps[j], ps'[j], Stream)
  <2>1. DOMAIN ps = Link  BY Parts DEF PeersOK
  <2>2. ps'[j] = IF j = k THEN y ELSE IF j = l THEN x ELSE ps[j]  BY <1>1, <1>5, <2>1
  <2> HIDE DEF k
  <2> QED BY <1>6, <2>2 DEF SameWants, Renews, WantReqs
<1>8. Grown  BY <1>4, GrownSame
<1>9. \A j \in Link, t \in Stream : Kept(j, t)  BY <1>4 DEF Kept, Contig
<1>10. \A j \in Link : Moves(j)  BY <1>7, RenewsMoves DEF SpinInv, AsksOK
<1>11. Comes(n, item)
  <2>1. m \in Out(l)  BY <1>3 DEF Out, Replies
  <2>2. /\ item.link = l /\ item.req = m.req /\ item.s = m.s /\ item.t = "entries"
        /\ item.entries = m.entries /\ item.to = m.to /\ "req" \in DOMAIN item
    BY <1>b
  <2>3. Traced(l, item)  BY <2>1, <2>2 DEF Traced
  <2> QED BY <1>3, <2>2, <2>3 DEF Comes
<1>12. \A j \in Node : (\A e \in Items(j)' : Comes(j, e)) /\ FloorsOK(j)'
  <2>1. ~IsFloor(item)  BY <1>b DEF IsFloor
  <2> HIDE DEF n
  <2> QED BY <1>1, <1>4, <1>8, <1>9, <1>10, <1>11, <2>1, AddKept
<1>13. \A j \in Link : Says(j) /\ Carries(j)
  <2>1. \A j \in Link : ToSet(lane'[j]) \subseteq ToSet(lane[j])
    <3> HIDE DEF k
    <3> QED BY <1>3, <1>4
  <2>2. \A j \in Link : Back(j) \in Link  BY LinkEnds
  <2> QED BY <1>4, <2>1, <2>2 DEF Says, Carries
<1>14. \A j \in Link, t \in Stream : t \in ps'[j].wanted => t \in ps[j].wanted
  BY <1>7 DEF SameWants
<1>15. DOMAIN fruitless' = Link /\ \A j \in Link : DOMAIN fruitless'[j] = Stream
  BY <1>4 DEF SpinInv
<1> QED BY <1>7, <1>8, <1>9, <1>12, <1>13, <1>14, <1>15, WorkSpin

\* A HAVE page: the last one of a round starts the counts over.
LEMMA HavePageSpin ==
  ASSUME Inv, SpinInv, LaneInv, Inv', LaneInv', NEW l \in Link, NEW m, HavePage(l, m)
  PROVE  SpinInv'
<1> DEFINE n == l[1]
           x == ps[l]
           got == {q \in x.pages : q.page # m.page} \cup {m}
           whole == [x EXCEPT !.expected = 0, !.pages = {},
                              !.reqs = @ \ {[t |-> "HAVE_GET", req |-> m.req]}]
           held == n \notin cert /\ m.fgen
           ws == IF held THEN {} ELSE UNION {q.vector : q \in got}
           a == compareAll(l, whole, ws)
           seals == {SealItem(l, s) : s \in a.seals}
           y == [x EXCEPT !.pages = got]
           as == IF /\ m.req = x.expected /\ Cardinality(got) >= m.of
                    /\ n \in cert /\ ~m.fgen
                 THEN {[t |-> "FINALITY"]} ELSE {}
           zero == [s \in Stream |-> 0]
<1>1. PeerOK(x) /\ n \in Node /\ Slots(x, {}, Waiting(l))
  BY Parts, LinkEnds DEF PeersOK, LaneInv
<1>2. IsFiniteSet(ws) /\ \A w \in ws : w.s \in Stream /\ w.chain \in Seq(Content)
  BY VectorsOK
<1>3. /\ \/ UNCHANGED <<ps, queue, fruitless>>
         \/ ps' = [ps EXCEPT ![l] = y] /\ UNCHANGED <<queue, fruitless>>
         \/ /\ ps' = [ps EXCEPT ![l] = a.x]
            /\ queue' = [queue EXCEPT ![n] = @ \o SetToSeq(seals)]
            /\ fruitless' = [fruitless EXCEPT ![l] = zero]
      /\ Answer(l, m, as)
      /\ UNCHANGED <<log, sealed, settled, lane>>
  BY DEF HavePage, logVars
<1>4. \A k \in Link : Says(k)
  <2>1. \A e \in as : e.t \notin {"WANT", "TRUNCATED"}  OBVIOUS
  <2> HIDE DEF as
  <2> QED BY <1>3, <2>1, SaysAnswer
<1>5. \A k \in Link : Carries(k)  BY <1>3 DEF Carries
<1>6. PeerOK(whole)  BY <1>1, FS_EmptySet DEF PeerOK, PeerFields
<1>7. Slots(whole, {}, Waiting(l)) /\ Renews(l, x, whole, {})
  <2> DEFINE h == [t |-> "HAVE_GET", req |-> m.req]
  <2>1. /\ whole.active = x.active /\ whole.wantQueue = x.wantQueue /\ whole.wanted = x.wanted
        /\ whole.captured = x.captured /\ whole.reqs = x.reqs \ {h} /\ h.t = "HAVE_GET"
        /\ whole.proto = x.proto /\ whole.progress = x.progress
    BY <1>1 DEF PeerOK, PeerFields
  <2> HIDE DEF whole, h
  <2>2. IsFiniteSet(whole.reqs)  BY <1>1, <2>1, FS_Subset DEF Slots
  <2>3. \A w \in x.active : w.t = "WANT"  BY <1>1 DEF Slots
  <2>4. x.reqs \cap x.active \subseteq whole.reqs  BY <2>1, <2>3
  <2>5. Slots(whole, {}, Waiting(l))  BY <1>1, <2>1, <2>2, <2>4, SlotsKept
  <2> HIDE DEF x
  <2>6. Renews(l, x, whole, {})  BY <2>1, RenewsSame
  <2> QED BY <2>5, <2>6
<1>8. Renews(l, x, y, {})
  <2>1. /\ y.active = x.active /\ y.wanted = x.wanted /\ y.reqs = x.reqs
        /\ y.proto = x.proto /\ y.progress = x.progress
    BY <1>1 DEF PeerOK, PeerFields
  <2> HIDE DEF y, x
  <2> QED BY <2>1, RenewsSame
<1> HIDE DEF whole, ws, as, got
<1>9. RoundAt(a)  BY <1>2, <1>6, Parts, compareAllOK
<1>10. Renews(l, x, a.x, Stream)
  <2>1. Renews(l, whole, a.x, Stream)  BY <1>2, <1>6, <1>7, compareAllRenews
  <2> HIDE DEF a, x
  <2>2. Renews(l, x, a.x, {} \cup Stream)  BY <1>7, <2>1, RenewsTrans
  <2>3. {} \cup Stream = Stream  OBVIOUS
  <2> QED BY <2>2, <2>3
<1>11. IsFiniteSet(seals) /\ \A e \in seals : "req" \in DOMAIN e /\ e.req = 0 /\ e.t = "seal"
  <2> DEFINE f == [s \in a.seals |-> SealItem(l, s)]
  <2>1. IsFiniteSet(a.seals)  BY <1>9, Topology, FS_Subset DEF RoundAt
  <2>2. IsFiniteSet({f[s] : s \in a.seals})  BY <2>1, ImageFinite
  <2>3. {f[s] : s \in a.seals} = seals  OBVIOUS
  <2>4. \A e \in seals : "req" \in DOMAIN e /\ e.req = 0 /\ e.t = "seal"
    <3> HIDE DEF a
    <3> QED BY DEF SealItem
  <2> QED BY <2>2, <2>3, <2>4
<1> HIDE DEF a, y, seals
<1>12. CASE UNCHANGED <<ps, queue, fruitless>>
  <2>1. \A k \in Link : Renews(k, ps[k], ps'[k], {})  BY <1>12 DEF Renews
  <2> QED BY <1>3, <1>4, <1>5, <1>12, <2>1, CalmSpin
<1>13. CASE ps' = [ps EXCEPT ![l] = y] /\ UNCHANGED <<queue, fruitless>>
  <2>1. \A k \in Link : Renews(k, ps[k], ps'[k], {})  BY <1>8, <1>13, RenewsOne
  <2> QED BY <1>3, <1>4, <1>5, <1>13, <2>1, CalmSpin
<1>14. CASE /\ ps' = [ps EXCEPT ![l] = a.x]
            /\ queue' = [queue EXCEPT ![n] = @ \o SetToSeq(seals)]
            /\ fruitless' = [fruitless EXCEPT ![l] = zero]
  <2> DEFINE more == SetToSeq(seals)
  <2>1. DOMAIN ps = Link /\ DOMAIN fruitless = Link /\ \A k \in Link : DOMAIN fruitless[k] = Stream
    BY Parts DEF PeersOK, SpinInv
  <2>2. ASSUME NEW k \in Link
        PROVE  /\ Renews(k, ps[k], ps'[k], Stream) /\ DOMAIN fruitless'[k] = Stream
               /\ \A t \in Stream : /\ Kept(k, t)
                                    /\ t \in ps'[k].wanted => t \in ps[k].wanted \/ fruitless'[k][t] = 0
    <3>1. CASE k = l
      <4>1. ps'[k] = a.x /\ fruitless'[k] = zero  BY <1>14, <2>1, <3>1
      <4> QED BY <1>10, <3>1, <4>1 DEF Kept
    <3>2. CASE k # l
      <4>1. ps'[k] = ps[k] /\ fruitless'[k] = fruitless[k]  BY <1>14, <2>1, <3>2
      <4>2. UNCHANGED log  BY <1>3
      <4> QED BY <2>1, <4>1, <4>2 DEF Kept, Contig, Renews
    <3> QED BY <3>1, <3>2
  <2>3. DOMAIN fruitless' = Link  BY <1>14, <2>1
  <2>4. Grown  BY <1>3, GrownSame
  <2>5. \A k \in Link : Moves(k)  BY <2>2, RenewsMoves DEF SpinInv, AsksOK
  <2>6. IsSeq(more) /\ ToSet(more) \subseteq seals  BY <1>11, SetSeq
  <2>7. DOMAIN queue = Node /\ IsSeq(queue[n])  BY <1>1, Parts DEF QueueOK
  <2>8. queue'[n] = queue[n] \o more /\ settled'[n] = settled[n]  BY <1>1, <1>3, <1>14, <2>7
  <2> HIDE DEF more, zero, x
  <2>9. ToSet(queue[n] \o more) \subseteq ToSet(queue[n]) \cup seals
    BY <2>6, <2>7, CatSet
  <2>10. Items(n)' \subseteq Items(n) \cup seals  BY <2>8, <2>9 DEF Items
  <2>11. \A e \in seals : Comes(n, e) /\ ~IsFloor(e)  BY <1>11 DEF Comes, Traced, IsFloor
  <2>12. FloorsOK(n)'
    <3>1. Order(ps', queue[n], settled[n])
      <4> HIDE DEF n
      <4> QED BY <1>1, <2>5, OrderKept DEF SpinInv, FloorsOK
    <3>2. \A e \in ToSet(more) : e.t = "seal"  BY <1>11, <2>6
    <3>3. Order(ps', queue'[n], settled'[n])
      <4> HIDE DEF n
      <4>1. Order(ps', queue[n] \o more, settled[n])  BY <2>6, <2>7, <3>1, <3>2, OrderCat
      <4> QED BY <2>8, <4>1
    <3>4. \A q \in Items(n)' : IsFloor(q) =>
            \E p \in Items(n) : /\ IsFloor(p) /\ p.link = q.link /\ p.s = q.s /\ p.req = q.req
                                /\ p.chain = q.chain /\ DOMAIN p = DOMAIN q
      BY <2>10, <2>11
    <3>5. \A p \in Items(n) : Spared(n, p)
      <4> HIDE DEF n
      <4> QED BY <1>1, <2>2, AllSpared
    <3> HIDE DEF n
    <3> QED BY <1>1, <2>4, <2>5, <2>8, <3>3, <3>4, <3>5, FloorsAt
  <2>13. ASSUME NEW j \in Node PROVE (\A e \in Items(j)' : Comes(j, e)) /\ FloorsOK(j)'
    <3> HIDE DEF n
    <3>1. CASE j = n  BY <2>10, <2>11, <2>12, <3>1 DEF Comes
    <3>2. CASE j # n
      <4>1. queue'[j] = queue[j] /\ settled'[j] = settled[j]  BY <1>3, <1>14, <2>7, <3>2
      <4>2. FloorsOK(j)'  BY <2>2, <2>4, <2>5, <4>1, FloorsKept
      <4> QED BY <4>1, <4>2 DEF Items, Comes
    <3> QED BY <3>1, <3>2
  <2> QED BY <1>4, <1>5, <2>2, <2>3, <2>4, <2>13, WorkSpin
<1> QED BY <1>3, <1>12, <1>13, <1>14

\* A floor that fits is queued for the slot of its stream.
LEMMA FloorAdd ==
  ASSUME Inv, SpinInv, LaneInv, UNCHANGED <<log, sealed, fruitless, settled>>, NEW l \in Link,
         NEW q, q.link = l, q.s \in Stream, IsFloor(q) => FloorOK(l[1], q)', Comes(l[1], q),
         queue' = [queue EXCEPT ![l[1]] = Append(@, q)],
         NEW w \in ps[l].active, w.req = q.req, w.s = q.s, ps'[l].active = ps[l].active,
         \A k \in Link : Moves(k)
  PROVE  \A j \in Node : (\A e \in Items(j)' : Comes(j, e)) /\ FloorsOK(j)'
<1>a. PICK n : n = l[1]  OBVIOUS
<1>1. n \in Node /\ Grown /\ \A j \in Link, t \in Stream : Kept(j, t)
  BY <1>a, LinkEnds, GrownSame DEF Kept, Contig
<1>2. DOMAIN queue = Node /\ IsSeq(queue[n])  BY <1>1, Parts DEF QueueOK
<1>3. queue'[n] = Append(queue[n], q) /\ settled'[n] = settled[n]  BY <1>a, <1>1, <1>2
<1>4. ToSet(Append(queue[n], q)) = ToSet(queue[n]) \cup {q}  BY <1>2, AppendSet
<1>5. Items(n)' = Items(n) \cup {q}  BY <1>3, <1>4 DEF Items
<1>6. FloorsOK(n)'
  <2>1. Order(ps', queue[n], settled[n])  BY <1>1, OrderKept DEF SpinInv, FloorsOK
  <2>2. ASSUME NEW a PROVE Follows(ps', a, q)
    <3>1. ASSUME NEW v \in ps[l].active, v.s = q.s PROVE v.req = q.req
      BY <3>1 DEF LaneInv, Slots
    <3> QED BY <3>1 DEF Follows
  <2>3. Order(ps', Append(queue[n], q), settled[n])  BY <1>2, <2>1, <2>2, OrderAdd
  <2>4. \A e \in Items(n)' : IsFloor(e) =>
          \/ FloorOK(n, e)'
          \/ \E p \in Items(n) : /\ IsFloor(p) /\ p.link = e.link /\ p.s = e.s /\ p.req = e.req
                                 /\ p.chain = e.chain /\ DOMAIN p = DOMAIN e
    <3> SUFFICES ASSUME NEW e \in Items(n)', IsFloor(e)
                 PROVE  \/ FloorOK(n, e)'
                        \/ \E p \in Items(n) : /\ IsFloor(p) /\ p.link = e.link /\ p.s = e.s
                                               /\ p.req = e.req /\ p.chain = e.chain
                                               /\ DOMAIN p = DOMAIN e
      OBVIOUS
    <3>1. CASE e \in Items(n)  BY <3>1
    <3>2. CASE e = q
      <4>1. FloorOK(n, q)'  BY <1>a, <3>2 DEF IsFloor
      <4> QED BY <3>2, <4>1
    <3> QED BY <1>5, <3>1, <3>2
  <2>5. \A p \in Items(n) : Spared(n, p)  BY <1>1, AllSpared
  <2> QED BY <1>1, <1>3, <2>3, <2>4, <2>5, FloorsAt
<1>7. ASSUME NEW j \in Node \ {n} PROVE (\A e \in Items(j)' : Comes(j, e)) /\ FloorsOK(j)'
  <2>1. queue'[j] = queue[j] /\ settled'[j] = settled[j]  BY <1>a, <1>2
  <2>2. FloorsOK(j)'  BY <1>1, <2>1, FloorsKept
  <2> QED BY <2>1, <2>2 DEF Items, Comes
<1>8. \A e \in Items(n)' : Comes(n, e)  BY <1>a, <1>5 DEF Comes
<1> QED BY <1>6, <1>7, <1>8

\* TRUNCATED: a WANT is given up, or its floor adopted first.
LEMMA TruncatedSpin ==
  ASSUME Inv, SpinInv, LaneInv, Inv', LaneInv', NEW l \in Link, NEW m, Truncated(l, m)
  PROVE  SpinInv'
<1> DEFINE n == l[1]
           x == ps[l]
           w == CHOOSE w \in x.active : w.req = m.req
           y == finishWant(l, x, m.req)
<1>a. PICK q : q = [t |-> "floor", link |-> l, req |-> m.req, s |-> m.s,
                    chain |-> m.chain, peerHead |-> x.known[m.s], refused |-> FALSE]
  OBVIOUS
<1>1. /\ \/ UNCHANGED <<ps, queue>>
         \/ ps' = [ps EXCEPT ![l] = y] /\ UNCHANGED queue
         \/ /\ \E v \in x.active : v.req = m.req /\ v.s = m.s
            /\ floorFits(x, w, Len(m.chain))
            /\ ps' = [ps EXCEPT ![l].reqs = @ \ {w}]
            /\ queue' = [queue EXCEPT ![n] = Append(@, q)]
      /\ Answer(l, m, {})
      /\ UNCHANGED <<log, sealed, settled, lane, fruitless>>
  BY <1>a DEF Truncated, logVars
<1>2. PeerOK(x) /\ n \in Node /\ Slots(x, {}, Waiting(l)) /\ DOMAIN ps = Link
  BY Parts, LinkEnds DEF PeersOK, LaneInv
<1>3. \A k \in Link : Says(k) /\ Carries(k)
  <2>1. \A k \in Link : Says(k)  BY <1>1, SaysAnswer
  <2> QED BY <1>1, <2>1 DEF Carries
<1>4. m \in Cuts(l) /\ m \in Out(l)  BY DEF Truncated, Takes, Cuts, Out, Replies
<1>5. /\ x.proto >= 3 /\ "req" \in DOMAIN m /\ WantReqs(x)
  BY <1>4 DEF SpinInv, AsksOK
<1>6. CASE UNCHANGED <<ps, queue>>
  <2>1. \A k \in Link : Renews(k, ps[k], ps'[k], {})  BY <1>6 DEF Renews
  <2> QED BY <1>1, <1>3, <1>6, <2>1, CalmSpin
<1>7. CASE ps' = [ps EXCEPT ![l] = y] /\ UNCHANGED queue
  <2>1. Renews(l, x, y, {})  BY <1>2, FinishWantRenews
  <2> HIDE DEF y
  <2>2. \A k \in Link : Renews(k, ps[k], ps'[k], {})  BY <1>7, <2>1, RenewsOne
  <2> QED BY <1>1, <1>3, <1>7, <2>2, CalmSpin
<1>8. CASE /\ \E v \in x.active : v.req = m.req /\ v.s = m.s
           /\ floorFits(x, w, Len(m.chain))
           /\ ps' = [ps EXCEPT ![l].reqs = @ \ {w}]
           /\ queue' = [queue EXCEPT ![n] = Append(@, q)]
  <2>1. PICK v \in x.active : v.req = m.req /\ v.s = m.s  BY <1>8
  <2>2. w \in x.active /\ w.req = m.req  BY <2>1
  <2>3. w = v  BY <1>2, <2>1, <2>2 DEF Slots
  <2>4. ps' = [ps EXCEPT ![l] = [x EXCEPT !.reqs = @ \ {v}]]
    <3> HIDE DEF w
    <3> QED BY <1>8, <2>3
  <2>5. v.from <= Len(m.chain)
    <3>1. floorFits(x, v, Len(m.chain))
      <4> HIDE DEF w
      <4> QED BY <1>8, <2>3
    <3> QED BY <3>1 DEF floorFits
  <2> HIDE DEF w, y
  <2> DEFINE z == [x EXCEPT !.reqs = @ \ {v}]
  <2>6. /\ z.active = x.active /\ z.wanted = x.wanted /\ z.reqs = x.reqs \ {v}
        /\ z.proto = x.proto /\ z.progress = x.progress
    BY <1>2 DEF PeerOK, PeerFields
  <2> HIDE DEF z
  <2>7. ps' = [ps EXCEPT ![l] = z] /\ ps'[l] = z  BY <1>2, <2>4 DEF z
  <2>8. Renews(l, x, z, {})  BY <2>6, RenewsSame
  <2>9. \A k \in Link : Renews(k, ps[k], ps'[k], {})  BY <2>7, <2>8, RenewsOne
  <2>10. \A k \in Link : Moves(k)  BY <2>9, RenewsMoves DEF SpinInv, AsksOK
  <2>11. /\ q.link = l /\ q.req = m.req /\ q.s = m.s /\ q.t = "floor" /\ q.chain = m.chain
         /\ "req" \in DOMAIN q /\ "refused" \in DOMAIN q
    BY <1>a
  <2>12. m.s \in Stream /\ Len(m.chain) \in Nat
    <3>1. MsgOK(World, Back(l), m) /\ m.t = "TRUNCATED"  BY Received DEF Truncated
    <3>2. m.s \in Stream /\ FloorBacked(World, Back(l)[2], m.s, m.chain)
      BY <3>1 DEF MsgOK, ReqOK, PageOK
    <3>3. m.chain \in Seq(Content)  BY <3>2 DEF FloorBacked, Backed
    <3> QED BY <3>2, <3>3
  <2>13. Comes(n, q)
    <3>1. Traced(l, q)  BY <1>4, <2>11 DEF Traced
    <3> QED BY <2>11, <3>1 DEF Comes
  <2>14. FloorOK(n, q)'
    <3>1. \A u \in x.active : u.req = m.req => u = v  BY <1>2, <2>1 DEF Slots
    <3> HIDE DEF x
    <3>2. ps'[q.link] = z /\ Len(q.chain) = Len(m.chain) /\ v.req = q.req
      BY <2>1, <2>7, <2>11
    <3>3. z.proto >= 3 /\ v \in z.active /\ \A u \in z.active : u.req = q.req => u.from <= Len(q.chain)
      BY <1>5, <2>1, <2>5, <2>6, <2>11, <3>1, <3>2
    <3>4. ps'[q.link].proto >= 3  BY <3>2, <3>3
    <3>5. \A u \in ps'[q.link].active : u.req = q.req => u.from <= Len(q.chain)  BY <3>2, <3>3
    <3>6. ~(\A u \in ps'[q.link].active : u.req # q.req)  BY <3>2, <3>3
    <3>7. Len(q.chain) \in Nat /\ "refused" \in DOMAIN q  BY <2>11, <2>12
    <3> HIDE DEF n
    <3> QED BY ONLY <3>4, <3>5, <3>6, <3>7 DEF FloorOK
  <2>15. \A j \in Node : (\A e \in Items(j)' : Comes(j, e)) /\ FloorsOK(j)'
    <3>1. v \in ps[l].active /\ v.req = q.req /\ v.s = q.s /\ ps'[l].active = ps[l].active
      BY <2>1, <2>6, <2>7, <2>11
    <3>2. q.link = l /\ q.s \in Stream  BY <2>11, <2>12
    <3>3. /\ UNCHANGED <<log, sealed, fruitless, settled>>
          /\ queue' = [queue EXCEPT ![l[1]] = Append(@, q)]
      BY <1>1, <1>8
    <3> HIDE DEF x
    <3> QED BY <2>10, <2>13, <2>14, <3>1, <3>2, <3>3, FloorAdd
  <2>16. Grown /\ \A j \in Link, t \in Stream : Kept(j, t)
    BY <1>1, GrownSame DEF Kept, Contig
  <2>17. \A j \in Link : Renews(j, ps[j], ps'[j], Stream)  BY <2>9 DEF Renews
  <2>18. \A j \in Link, t \in Stream : t \in ps'[j].wanted => t \in ps[j].wanted
    BY <2>9 DEF Renews
  <2>19. DOMAIN fruitless' = Link /\ \A j \in Link : DOMAIN fruitless'[j] = Stream
    BY <1>1 DEF SpinInv
  <2> QED BY <1>3, <2>15, <2>16, <2>17, <2>18, <2>19, WorkSpin
<1> QED BY <1>1, <1>6, <1>7, <1>8

\* A callback has run: one operation less.
LEMMA PopKept ==
  ASSUME Inv, SpinInv, Grown, NEW n \in Node, settled[n] # << >>,
         settled' = [settled EXCEPT ![n] = Tail(@)], UNCHANGED queue,
         \A l \in Link : Moves(l),
         \A j \in Node : \A p \in Items(j) : IsFloor(p) => Spared(j, p)
  PROVE  \A j \in Node : (\A e \in Items(j)' : Comes(j, e)) /\ FloorsOK(j)'
<1> SUFFICES ASSUME NEW j \in Node
             PROVE  (\A e \in Items(j)' : Comes(j, e)) /\ FloorsOK(j)'
  OBVIOUS
<1>1. DOMAIN settled = Node /\ IsSeq(settled[n])  BY Parts DEF SettledOK
<1>2. ToSet(Tail(settled[n])) \subseteq ToSet(settled[n])  BY <1>1, TailSet
<1>3. /\ queue'[j] = queue[j]
      /\ settled'[j] = IF j = n THEN Tail(settled[n]) ELSE settled[j]
  BY <1>1
<1>4. Items(j)' \subseteq Items(j) /\ ToSet(settled'[j]) \subseteq ToSet(settled[j])
  BY <1>2, <1>3 DEF Items
<1>5. Order(ps', queue'[j], settled'[j])
  <2>1. Order(ps', queue[j], settled[j])  BY OrderKept DEF SpinInv, FloorsOK
  <2>2. CASE j = n
    <3>1. Order(ps', queue[n], Tail(settled[n]))  BY <1>1, <2>1, <2>2, OrderPop
    <3> QED BY <1>3, <2>2, <3>1
  <2> QED BY <1>3, <2>1, <2>2
<1>6. \A q \in Items(j)' : IsFloor(q) =>
        \E p \in Items(j) : /\ IsFloor(p) /\ p.link = q.link /\ p.s = q.s /\ p.req = q.req
                            /\ p.chain = q.chain /\ DOMAIN p = DOMAIN q
  BY <1>4
<1>7. FloorsOK(j)'  BY <1>4, <1>5, <1>6, FloorsAt
<1> QED BY <1>4, <1>7 DEF Comes

\* onTruncated's callback asks again for a stream that still is to grow: by now the WANT
\* that was cut short has brought the floor.
LEMMA CompleteFloorSpin ==
  ASSUME Inv, SpinInv, LaneInv, Inv', LaneInv', NEW n \in Node, CompleteFloor(n)
  PROVE  SpinInv'
<1>a. PICK q : q = Head(settled[n])  OBVIOUS
<1> DEFINE l == q.link
           s == q.s
           x == ps[l]
           y == finishWant(l, x, q.req)
           z == IF q.refused \/ Contig(n, s) >= q.peerHead \/ q.req = 0
                THEN y ELSE queueWant(l, y, s)
<1>1. /\ settled[n] # << >> /\ q.t = "floor" /\ settled' = [settled EXCEPT ![n] = Tail(@)]
      /\ ps' = [ps EXCEPT ![l] = z] /\ SendRequests
      /\ UNCHANGED <<log, sealed, queue, lane, fruitless>>
  BY <1>a DEF CompleteFloor, logVars
<1>2. l \in Link /\ l[1] = n /\ s \in Stream /\ q \in ToSet(settled[n])
  <2>1. IsSeq(settled[n])  BY Parts DEF SettledOK
  <2>2. q \in ToSet(settled[n])  BY <1>a, <1>1, <2>1, TailSet
  <2> QED BY <2>2, Parts DEF SettledOK, DoneOK
<1>3. q \in Items(n) /\ q \in Out(l)  BY <1>2 DEF Items, Out, Replies
<1>4. PeerOK(x) /\ Slots(x, {}, Waiting(l)) /\ DOMAIN ps = Link
  BY <1>2, Parts DEF PeersOK, LaneInv
<1> HIDE DEF l, s, x
<1>5. PeerOK(y)  BY <1>2, <1>4, Parts, FinishWantOK
<1>6. Slots(y, {}, {w \in Waiting(l) : w.req # q.req})  BY <1>2, <1>4, FinishWantSlots
<1>7. Renews(l, x, y, {})  BY <1>2, <1>4, FinishWantRenews
<1> HIDE DEF y
<1>8. Renews(l, y, queueWant(l, y, s), {s})  BY <1>2, <1>5, <1>6, QueueWantRenews
<1>9. Renews(l, x, z, Stream)
  <2>1. Renews(l, x, y, Stream)  BY <1>7 DEF Renews
  <2>2. Renews(l, x, queueWant(l, y, s), {} \cup {s})  BY <1>7, <1>8, RenewsTrans
  <2>3. Renews(l, x, queueWant(l, y, s), Stream)  BY <1>2, <2>2 DEF Renews
  <2> QED BY <2>1, <2>3
<1>10. \A t \in z.wanted : t \in x.wanted \/ fruitless[l][t] = 0
  <2>1. CASE z = y  BY <1>7, <2>1 DEF Renews
  <2>2. CASE ~q.refused /\ q.req # 0 /\ z = queueWant(l, y, s)
    <3>1. IsFloor(q)  BY <1>1, <2>2 DEF IsFloor
    <3>2. FloorOK(n, q) /\ Contig(n, s) >= Len(q.chain)
      BY <1>2, <1>3, <2>2, <3>1 DEF SpinInv, FloorsOK, s
    <3>3. s \in x.wanted \/ fruitless[l][s] = 0
      <4>1. CASE \A w \in x.active : w.req # q.req
        BY <3>2, <4>1 DEF FloorOK, l, s, x
      <4>2. CASE \E w \in x.active : w.req = q.req
        <5>1. PICK w \in x.active : w.req = q.req  BY <4>2
        <5>2. AsksOK(l)  BY <1>2 DEF SpinInv
        <5>3. w.s = s  BY <1>3, <5>1, <5>2 DEF AsksOK, x, s
        <5>4. w.s \in x.wanted  BY <1>4, <5>1 DEF Slots, Held
        <5> QED BY <5>3, <5>4
      <4> QED BY <4>1, <4>2
    <3>4. z.wanted \subseteq x.wanted \cup {s}  BY <1>7, <1>8, <2>2 DEF Renews
    <3> QED BY <3>3, <3>4
  <2> QED BY <2>1, <2>2
<1> HIDE DEF z
<1>11. ASSUME NEW k \in Link
       PROVE  /\ Renews(k, ps[k], ps'[k], Stream)
              /\ \A t \in ps'[k].wanted : t \in ps[k].wanted \/ fruitless'[k][t] = 0
  <2>1. CASE k = l
    <3>1. ps'[k] = z /\ ps[k] = x  BY <1>1, <1>4, <2>1 DEF x
    <3> QED BY <1>1, <1>9, <1>10, <2>1, <3>1
  <2>2. CASE k # l
    <3>1. ps'[k] = ps[k]  BY <1>1, <1>4, <2>2
    <3> QED BY <3>1 DEF Renews
  <2> QED BY <2>1, <2>2
<1>12. Grown /\ \A k \in Link, t \in Stream : Kept(k, t)
  BY <1>1, GrownSame DEF Kept, Contig
<1>13. \A k \in Link : Moves(k)  BY <1>11, RenewsMoves DEF SpinInv, AsksOK
<1>14. \A j \in Node : (\A e \in Items(j)' : Comes(j, e)) /\ FloorsOK(j)'
  <2>1. \A j \in Node : \A p \in Items(j) : Spared(j, p)  BY <1>12, AllSpared
  <2> QED BY <1>1, <1>12, <1>13, <2>1, PopKept
<1>15. \A k \in Link : Says(k) /\ Carries(k)
  <2>1. \A k \in Link : Says(k)  BY <1>1, SaysSend
  <2> QED BY <1>1, <2>1 DEF Carries
<1>16. DOMAIN fruitless' = Link /\ \A k \in Link : DOMAIN fruitless'[k] = Stream
  BY <1>1 DEF SpinInv
<1> QED BY <1>11, <1>12, <1>14, <1>15, <1>16, WorkSpin

\* What is not wanted has no slot, and any count.
LEMMA CountGone ==
  ASSUME LaneInv', NEW l \in Link, NEW s \in Stream, fruitless'[l][s] \in 0..2,
         s \in DOMAIN ps'[l].progress, ps'[l].progress[s] \in Int, s \notin ps'[l].wanted
  PROVE  CountOK(l, s)'
<1>1. s \notin Held(ps'[l]) /\ \A w \in ps'[l].active : w.s # s
  <2>1. Slots(ps[l], {}, Waiting(l))'  BY DEF LaneInv
  <2> QED BY <2>1 DEF Slots, Held
<1> QED BY <1>1 DEF CountOK, Held

\* A round of s is over: slots turn to new WANTs, no other stream's progress changes.
Turns(l, s, x, z) ==
  /\ z.proto = x.proto
  /\ WantReqs(x) => WantReqs(z)
  /\ \A v \in z.active : v \in x.active \/ IsNew(l, v)
  /\ z.wanted \subseteq x.wanted
  /\ DOMAIN z.progress = DOMAIN x.progress
  /\ \A t \in Stream \ {s} : z.progress[t] = x.progress[t]

Noted(y, s, p, stalled) == [y EXCEPT !.progress[s] = p, !.stalled = stalled]

\* Its stream is wanted no more,
LEMMA RoundEnds ==
  ASSUME Inv, LaneInv, NEW l \in Link, NEW s \in Stream, NEW w \in ps[l].active, w.s = s,
         s \in DOMAIN ps[l].progress, NEW p \in Int, NEW stalled, NEW y, NEW z,
         y = finishWant(l, ps[l], w.req), z = Noted(y, s, p, stalled)
  PROVE  Turns(l, s, ps[l], z) /\ z.progress[s] = p /\ s \notin z.wanted
<1> DEFINE x == ps[l]
<1>1. PeerOK(x) /\ Slots(x, {}, Waiting(l))  BY Parts DEF PeersOK, LaneInv
<1>2. Renews(l, x, y, {}) /\ s \notin y.wanted  BY <1>1, FinishWantRenews
<1>3. PeerOK(y)  BY <1>1, Parts, FinishWantOK
<1>4. /\ z.proto = y.proto /\ z.reqs = y.reqs /\ z.active = y.active /\ z.wanted = y.wanted
      /\ z.progress = [y.progress EXCEPT ![s] = p]
  BY <1>3 DEF PeerOK, PeerFields, Noted
<1>5. y.progress = x.progress  BY <1>2 DEF Renews
<1>6. /\ DOMAIN z.progress = DOMAIN x.progress /\ z.progress[s] = p
      /\ \A t \in Stream \ {s} : z.progress[t] = x.progress[t]
  BY <1>4, <1>5
<1>7. Turns(l, s, x, z)  BY <1>2, <1>4, <1>6 DEF Renews, Turns, WantReqs
<1> QED BY <1>2, <1>4, <1>6, <1>7

\* or asked for again, from the head that is the progress now.
LEMMA RoundAgain ==
  ASSUME Inv, LaneInv, NEW l \in Link, NEW s \in Stream, NEW w \in ps[l].active, w.s = s,
         s \in DOMAIN ps[l].progress, NEW p \in Int, NEW stalled, NEW y, NEW u, NEW z,
         y = finishWant(l, ps[l], w.req), u = Noted(y, s, p, stalled),
         z = queueWant(l, u, s)
  PROVE  /\ Turns(l, s, ps[l], z) /\ z.progress[s] = p
         /\ \A v \in z.active : v.s = s => v.from = Contig(l[1], s) + 1
<1> DEFINE x == ps[l]
<1>1. PeerOK(x) /\ Slots(x, {}, Waiting(l))  BY Parts DEF PeersOK, LaneInv
<1>2. PeerOK(y) /\ Slots(y, {}, {v \in Waiting(l) : v.req # w.req})
  BY <1>1, Parts, FinishWantOK, FinishWantSlots
<1>3. Turns(l, s, x, u) /\ u.progress[s] = p /\ s \notin u.wanted  BY RoundEnds
<1>4. PeerOK(u) /\ SameWants(y, u)  BY <1>2 DEF PeerOK, PeerFields, SameWants, Noted
<1>5. Slots(u, {}, {v \in Waiting(l) : v.req # w.req})  BY <1>2, <1>4, SlotsSame
<1>6. Renews(l, u, z, {s})  BY <1>4, <1>5, QueueWantRenews
<1>7. s \in x.wanted  BY <1>1 DEF Slots, Held
<1>8. Turns(l, s, x, z) /\ z.progress[s] = p  BY <1>3, <1>6, <1>7 DEF Turns, Renews
<1>9. ASSUME NEW v \in z.active, v.s = s PROVE v.from = Contig(l[1], s) + 1
  <2>1. v \notin u.active  BY <1>3, <1>5, <1>9 DEF Slots, Held
  <2>2. IsNew(l, v)  BY <1>6, <2>1 DEF Renews
  <2> QED BY <1>9, <2>2 DEF IsNew
<1> QED BY <1>8, <1>9

\* onEntries' callback where the session waits for nothing of the frame.
LEMMA CompleteOther ==
  ASSUME Inv, SpinInv, Inv', LaneInv', NEW n \in Node, settled[n] # << >>,
         settled' = [settled EXCEPT ![n] = Tail(@)], SendRequests,
         UNCHANGED <<log, sealed, queue, lane>>, NEW l, NEW s,
         ps' = [ps EXCEPT ![l] = ps[l]],
         fruitless' = [fruitless EXCEPT ![l][s] = fruitless[l][s]]
  PROVE  SpinInv'
<1>1. /\ DOMAIN ps = Link /\ DOMAIN fruitless' = Link
      /\ DOMAIN fruitless = Link /\ \A k \in Link : DOMAIN fruitless[k] = Stream
  BY Parts DEF PeersOK, SpinInv
<1>2. ASSUME NEW k \in Link
      PROVE  /\ ps'[k] = ps[k] /\ DOMAIN fruitless'[k] = Stream
             /\ \A t \in Stream : fruitless'[k][t] = fruitless[k][t]
  BY <1>1
<1>3. Grown /\ \A k \in Link, t \in Stream : Kept(k, t)
  BY <1>2, GrownSame DEF Kept, Contig
<1>4. \A k \in Link : Renews(k, ps[k], ps'[k], Stream) /\ ps'[k].wanted = ps[k].wanted
  BY <1>2 DEF Renews
<1>5. \A k \in Link : Moves(k)  BY <1>4, RenewsMoves DEF SpinInv, AsksOK
<1>6. \A j \in Node : (\A e \in Items(j)' : Comes(j, e)) /\ FloorsOK(j)'
  <2>1. \A j \in Node : \A p \in Items(j) : Spared(j, p)  BY <1>3, AllSpared
  <2> QED BY <1>3, <1>5, <2>1, PopKept
<1>7. \A k \in Link : Says(k) /\ Carries(k)
  <2>1. \A k \in Link : Says(k)  BY SaysSend
  <2> QED BY <2>1 DEF Carries
<1> QED BY <1>1, <1>2, <1>3, <1>4, <1>6, <1>7, WorkSpin

\* It ends the round of a WANT w with a count c.
LEMMA CompleteRound ==
  ASSUME Inv, SpinInv, LaneInv, Inv', LaneInv', NEW n \in Node, NEW q, q = Head(settled[n]),
         settled[n] # << >>, q.t = "entries", NEW l \in Link, q.link = l, NEW s \in Stream, q.s = s,
         settled' = [settled EXCEPT ![n] = Tail(@)], SendRequests,
         UNCHANGED <<log, sealed, queue, lane>>,
         NEW w \in ps[l].active, w.req = q.req, w.s = s,
         NEW z, ps' = [ps EXCEPT ![l] = z], Turns(l, s, ps[l], z),
         NEW c, fruitless' = [fruitless EXCEPT ![l][s] = c], CountOK(l, s)',
         \/ c = 0 \/ c = fruitless[l][s]
         \/ ~(q.to <= Contig(n, s)) /\ ~(w.from <= Contig(n, s))
  PROVE  SpinInv'
<1>1. /\ DOMAIN ps = Link /\ DOMAIN fruitless = Link
      /\ \A k \in Link : DOMAIN fruitless[k] = Stream
  BY Parts DEF PeersOK, SpinInv
<1>2. /\ DOMAIN fruitless' = Link /\ fruitless'[l] = [fruitless[l] EXCEPT ![s] = c]
      /\ \A k \in Link \ {l} : fruitless'[k] = fruitless[k]
  BY <1>1
<1>3. \A k \in Link : DOMAIN fruitless'[k] = Stream  BY <1>1, <1>2
<1>4. ps'[l] = z /\ \A k \in Link \ {l} : ps'[k] = ps[k]  BY <1>1
<1>5. Grown /\ \A j \in Node, t \in Stream : Contig(j, t)' = Contig(j, t)
  BY GrownSame DEF Contig
<1>6. ASSUME NEW k \in Link PROVE Moves(k)
  <2>1. WantReqs(ps[k])  BY DEF SpinInv, AsksOK
  <2>2. CASE k = l  BY <1>4, <2>1, <2>2 DEF Turns, Moves
  <2>3. CASE k # l
    <3>1. ps'[k] = ps[k]  BY <1>4, <2>3
    <3> QED BY <2>1, <3>1 DEF Moves
  <2> QED BY <2>2, <2>3
<1>7. ASSUME NEW k \in Link, NEW t \in Stream PROVE k # l \/ t # s => Kept(k, t)
  <2>1. k[1] \in Node  BY LinkEnds
  <2>2. k # l \/ t # s => fruitless'[k][t] = fruitless[k][t]  BY <1>1, <1>2
  <2> QED BY <1>5, <2>1, <2>2 DEF Kept
<1>8. ASSUME NEW k \in Link, NEW t \in Stream PROVE CountOK(k, t)'
  <2>1. CASE k = l /\ t = s  BY <2>1
  <2>2. CASE k # l \/ t # s
    <3>1. k[1] \in Node /\ CountOK(k, t)  BY LinkEnds DEF SpinInv
    <3>2. fruitless'[k][t] = fruitless[k][t]  BY <1>1, <1>2, <2>2
    <3>3. /\ DOMAIN ps'[k].progress = DOMAIN ps[k].progress
          /\ ps'[k].progress[t] = ps[k].progress[t] /\ ps'[k].wanted \subseteq ps[k].wanted
      BY <1>4, <2>2 DEF Turns
    <3> QED BY <1>5, <1>6, <3>1, <3>2, <3>3, CountKept
  <2> QED BY <2>1, <2>2
<1>9. q \in Items(n) /\ l[1] = n /\ IsSeq(settled[n])
  <2>1. IsSeq(settled[n])  BY Parts DEF SettledOK
  <2>2. q \in ToSet(settled[n])  BY <2>1, TailSet
  <2> QED BY <2>1, <2>2, Parts DEF SettledOK, DoneOK, Items
<1>10. ASSUME NEW j \in Node, NEW p \in Items(j), IsFloor(p) PROVE Spared(j, p)
  <2>1. p.link \in Link /\ p.link[1] = j /\ p.s \in Stream
    BY Parts DEF Items, QueueOK, SettledOK, ItemOK, DoneOK
  <2>2. CASE p.link # l \/ p.s # s  BY <1>7, <2>1, <2>2 DEF Spared
  <2>3. CASE p.link = l /\ p.s = s /\ (c = 0 \/ c = fruitless[l][s])
    <3>1. fruitless'[l][s] = c  BY <1>1, <1>2
    <3>2. Kept(l, s)  BY <1>5, <1>9, <2>3, <3>1 DEF Kept
    <3> QED BY <2>3, <3>2 DEF Spared
  <2>4. CASE p.link = l /\ p.s = s /\ ~(q.to <= Contig(n, s)) /\ ~(w.from <= Contig(n, s))
    <3>1. j = n /\ p # q  BY <1>9, <1>10, <2>1, <2>4 DEF IsFloor
    <3>2. Follows(ps, q, p)
      <4>1. Order(ps, queue[n], settled[n])  BY DEF SpinInv, FloorsOK
      <4>2. \A b \in ToSet(queue[n]) \cup ToSet(Tail(settled[n])) : Follows(ps, q, b)
        BY <1>9, <4>1, OrderPop
      <4>3. ToSet(settled[n]) \subseteq {q} \cup ToSet(Tail(settled[n]))  BY <1>9, TailHas
      <4> QED BY <3>1, <4>2, <4>3 DEF Items
    <3>3. FloorOK(n, p) /\ AsksOK(l) /\ EmptiesOK(l)
      BY <1>10, <3>1 DEF SpinInv, FloorsOK
    <3>4. q.entries # << >>
      <4>1. ps[l].proto >= 3  BY <2>4, <3>3 DEF FloorOK
      <4>2. EmptyOK(n, q)  BY <1>9, <3>3, <4>1 DEF EmptiesOK
      <4>3. q.req # 0  BY <3>3 DEF AsksOK
      <4> QED BY <2>4, <4>2, <4>3 DEF EmptyOK
    <3>5. w.req = p.req  BY <1>10, <2>4, <3>2, <3>4 DEF Follows
    <3>6. w.from <= Len(p.chain) /\ Len(p.chain) \in Nat /\ w.from \in Nat
      BY <2>4, <3>3, <3>5 DEF FloorOK, AsksOK
    <3>7. Contig(n, s) \in Nat /\ Contig(n, s)' = Contig(n, s)  BY <1>5, Parts, LogBounds
    <3>8. ~(Contig(n, s)' >= Len(p.chain))  BY <2>4, <3>6, <3>7
    <3> QED BY <2>4, <3>1, <3>8 DEF Spared
  <2> QED BY <2>2, <2>3, <2>4
<1>11. \A j \in Node : (\A e \in Items(j)' : Comes(j, e)) /\ FloorsOK(j)'
  BY <1>5, <1>6, <1>10, PopKept
<1>12. \A k \in Link : Says(k) /\ Carries(k)
  <2>1. \A k \in Link : Says(k)  BY SaysSend
  <2> QED BY <2>1 DEF Carries
<1> QED BY <1>2, <1>3, <1>5, <1>6, <1>8, <1>11, <1>12, LaneSpin

\* The stream asked for again after the round of the WANT numbered req.
AgainAfter(l, s, req, p, stalled) ==
  queueWant(l, Noted(finishWant(l, ps[l], req), s, p, stalled), s)
Rerun(l, s, p, z) ==
  /\ Turns(l, s, ps[l], z) /\ z.progress[s] = p
  /\ \A v \in z.active : v.s = s => v.from = Contig(l[1], s) + 1
LEMMA RunAgain ==
  ASSUME Inv, LaneInv, NEW l \in Link, NEW s \in Stream, NEW w \in ps[l].active, w.s = s,
         s \in DOMAIN ps[l].progress, NEW p \in Int, NEW st
  PROVE  Rerun(l, s, p, AgainAfter(l, s, w.req, p, st))
<1>1. PICK y : y = finishWant(l, ps[l], w.req)  OBVIOUS
<1>2. PICK u : u = Noted(y, s, p, st)  OBVIOUS
<1>3. PICK z : z = queueWant(l, u, s)  OBVIOUS
<1>4. /\ Turns(l, s, ps[l], z) /\ z.progress[s] = p
      /\ \A v \in z.active : v.s = s => v.from = Contig(l[1], s) + 1
  BY <1>1, <1>2, <1>3, RoundAgain
<1> QED BY <1>1, <1>2, <1>3, <1>4 DEF Rerun, AgainAfter

\* What onEntries' callback makes of the peer state and of the count.
SlotAfter(n, q, l, s) ==
  LET x == ps[l]
      mine == q.done /\ \E w \in x.active : w.req = q.req
      y == finishWant(l, x, q.req)
      seen == [y EXCEPT !.progress[s] = Contig(n, s)]
  IN IF ~mine THEN x
     ELSE IF s \in sealed[n] \/ q.to <= Contig(n, s)
     THEN [y EXCEPT !.progress[s] = None, !.stalled = @ \ {s}]
     ELSE IF Stuck(l, s) THEN [seen EXCEPT !.stalled = @ \cup {s}]
     ELSE queueWant(l, [seen EXCEPT !.stalled = @ \ {s}], s)

CountAfter(n, q, l, s) ==
  LET mine == q.done /\ \E w \in ps[l].active : w.req = q.req
  IN IF ~mine \/ q.to <= Contig(n, s) THEN fruitless[l][s]
     ELSE IF \E w \in ps[l].active : w.req = q.req /\ w.from <= Contig(n, s) THEN 0
     ELSE fruitless[l][s] + 1

LEMMA CompletesAs ==
  ASSUME NEW n \in Node, CompleteEntries(n), NEW q, q = Head(settled[n]),
         NEW l, l = q.link, NEW s, s = q.s
  PROVE  /\ ps' = [ps EXCEPT ![l] = SlotAfter(n, q, l, s)]
         /\ fruitless' = [fruitless EXCEPT ![l][s] = CountAfter(n, q, l, s)]
<1> DEFINE h == Head(settled[n])
<1>1. ps' = [ps EXCEPT ![h.link] = SlotAfter(n, h, h.link, h.s)]
  BY ZenonT(60) DEF CompleteEntries, SlotAfter
<1>2. fruitless' = [fruitless EXCEPT ![h.link][h.s] = CountAfter(n, h, h.link, h.s)]
  BY DEF CompleteEntries, CountAfter
<1> HIDE DEF h
<1> QED BY <1>1, <1>2, Zenon DEF h

\* onEntries' callback: a round that ends without having brought anything is counted, and
\* its stream asked for again only the first time.
LEMMA CompleteEntriesSpin ==
  ASSUME Inv, SpinInv, LaneInv, Inv', LaneInv', NEW n \in Node, CompleteEntries(n)
  PROVE  SpinInv'
<1>a. PICK q : q = Head(settled[n])  OBVIOUS
<1>b. PICK l : l = q.link  OBVIOUS
<1>c. PICK s : s = q.s  OBVIOUS
<1>4. /\ ps' = [ps EXCEPT ![l] = SlotAfter(n, q, l, s)]
      /\ fruitless' = [fruitless EXCEPT ![l][s] = CountAfter(n, q, l, s)]
  <2>1. ps' = [ps EXCEPT ![l] = SlotAfter(n, q, l, s)]  BY <1>a, <1>b, <1>c, CompletesAs
  <2>2. fruitless' = [fruitless EXCEPT ![l][s] = CountAfter(n, q, l, s)]
    BY <1>a, <1>b, <1>c, CompletesAs, SMTT(60)
  <2> QED BY <2>1, <2>2
<1> DEFINE x == ps[l]
           mine == q.done /\ \E w \in x.active : w.req = q.req
           y == finishWant(l, x, q.req)
           at == Contig(n, s)
           seen == [y EXCEPT !.progress[s] = at]
           ended == [y EXCEPT !.progress[s] = None, !.stalled = @ \ {s}]
           stuck == [seen EXCEPT !.stalled = @ \cup {s}]
           again == [seen EXCEPT !.stalled = @ \ {s}]
           z == IF s \in sealed[n] \/ q.to <= at THEN ended
                ELSE IF Stuck(l, s) THEN stuck ELSE queueWant(l, again, s)
           d == fruitless[l][s]
           c == IF q.to <= at THEN d
                ELSE IF \E w \in x.active : w.req = q.req /\ w.from <= at THEN 0 ELSE d + 1
<1>1. /\ settled[n] # << >> /\ q.t = "entries" /\ settled' = [settled EXCEPT ![n] = Tail(@)]
      /\ SendRequests /\ UNCHANGED <<log, sealed, queue, lane>>
  BY <1>a DEF CompleteEntries, logVars
<1>2. l \in Link /\ l[1] = n /\ s \in Stream /\ q \in ToSet(settled[n])
  <2>1. IsSeq(settled[n])  BY Parts DEF SettledOK
  <2>2. q \in ToSet(settled[n])  BY <1>a, <1>1, <2>1, TailSet
  <2> QED BY <1>b, <1>c, <2>2, Parts DEF SettledOK, DoneOK
<1>3. /\ PeerOK(x) /\ Slots(x, {}, Waiting(l)) /\ DOMAIN ps = Link /\ DOMAIN fruitless = Link
      /\ DOMAIN fruitless[l] = Stream
  BY <1>2, Parts DEF PeersOK, LaneInv, SpinInv
<1>d. /\ SlotAfter(n, q, l, s) = IF ~mine THEN x ELSE z
      /\ CountAfter(n, q, l, s) = IF ~mine THEN d ELSE c
  <2>1. SlotAfter(n, q, l, s) = IF ~mine THEN x ELSE z  BY DEF SlotAfter
  <2>2. CountAfter(n, q, l, s) = IF ~mine \/ q.to <= at THEN d
                                 ELSE IF \E w \in x.active : w.req = q.req /\ w.from <= at
                                 THEN 0 ELSE d + 1
    BY DEF CountAfter
  <2> HIDE DEF mine, x, d, at
  <2> QED BY <2>1, <2>2
<1>5. CASE ~mine
  <2>1. ps' = [ps EXCEPT ![l] = ps[l]] /\ fruitless' = [fruitless EXCEPT ![l][s] = fruitless[l][s]]
    <3>1. SlotAfter(n, q, l, s) = x /\ CountAfter(n, q, l, s) = d
      <4> HIDE DEF mine, x, d, z, c
      <4> QED BY <1>d, <1>5
    <3> QED BY <1>4, <3>1
  <2> QED BY <1>1, <2>1, CompleteOther
<1>6. CASE mine
  <2>1. PICK w \in x.active : w.req = q.req  BY <1>6
  <2>2. \A v \in x.active : v.req = q.req => v = w  BY <1>3, <2>1 DEF Slots
  <2>3. ps' = [ps EXCEPT ![l] = z] /\ fruitless' = [fruitless EXCEPT ![l][s] = c]
    <3>1. SlotAfter(n, q, l, s) = z /\ CountAfter(n, q, l, s) = c
      <4> HIDE DEF mine, x, d, z, c
      <4> QED BY <1>d, <1>6
    <3> HIDE DEF mine, z, c
    <3> QED BY <1>4, <3>1
  <2>4. w.s = s
    <3>1. q \in Out(l)  BY <1>b, <1>2 DEF Out, Replies, Items
    <3> QED BY <1>c, <1>2, <2>1, <3>1 DEF SpinInv, AsksOK
  <2>5. CountOK(l, s) /\ s \in DOMAIN x.progress /\ d \in 0..1 /\ at \in Nat
    <3>1. CountOK(l, s)  BY <1>2 DEF SpinInv
    <3>2. s \in Held(x)  BY <2>1, <2>4 DEF Held
    <3>3. at \in Nat  BY <1>2, Parts, LogBounds
    <3> QED BY <3>1, <3>2, <3>3 DEF CountOK
  <2>6. s \in x.wanted  BY <1>3, <2>1, <2>4 DEF Slots, Held
  <2>7. c \in 0..2 /\ (c = 0 \/ c = d \/ (~(q.to <= at) /\ ~(w.from <= at)))
    <3> HIDE DEF at, d
    <3> QED BY <2>1, <2>5
  <2>8. UNCHANGED log /\ at' = at  BY <1>1 DEF Contig
  <2> DEFINE ends == s \in sealed[n] \/ q.to <= at \/ Stuck(l, s)
  <2>9. SUFFICES Turns(l, s, x, z) /\ CountOK(l, s)'
    <3> HIDE DEF z, c, x, y, at
    <3> QED BY <1>a, <1>b, <1>c, <1>1, <1>2, <2>1, <2>3, <2>4, <2>7, CompleteRound, ZenonT(60)
       DEF x, at
  <2>10. ps'[l] = z /\ fruitless'[l][s] = c
    <3> HIDE DEF z, c, x
    <3> QED BY <1>2, <1>3, <2>3
  <2>11. None \in Int /\ at \in Int /\ y = finishWant(l, x, w.req)  BY <2>1, <2>5 DEF None
  <2>a. DOMAIN y = PeerFields
    <3>1. PeerOK(y)  BY <1>2, <1>3, Parts, FinishWantOK
    <3> QED BY <3>1 DEF PeerOK
  <2>12. CASE ends
    <3>1. \E p \in Int : \E st : z = Noted(y, s, p, st)
      <4>1. ended = Noted(y, s, None, y.stalled \ {s})  BY <2>a DEF Noted
      <4>2. stuck = Noted(y, s, at, y.stalled \cup {s})  BY <2>a DEF Noted
      <4>3. z = ended \/ z = stuck  BY <2>12
      <4> HIDE DEF z, ended, stuck, y
      <4> QED BY <2>11, <4>1, <4>2, <4>3
    <3>2. PICK p \in Int : \E st : z = Noted(y, s, p, st)  BY <3>1
    <3>3. PICK st : z = Noted(y, s, p, st)  BY <3>2
    <3> HIDE DEF z, y
    <3>4. Turns(l, s, ps[l], z) /\ z.progress[s] = p /\ s \notin z.wanted
      BY <1>2, <2>1, <2>4, <2>5, <2>11, <3>3, RoundEnds
    <3>5. CountOK(l, s)'  BY <1>2, <2>5, <2>7, <2>10, <3>4, CountGone DEF Turns
    <3> QED BY <3>4, <3>5
  <2>13. CASE ~ends
    <3>1. again = Noted(y, s, at, y.stalled \ {s})  BY <2>a, Zenon DEF Noted, PeerFields
    <3>2. z = queueWant(l, again, s)  BY <2>13
    <3>3. d = 0
      <4>1. ~Stuck(l, s) /\ s \notin sealed[n]  BY <2>13
      <4> HIDE DEF z, y
      <4> QED BY <1>2, <2>5, <2>6, <4>1 DEF CountOK, Stuck
    <3> HIDE DEF z, again, y
    <3>a. PICK p : p = at  OBVIOUS
    <3>b. PICK st : again = Noted(y, s, p, st)  BY <3>1, <3>a
    <3>c. p \in Int  BY <2>11, <3>a
    <3>d. /\ Turns(l, s, x, z) /\ z.progress[s] = p
          /\ \A v \in z.active : v.s = s => v.from = Contig(l[1], s) + 1
      <4>1. l \in Link /\ s \in Stream /\ w \in ps[l].active /\ w.s = s
        BY <1>2, <2>1, <2>4
      <4>2. s \in DOMAIN ps[l].progress /\ y = finishWant(l, ps[l], w.req)  BY <2>5, <2>11
      <4>3. z = queueWant(l, again, s)  BY <3>2
      <4>4. z = AgainAfter(l, s, w.req, p, st)  BY ONLY <4>2, <4>3, <3>b DEF AgainAfter
      <4>5. Rerun(l, s, p, AgainAfter(l, s, w.req, p, st))
        BY ONLY Inv, LaneInv, <4>1, <4>2, <3>c, RunAgain
      <4> QED BY <4>4, <4>5 DEF Rerun
    <3>4. /\ Turns(l, s, x, z) /\ z.progress[s] = at
          /\ \A v \in z.active : v.s = s => v.from = Contig(l[1], s) + 1
      BY <3>a, <3>d
    <3>5. CountOK(l, s)'
      <4>1. c \in 0..1 /\ None # at
        <5> HIDE DEF d, at, x
        <5> QED BY <2>5, <2>7, <3>3 DEF None
      <4>2. Contig(l[1], s)' = at /\ s \in DOMAIN z.progress
        BY <1>2, <2>5, <2>8, <3>4 DEF Turns
      <4>3. ps'[l] = z /\ fruitless'[l][s] = c  BY <2>10
      <4>4. s \in DOMAIN z.progress /\ z.progress[s] = at /\ at \in Int /\ None # at
        BY <2>11, <3>4, <4>1, <4>2
      <4>5. \A v \in z.active : v.s = s => ~(v.from <= at)
        <5>1. \A v \in z.active : v.s = s => v.from = at + 1  BY <1>2, <3>4
        <5> HIDE DEF at
        <5> QED BY <2>5, <5>1
      <4> HIDE DEF c, x, at
      <4> QED BY ONLY <4>1, <4>2, <4>3, <4>4, <4>5 DEF CountOK
    <3> QED BY <3>4, <3>5
  <2> QED BY <2>12, <2>13
<1> QED BY <1>5, <1>6

\* Operations of the sessions B that have failed: nobody waits for them.
Dead(B, q) ==
  [i \in DOMAIN q |-> IF q[i].link \in B THEN [q[i] EXCEPT !.req = 0] ELSE q[i]]

LEMMA DeadOnes ==
  ASSUME NEW B, NEW q, NEW i \in DOMAIN q, {"t", "link", "s", "req"} \subseteq DOMAIN q[i]
  PROVE  LET d == Dead(B, q)[i]
         IN /\ DOMAIN d = DOMAIN q[i] /\ d.link = q[i].link /\ d.t = q[i].t
            /\ IF q[i].link \in B THEN d.req = 0 ELSE d = q[i]
BY DEF Dead

LEMMA DeadFollows ==
  ASSUME NEW p, NEW B, NEW q, NEW i \in DOMAIN q, NEW r, NEW j \in DOMAIN r,
         {"t", "link", "s", "req"} \subseteq DOMAIN q[i],
         {"t", "link", "s", "req"} \subseteq DOMAIN r[j], Follows(p, q[i], r[j])
  PROVE  Follows(p, Dead(B, q)[i], Dead(B, r)[j])
<1> DEFINE a == Dead(B, q)[i]
           b == Dead(B, r)[j]
<1>1. a.link = q[i].link /\ (IF q[i].link \in B THEN a.req = 0 ELSE a = q[i])  BY DeadOnes
<1>2. b.link = r[j].link /\ (IF r[j].link \in B THEN b.req = 0 ELSE b = r[j])  BY DeadOnes
<1> HIDE DEF a, b
<1>3. ASSUME IsFloor(b), a.link = b.link PROVE a = q[i] /\ b = r[j]
  BY <1>1, <1>2, <1>3 DEF IsFloor
<1>4. Follows(p, a, b)
  <2>1. CASE IsFloor(b) /\ a.link = b.link
    <3>1. a = q[i] /\ b = r[j]  BY <1>3, <2>1
    <3> QED BY <3>1
  <2>2. CASE ~(IsFloor(b) /\ a.link = b.link)  BY <2>2 DEF Follows
  <2> QED BY <2>1, <2>2
<1> QED BY <1>4 DEF a, b

LEMMA NilOrder ==
  ASSUME NEW p
  PROVE  Order(p, << >>, << >>)
<1>1. PICK z : z = << >>  OBVIOUS
<1>2. DOMAIN z = {} /\ ToSet(z) = {}
  <2>1. z \in Seq(Nat) /\ Len(z) = 0  BY <1>1
  <2> QED BY <2>1 DEF ToSet
<1>3. Order(p, z, z)  BY <1>2 DEF Order, Chained
<1> QED BY <1>1, <1>3

\* They stay in order, or are lost with the process.
LEMMA DeadOrder ==
  ASSUME NEW p, NEW B, NEW q, NEW d, Order(p, q, d),
         \A e \in ToSet(q) \cup ToSet(d) : {"t", "link", "s", "req"} \subseteq DOMAIN e
  PROVE  Order(p, Dead(B, q), Dead(B, d)) /\ Order(p, << >>, << >>)
<1>1. DOMAIN Dead(B, q) = DOMAIN q /\ DOMAIN Dead(B, d) = DOMAIN d  BY DEF Dead
<1>2. /\ \A i \in DOMAIN q : {"t", "link", "s", "req"} \subseteq DOMAIN q[i]
      /\ \A i \in DOMAIN d : {"t", "link", "s", "req"} \subseteq DOMAIN d[i]
  BY DEF ToSet
<1>3. Chained(p, Dead(B, q))  BY <1>1, <1>2, DeadFollows DEF Order, Chained
<1>4. Chained(p, Dead(B, d))  BY <1>1, <1>2, DeadFollows DEF Order, Chained
<1>5. \A a \in ToSet(Dead(B, d)), b \in ToSet(Dead(B, q)) : Follows(p, a, b)
  <2>1. \A i \in DOMAIN d, j \in DOMAIN q : Follows(p, d[i], q[j])  BY DEF Order, ToSet
  <2>2. \A i \in DOMAIN d, j \in DOMAIN q : Follows(p, Dead(B, d)[i], Dead(B, q)[j])
    BY <1>2, <2>1, DeadFollows
  <2> QED BY <1>1, <2>2 DEF ToSet
<1> QED BY <1>3, <1>4, <1>5, NilOrder DEF Order

\* New sessions start with every count 0; floors of the old ones complete nothing.
LEMMA ReopenSpin ==
  ASSUME Inv, SpinInv, Inv', LaneInv', NEW l \in Link, NEW down, reopen(l, down)
  PROVE  SpinInv'
<1> DEFINE both == IF down THEN {k \in Link : l[1] \in {k[1], k[2]}} ELSE {l, Back(l)}
<1>1. /\ ps' = [k \in Link |-> IF k \in both THEN Ready(ps[k].proto) ELSE ps[k]]
      /\ ctl' = [k \in Link |-> IF k \in both THEN ps'[k].reqs ELSE ctl[k]]
      /\ lane' = [k \in Link |-> IF k \in both THEN << >> ELSE lane[k]]
      /\ queue' = [n \in Node |-> IF down /\ n = l[1] THEN << >> ELSE Dead(both, queue[n])]
      /\ settled' = [n \in Node |-> IF down /\ n = l[1] THEN << >> ELSE Dead(both, settled[n])]
      /\ fruitless' = [k \in Link |-> IF k \in both THEN [s \in Stream |-> 0] ELSE fruitless[k]]
      /\ UNCHANGED <<log, sealed>>
  BY DEF reopen, logVars, Dead
<1>a. PICK B : B = both  OBVIOUS
<1>2. /\ \A k \in Link : /\ ps'[k] = IF k \in B THEN Ready(ps[k].proto) ELSE ps[k]
                         /\ ctl'[k] = IF k \in B THEN ps'[k].reqs ELSE ctl[k]
                         /\ lane'[k] = IF k \in B THEN << >> ELSE lane[k]
                         /\ fruitless'[k] = IF k \in B THEN [s \in Stream |-> 0] ELSE fruitless[k]
      /\ \A n \in Node :
           \/ queue'[n] = << >> /\ settled'[n] = << >>
           \/ queue'[n] = Dead(B, queue[n]) /\ settled'[n] = Dead(B, settled[n])
      /\ UNCHANGED <<log, sealed>> /\ DOMAIN fruitless' = Link
  <2> HIDE DEF both
  <2> QED BY <1>1, <1>a
<1> HIDE DEF both
<1>3. \A p : LET x == Ready(p)
             IN /\ x.proto = p /\ x.active = {} /\ x.progress = [s \in Stream |-> None]
                /\ \A r \in x.reqs : r.t = "HAVE_GET"
  BY DEF Ready, NewPeer
<1>4. Grown  BY <1>2, GrownSame
<1>5. ASSUME NEW k \in Link PROVE Moves(k)
  <2>1. WantReqs(ps[k])  BY DEF SpinInv, AsksOK
  <2> QED BY <1>2, <1>3, <2>1 DEF Moves, WantReqs
<1>6. ASSUME NEW k \in Link PROVE DOMAIN fruitless'[k] = Stream
  BY <1>2 DEF SpinInv
<1>7. ASSUME NEW k \in Link, NEW s \in Stream PROVE Kept(k, s) /\ CountOK(k, s)'
  <2>1. CASE k \in B
    <3>1. fruitless'[k][s] = 0  BY <1>2, <2>1
    <3>2. ps'[k].progress = [t \in Stream |-> None]  BY <1>2, <1>3, <2>1
    <3>3. s \in DOMAIN ps'[k].progress /\ ps'[k].progress[s] \in Int  BY <3>2 DEF None
    <3> QED BY <3>1, <3>3, CountZero DEF Kept
  <2>2. CASE k \notin B
    <3>1. ps'[k] = ps[k] /\ fruitless'[k] = fruitless[k]  BY <1>2, <2>2
    <3>2. Contig(k[1], s)' = Contig(k[1], s) /\ sealed' = sealed  BY <1>2 DEF Contig
    <3>3. CountOK(k, s)  BY DEF SpinInv
    <3>4. CountOK(k, s)'  BY <1>5, <3>1, <3>2, <3>3, CountKept
    <3> QED BY <3>1, <3>2, <3>4 DEF Kept
  <2> QED BY <2>1, <2>2
<1>8. ASSUME NEW n \in Node, NEW e \in Items(n)
      PROVE  {"t", "link", "s", "req"} \subseteq DOMAIN e
  <2>1. {"t", "link", "s"} \subseteq DOMAIN e /\ e.link \in Link /\ e.link[1] = n
    BY Parts DEF Items, QueueOK, SettledOK, ItemOK, DoneOK
  <2>2. e \in Out(e.link)  BY <2>1 DEF Out, Replies
  <2> QED BY <2>1, <2>2 DEF SpinInv, AsksOK
<1>9. ASSUME NEW n \in Node, NEW q, q = queue[n] \/ q = settled[n], NEW e \in ToSet(Dead(B, q))
      PROVE  e \in ToSet(q) \/ (e.req = 0 /\ "req" \in DOMAIN e)
  <2>1. PICK i \in DOMAIN q : e = Dead(B, q)[i]
    <3>1. DOMAIN Dead(B, q) = DOMAIN q  BY DEF Dead
    <3> QED BY <3>1 DEF ToSet
  <2>2. q[i] \in ToSet(q)  BY DEF ToSet
  <2>3. {"t", "link", "s", "req"} \subseteq DOMAIN q[i]  BY <1>8, <1>9, <2>2 DEF Items
  <2>4. e = q[i] \/ (e.req = 0 /\ DOMAIN e = DOMAIN q[i])  BY <2>1, <2>3, DeadOnes
  <2> QED BY <2>2, <2>3, <2>4
<1>10. ASSUME NEW n \in Node
       PROVE  /\ \A e \in ToSet(queue'[n]) :
                   e \in ToSet(queue[n]) \/ (e.req = 0 /\ "req" \in DOMAIN e)
              /\ \A e \in ToSet(settled'[n]) :
                   e \in ToSet(settled[n]) \/ (e.req = 0 /\ "req" \in DOMAIN e)
  <2>1. CASE queue'[n] = << >> /\ settled'[n] = << >>  BY <2>1, NilSet
  <2>2. CASE queue'[n] = Dead(B, queue[n]) /\ settled'[n] = Dead(B, settled[n])
    BY <1>9, <2>2
  <2> QED BY <1>2, <2>1, <2>2
<1>11. ASSUME NEW n \in Node PROVE \A e \in Items(n)' : Comes(n, e)
  BY <1>10 DEF Items, Comes, Traced
<1>12. ASSUME NEW n \in Node PROVE Order(ps', queue'[n], settled'[n])
  <2>1. Order(ps', queue[n], settled[n])  BY <1>5, OrderKept DEF SpinInv, FloorsOK
  <2>2. \A e \in ToSet(queue[n]) \cup ToSet(settled[n]) :
          {"t", "link", "s", "req"} \subseteq DOMAIN e
    BY <1>8 DEF Items
  <2>3. PICK p, q, d : p = ps' /\ q = queue[n] /\ d = settled[n]  OBVIOUS
  <2>4. Order(p, Dead(B, q), Dead(B, d)) /\ Order(p, << >>, << >>)
    BY <2>1, <2>2, <2>3, DeadOrder
  <2> QED BY <1>2, <2>3, <2>4
<1>13. ASSUME NEW n \in Node PROVE FloorsOK(n)'
  <2>1. \A p \in Items(n) : Spared(n, p)  BY <1>7, AllSpared
  <2>2. \A q \in Items(n)' : IsFloor(q) => q \in Items(n)  BY <1>10 DEF Items, IsFloor
  <2>3. \A q \in ToSet(settled'[n]) : IsFloor(q) => q \in ToSet(settled[n])
    BY <1>10 DEF IsFloor
  <2>4. \A q \in Items(n)' : IsFloor(q) =>
          \E p \in Items(n) : /\ IsFloor(p) /\ p.link = q.link /\ p.s = q.s /\ p.req = q.req
                              /\ p.chain = q.chain /\ DOMAIN p = DOMAIN q
    BY <2>2
  <2> QED BY <1>4, <1>5, <1>12, <2>1, <2>3, <2>4, FloorsAt
<1>14. ASSUME NEW k \in Link PROVE Says(k) /\ Carries(k)
  <2>1. Says(k)  BY <1>2 DEF Says
  <2>2. Back(k) \in Link  BY LinkEnds
  <2>3. ToSet(lane'[Back(k)]) \subseteq ToSet(lane[Back(k)])  BY <1>2, <2>2, NilSet
  <2> QED BY <2>1, <2>3 DEF Carries
<1> QED BY <1>2, <1>4, <1>5, <1>6, <1>7, <1>11, <1>13, <1>14, LaneSpin

LEMMA InitSpin == Init => SpinInv
<1> SUFFICES ASSUME Init PROVE SpinInv  OBVIOUS
<1>1. PICK p : ps = [l \in Link |-> Ready(p)]  BY DEF Init
<1>2. /\ ctl = [l \in Link |-> ps[l].reqs] /\ lane = [l \in Link |-> << >>]
      /\ queue = [n \in Node |-> << >>] /\ settled = [n \in Node |-> << >>]
      /\ fruitless = [l \in Link |-> [s \in Stream |-> 0]]
      /\ sealed = [n \in Node |-> {}]
  BY DEF Init
<1>3. LET x == Ready(p)
      IN /\ x.proto = p /\ x.active = {} /\ x.progress = [s \in Stream |-> None]
         /\ \A r \in x.reqs : r.t = "HAVE_GET"
  BY DEF Ready, NewPeer
<1>4. ASSUME NEW l \in Link
      PROVE  /\ ps[l].proto = p /\ ps[l].active = {} /\ ps[l].progress = [s \in Stream |-> None]
             /\ \A r \in ps[l].reqs : r.t = "HAVE_GET"
             /\ ctl[l] = ps[l].reqs /\ ToSet(lane[l]) = {}
             /\ \A s \in Stream : fruitless[l][s] = 0
  BY <1>1, <1>2, <1>3, NilSet
<1>5. ASSUME NEW n \in Node PROVE Items(n) = {} /\ queue[n] = << >> /\ settled[n] = << >>
  <2>1. queue[n] = << >> /\ settled[n] = << >>  BY <1>2
  <2> QED BY <2>1, NilSet DEF Items
<1>6. ASSUME NEW l \in Link PROVE AsksOK(l) /\ EmptiesOK(l)
  <2>1. Back(l) \in Link /\ l[1] \in Node  BY LinkEnds
  <2>2. Asked(l) = {} /\ Cuts(l) = {}  BY <1>4, <2>1 DEF Asked, Cuts
  <2>3. Out(l) = {} /\ Items(l[1]) = {} /\ ToSet(lane[Back(l)]) = {}
    BY <1>4, <1>5, <2>1, <2>2 DEF Out, Replies
  <2> QED BY <1>4, <2>1, <2>2, <2>3 DEF AsksOK, EmptiesOK, WantReqs
<1>7. ASSUME NEW l \in Link, NEW s \in Stream PROVE CountOK(l, s)
  <2>1. s \in DOMAIN ps[l].progress /\ ps[l].progress[s] \in Int  BY <1>4 DEF None
  <2> QED BY <1>4, <2>1 DEF CountOK
<1>8. ASSUME NEW n \in Node PROVE FloorsOK(n)
  <2>1. Order(ps, << >>, << >>)  BY NilOrder
  <2>2. ToSet(settled[n]) = {}  BY <1>5 DEF Items
  <2> QED BY <1>5, <2>1, <2>2 DEF FloorsOK
<1>9. DOMAIN fruitless = Link /\ \A l \in Link : DOMAIN fruitless[l] = Stream  BY <1>2
<1> QED BY <1>6, <1>7, <1>8, <1>9 DEF SpinInv

LEMMA StillSpin ==
  ASSUME SpinInv, UNCHANGED vars
  PROVE  SpinInv'
BY DEF vars, logVars, netVars, SpinInv, AsksOK, EmptiesOK, EmptyOK, CountOK, FloorsOK, FloorOK,
       Order, Chained, Follows, Items, Out, Asked, Replies, Cuts, Held, Contig

LEMMA NextSpin == SyncInv /\ SyncInv' /\ SpinInv /\ [Next]_vars => SpinInv'
<1> SUFFICES ASSUME Inv, LaneInv, Inv', LaneInv', SpinInv, [Next]_vars PROVE SpinInv'
  BY DEF SyncInv
<1>1. CASE \E n \in Node, s \in Stream : append(n, s, "x")  BY <1>1, AppendSpin
<1>2. CASE \E n \in Node, s \in Stream : prune(n, s)  BY <1>2, LocalSpin
<1>3. CASE \E l \in Link : antiEntropy(l) \/ tick(l)  BY <1>3, RoundSpin
<1>4. CASE \E l \in Link : retry(l) \/ (\E r \in ps[l].reqs : race(l, r))
                           \/ (\E m \in ctl[l] : lose(l, m))
  BY <1>4, ResendSpin
<1>5. CASE \E l \in Link : \E m \in ctl[Back(l)] : serveHave(l, m)  BY <1>5, ServeHaveSpin
<1>6. CASE \E l \in Link : \E m \in ctl[Back(l)] : HavePage(l, m)  BY <1>6, HavePageSpin
<1>7. CASE \E l \in Link : \E m \in ctl[Back(l)] : Finality(l, m)  BY <1>7, FinalitySpin
<1>8. CASE \E l \in Link : \E m \in ctl[Back(l)] : Want(l, m)  BY <1>8, WantSpin
<1>9. CASE \E l \in Link : \E m \in ctl[Back(l)] : Truncated(l, m)  BY <1>9, TruncatedSpin
<1>10. CASE \E l \in Link : \E m \in ctl[Back(l)] : serveProbe(l, m)  BY <1>10, ServeProbeSpin
<1>11. CASE \E l \in Link : \E m \in ctl[Back(l)] : ProbeRes(l, m)  BY <1>11, ProbeResSpin
<1>12. CASE \E l \in Link : onEntries(l)  BY <1>12, OnEntriesSpin
<1>13. CASE \E n \in Node : FlushEntries(n)  BY <1>13, FlushEntriesSpin
<1>14. CASE \E n \in Node : FlushSeal(n)  BY <1>14, FlushSealSpin
<1>15. CASE \E n \in Node : FlushFloor(n)  BY <1>15, FlushFloorSpin
<1>16. CASE \E n \in Node : CompleteEntries(n)  BY <1>16, CompleteEntriesSpin
<1>17. CASE \E n \in Node : CompleteFloor(n)  BY <1>17, CompleteFloorSpin
<1>18. CASE \E l \in Link : pumpDirty(l)  BY <1>18, PumpDirtySpin
<1>19. CASE \E l \in Link, down \in BOOLEAN : reopen(l, down)  BY <1>19, ReopenSpin
<1>20. CASE UNCHANGED vars  BY <1>20, StillSpin
<1> QED BY <1>1, <1>2, <1>3, <1>4, <1>5, <1>6, <1>7, <1>8, <1>9, <1>10, <1>11, <1>12, <1>13,
           <1>14, <1>15, <1>16, <1>17, <1>18, <1>19, <1>20 DEF Next

\* sync.ts queueWant, pumpWants, finishWant, onTruncated, onEntries: whatever is lost,
\* resent, refused or pruned, a wanted stream waits in the queue or holds one slot, the queue
\* waits on full slots only, and a slot is asked for again or has its adopted floor on the way
\* through the commit queue; lanes, slots and pending entries stay within their caps; and
\* while a stream does not grow at most two WANT rounds of it in a HAVE round bring nothing.
THEOREM WantsAreSound == Spec => []WantsSound
<1>1. Init => SyncInv /\ SpinInv  BY InitWants, InitSpin
<1>2. SyncInv /\ SpinInv /\ [Next]_vars => (SyncInv /\ SpinInv)'  BY NextWants, NextSpin
<1>3. SyncInv /\ SpinInv => WantsSound
  <2>1. SpinInv => NoSpin  BY DEF SpinInv, CountOK, NoSpin
  <2> QED BY <2>1, WantsFromInv DEF WantsSound
<1> QED BY <1>1, <1>2, <1>3, PTL DEF Spec
================================================================================
