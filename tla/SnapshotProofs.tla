---------------------------- MODULE SnapshotProofs ----------------------------
(***************************************************************************)
(* Snapshot bootstrap, for any number of peers, chunks, certificates and   *)
(* faults: a body is adopted only under its certificate, the view never    *)
(* starts above the log, and one peer at a time is asked for a body.       *)
(*                                                                         *)
(* requested is one set for all sessions (snapshot.ts 161-162), while the  *)
(* requests and the frames are a session's.  What keeps the two in step is *)
(* that everything a session holds of a body, the open request, the        *)
(* request on its way and the chunks on its way, belongs to one session at *)
(* a time and only while the id is marked: OwnerInv.                       *)
(***************************************************************************)
EXTENDS Snapshot, SequenceTheorems, TLAPS

Frame == [id : Gen, chunk : 1..Chunks]
Ctl == [t : {"OFFER", "GET"}, gen : Gen]
Link == [up : BOOLEAN, ctl : SUBSET Ctl, lane : Seq(Frame), ask : SUBSET Gen]
Asm == [id : 0..MaxGen, got : SUBSET (1..Chunks)]
Task == [id : Gen, at : {"verify", "install"}]

\* The shapes of the peers' and of the node's state.
PeerInv ==
  /\ gen \in [Peer -> Gen] /\ body \in [Peer -> 0..MaxGen] /\ builds \in [Peer -> SUBSET Gen]
  /\ \A p \in Peer : body[p] <= gen[p] /\ \A g \in builds[p] : g <= gen[p]

LinkInv ==
  /\ link \in [Peer -> Link]
  /\ \A p \in Peer : /\ Len(link[p].lane) <= LaneCap
                     /\ ~link[p].up => link[p].ctl = {} /\ link[p].lane = << >> /\ link[p].ask = {}

NodeInv ==
  /\ cert \in 0..MaxGen /\ have \in 0..MaxGen /\ requested \in SUBSET Gen
  /\ asm \in [Peer -> Asm] /\ \A p \in Peer : asm[p].got # 1..Chunks
  /\ rows \in 0..MaxRow /\ view \in [base : 0..MaxGen, from : 0..MaxRow] /\ view.from <= rows

\* Adoptions under way are of certified bodies; one whose cut is adopted is
\* covered by the log.
TaskInv ==
  /\ tasks \in Seq(Task) /\ Len(tasks) <= MaxTask
  /\ \A i \in 1..Len(tasks) : /\ tasks[i].id <= cert
                              /\ tasks[i].at = "install" => tasks[i].id <= have

\* What a session holds of body g.
Holds(l, g) ==
  \/ g \in l.ask
  \/ Msg("GET", g) \in l.ctl
  \/ \E i \in 1..Len(l.lane) : l.lane[i].id = g

OwnerInv ==
  \A p \in Peer : \A g \in Gen :
    Holds(link[p], g) => g \in requested /\ \A q \in Peer \ {p} : ~Holds(link[q], g)

Inv == PeerInv /\ LinkInv /\ NodeInv /\ TaskInv /\ CoverIsCertified /\ OwnerInv

--------------------------------------------------------------------------------
(* The operators of FiniteSetsExt that the actions use *)

\* handleGet sends no more than fits.
LEMMA SmallerOfTwo ==
  ASSUME NEW a \in Int, NEW b \in Int
  PROVE  Min({a, b}) \in {a, b} /\ Min({a, b}) <= a /\ Min({a, b}) <= b
<1>1. \E x \in {a, b} : \A y \in {a, b} : x <= y  OBVIOUS
<1>2. QED  BY <1>1 DEF Min

\* adoptCut never lowers the cover.
LEMMA LargerOfTwo ==
  ASSUME NEW a \in Int, NEW b \in Int
  PROVE  Max({a, b}) \in {a, b} /\ Max({a, b}) >= a /\ Max({a, b}) >= b
<1>1. \E x \in {a, b} : \A y \in {a, b} : x >= y  OBVIOUS
<1>2. QED  BY <1>1 DEF Max

\* The task list without one of its entries.
LEMMA TaskRemoved ==
  ASSUME NEW S, NEW s \in Seq(S), NEW i \in 1..Len(s)
  PROVE  /\ RemoveAt(s, i) \in Seq(S) /\ Len(RemoveAt(s, i)) = Len(s) - 1
         /\ \A j \in 1..Len(RemoveAt(s, i)) : \E k \in 1..Len(s) : RemoveAt(s, i)[j] = s[k]
<1> DEFINE a == SubSeq(s, 1, i - 1)
           b == SubSeq(s, i + 1, Len(s))
<1>1. a \in Seq(S) /\ Len(a) = i - 1 /\ \A j \in 1..i - 1 : a[j] = s[j]  OBVIOUS
<1>2. b \in Seq(S) /\ Len(b) = Len(s) - i /\ \A j \in 1..Len(s) - i : b[j] = s[i + j]  OBVIOUS
<1>3. RemoveAt(s, i) = a \o b  BY DEF RemoveAt
<1> HIDE DEF a, b
<1>4. Len(s) \in Nat /\ i \in 1..Len(s)  OBVIOUS
<1>5. /\ a \o b \in Seq(S) /\ Len(a \o b) = Len(a) + Len(b)
      /\ \A j \in 1..Len(a) + Len(b) : (a \o b)[j] = IF j <= Len(a) THEN a[j] ELSE b[j - Len(a)]
  BY <1>1, <1>2, ConcatProperties
<1>6. Len(a \o b) = Len(s) - 1  BY <1>1, <1>2, <1>4, <1>5
<1>7. ASSUME NEW j \in 1..Len(s) - 1 PROVE \E k \in 1..Len(s) : (a \o b)[j] = s[k]
  <2>1. CASE j <= i - 1
    <3>1. (a \o b)[j] = s[j]  BY <1>1, <1>2, <1>4, <1>5, <2>1
    <3>2. QED  BY <1>4, <3>1
  <2>2. CASE j > i - 1
    <3>1. j - (i - 1) \in 1..Len(s) - i  BY <1>4, <2>2
    <3>2. (a \o b)[j] = b[j - (i - 1)]  BY <1>1, <1>2, <1>4, <1>5, <2>2
    <3>3. (a \o b)[j] = s[i + (j - (i - 1))]  BY <1>2, <3>1, <3>2
    <3>4. i + (j - (i - 1)) \in 1..Len(s)  BY <1>4, <3>1
    <3>5. QED  BY <3>3, <3>4
  <2>3. j <= i - 1 \/ j > i - 1  BY <1>4
  <2>4. QED  BY <2>1, <2>2, <2>3
<1>8. QED  BY <1>3, <1>5, <1>6, <1>7

--------------------------------------------------------------------------------
(* One session changes *)

Closed(l) == l.up \/ (l.ctl = {} /\ l.lane = << >> /\ l.ask = {})

\* A session that is given a state of its type keeps the sessions' invariant.
LEMMA LinkChanges ==
  ASSUME LinkInv, NEW p \in Peer, NEW l \in Link, Len(l.lane) <= LaneCap, Closed(l),
         link' = [link EXCEPT ![p] = l]
  PROVE  LinkInv'
BY DEF LinkInv, Closed

\* A session that holds nothing new takes nothing from another.
LEMMA OwnerShrinks ==
  ASSUME LinkInv, OwnerInv, NEW p \in Peer, NEW l,
         \A g \in Gen : Holds(l, g) => Holds(link[p], g),
         link' = [link EXCEPT ![p] = l], requested' = requested
  PROVE  OwnerInv'
<1>1. \A q \in Peer : \A g \in Gen : Holds(link'[q], g) => Holds(link[q], g)
  <2> SUFFICES ASSUME NEW q \in Peer, NEW g \in Gen, Holds(link'[q], g) PROVE Holds(link[q], g)
    OBVIOUS
  <2>1. CASE q = p
    <3>1. link'[q] = l  BY <2>1 DEF LinkInv
    <3>2. QED  BY <2>1, <3>1
  <2>2. CASE q # p
    <3>1. link'[q] = link[q]  BY <2>2 DEF LinkInv
    <3>2. QED  BY <3>1
  <2>3. QED  BY <2>1, <2>2
<1> HIDE DEF Holds
<1>2. QED  BY <1>1 DEF OwnerInv

\* A control message that is no request can be added or removed freely.
LEMMA OwnerControl ==
  ASSUME LinkInv, OwnerInv, NEW p \in Peer, NEW c \in SUBSET Ctl,
         \A g \in Gen : Msg("GET", g) \in c => Holds(link[p], g),
         link' = [link EXCEPT ![p] = [link[p] EXCEPT !.ctl = c]], requested' = requested,
         link[p].up \/ c = {}
  PROVE  LinkInv' /\ OwnerInv'
<1> DEFINE l == [link[p] EXCEPT !.ctl = c]
<1>1. link[p] \in Link  BY DEF LinkInv
<1>2. l.ctl = c /\ l.lane = link[p].lane /\ l.ask = link[p].ask /\ l.up = link[p].up
  BY <1>1 DEF Link
<1>3. l \in Link  BY <1>1 DEF Link
<1>4. link' = [link EXCEPT ![p] = l]  OBVIOUS
<1> HIDE DEF l
<1>5. Len(l.lane) <= LaneCap /\ Closed(l)  BY <1>2 DEF LinkInv, Closed
<1>6. LinkInv'  BY <1>3, <1>4, <1>5, LinkChanges
<1>7. \A g \in Gen : Holds(l, g) => Holds(link[p], g)  BY <1>2 DEF Holds
<1>8. OwnerInv'  BY <1>4, <1>7, OwnerShrinks
<1>9. QED  BY <1>6, <1>8

--------------------------------------------------------------------------------
(* The actions *)

LEMMA InitInv == Init => Inv
<1> SUFFICES ASSUME Init PROVE Inv  OBVIOUS
<1> USE DEF Init
<1>1. PeerInv  BY Sizes DEF PeerInv, Gen
<1>2. LinkInv  BY Sizes DEF LinkInv, Link
<1>3. NodeInv
  <2>1. 1 \in 1..Chunks  BY Sizes
  <2>2. {} # 1..Chunks  BY <2>1
  <2>3. NoAsm \in Asm /\ NoAsm.got # 1..Chunks  BY <2>2, Sizes DEF Asm, NoAsm
  <2>4. view \in [base : 0..MaxGen, from : 0..MaxRow] /\ view.from <= rows  BY Sizes
  <2>5. QED  BY <2>3, <2>4, Sizes DEF NodeInv
<1>4. TaskInv  BY Sizes DEF TaskInv
<1>5. CoverIsCertified  BY DEF CoverIsCertified
<1>6. OwnerInv
  <2>1. \A p \in Peer : \A g \in Gen : ~Holds(link[p], g)  BY DEF Holds
  <2>2. QED  BY <2>1 DEF OwnerInv
<1>7. QED  BY <1>1, <1>2, <1>3, <1>4, <1>5, <1>6 DEF Inv

LEMMA Quiet == ASSUME Inv, UNCHANGED vars PROVE Inv'
<1>1. PeerInv' /\ LinkInv'  BY DEF Inv, PeerInv, LinkInv, vars
<1>2. NodeInv' /\ TaskInv'  BY DEF Inv, NodeInv, TaskInv, vars
<1>3. CoverIsCertified'  BY DEF Inv, CoverIsCertified, vars
<1>4. OwnerInv'  BY DEF Inv, OwnerInv, Holds, vars
<1>5. QED  BY <1>1, <1>2, <1>3, <1>4 DEF Inv

\* Certificates and rows: no session and no adoption moves.
LEMMA CertInv ==
  ASSUME Inv, row \/ \E p \in Peer : accepts(p) \/ finality(p)
  PROVE  Inv'
<1>1. PeerInv'
  <2>1. ASSUME NEW p \in Peer, accepts(p) PROVE PeerInv'
    <3>1. gen[p] \in Gen /\ Reach[p] \in Gen /\ gen[p] < Reach[p]
      BY <2>1, Sizes DEF Inv, PeerInv, accepts, Gen
    <3>2. gen[p] + 1 \in Gen  BY <3>1, Sizes DEF Gen
    <3>3. gen' \in [Peer -> Gen]  BY <2>1, <3>2 DEF Inv, PeerInv, accepts
    <3>4. \A q \in Peer : gen'[q] >= gen[q]  BY <2>1, Sizes DEF Inv, PeerInv, accepts, Gen
    <3>5. UNCHANGED <<body, builds>>  BY <2>1 DEF accepts
    <3>6. QED  BY <3>3, <3>4, <3>5, Sizes DEF Inv, PeerInv, Gen
  <2>2. CASE row \/ \E p \in Peer : finality(p)  BY <2>2 DEF Inv, PeerInv, finality, row, peers
  <2>3. QED  BY <2>1, <2>2
<1>2. UNCHANGED <<link, requested, tasks, have, view, asm>>
  BY DEF accepts, finality, row, node
<1>3. LinkInv' /\ OwnerInv'  BY <1>2 DEF Inv, LinkInv, OwnerInv, Holds
<1>4. cert' \in 0..MaxGen /\ cert' >= cert
  BY Sizes DEF Inv, NodeInv, PeerInv, accepts, finality, row, node, Gen
<1>5. rows' \in 0..MaxRow /\ rows' >= rows
  BY Sizes DEF Inv, NodeInv, accepts, finality, row, node
<1>6. NodeInv'  BY <1>2, <1>4, <1>5, Sizes DEF Inv, NodeInv
<1>7. TaskInv'
  <2>1. \A i \in 1..Len(tasks) : tasks[i].id \in Int
    <3>1. \A i \in 1..Len(tasks) : tasks[i] \in Task  BY DEF Inv, TaskInv
    <3>2. QED  BY <3>1, Sizes DEF Task, Gen
  <2>2. \A i \in 1..Len(tasks) : tasks[i].id <= cert'
    BY <1>4, <2>1, Sizes DEF Inv, NodeInv, TaskInv
  <2>3. QED  BY <1>2, <2>2 DEF Inv, TaskInv
<1>8. CoverIsCertified'  BY <1>2, <1>4, Sizes DEF Inv, NodeInv, CoverIsCertified
<1>9. QED  BY <1>1, <1>3, <1>6, <1>7, <1>8 DEF Inv

\* What leaves the node's own state alone leaves its invariants alone.
LEMMA NodeKept ==
  ASSUME Inv, UNCHANGED <<cert, have, asm, tasks, rows, view>>, requested' \in SUBSET Gen
  PROVE  NodeInv' /\ TaskInv' /\ CoverIsCertified'
BY DEF Inv, NodeInv, TaskInv, CoverIsCertified

LEMMA PeersKept == ASSUME Inv, UNCHANGED peers PROVE PeerInv'
BY DEF Inv, PeerInv, peers

LEMMA BuildInv ==
  ASSUME Inv, NEW p \in Peer, maybeOffer(p) \/ \E g \in Gen : buildIfStale(p, g)
  PROVE  Inv'
<1>1. NodeInv' /\ TaskInv' /\ CoverIsCertified'
  BY NodeKept DEF Inv, NodeInv, maybeOffer, buildIfStale, node
<1>2. CASE maybeOffer(p)
  <2>1. PeerInv'  BY <1>2, Sizes DEF Inv, PeerInv, maybeOffer, Gen
  <2>2. LinkInv' /\ OwnerInv'
    BY <1>2 DEF Inv, LinkInv, OwnerInv, Holds, maybeOffer, node
  <2>3. QED  BY <1>1, <2>1, <2>2 DEF Inv
<1>3. ASSUME NEW g \in Gen, buildIfStale(p, g) PROVE Inv'
  <2>1. PeerInv'  BY <1>3, Sizes DEF Inv, PeerInv, buildIfStale, Gen
  <2>2. requested' = requested  BY <1>3 DEF buildIfStale, node
  <2>3. CASE ~link[p].up
    <3>1. link' = link  BY <1>3, <2>3 DEF buildIfStale, Sends
    <3>2. LinkInv' /\ OwnerInv'  BY <2>2, <3>1 DEF Inv, LinkInv, OwnerInv, Holds
    <3>3. QED  BY <1>1, <2>1, <3>2 DEF Inv
  <2>4. CASE link[p].up
    <3> DEFINE c == link[p].ctl \cup {Msg("OFFER", g)}
    <3>1. link' = [link EXCEPT ![p] = [link[p] EXCEPT !.ctl = c]]
      BY <1>3, <2>4 DEF buildIfStale, Sends
    <3>2. c \in SUBSET Ctl  BY DEF Inv, LinkInv, Link, Ctl, Msg
    <3>3. \A h \in Gen : Msg("GET", h) \in c => Holds(link[p], h)  BY DEF Msg, Holds
    <3> HIDE DEF c
    <3>4. LinkInv' /\ OwnerInv'  BY <2>2, <2>4, <3>1, <3>2, <3>3, OwnerControl DEF Inv
    <3>5. QED  BY <1>1, <2>1, <3>4 DEF Inv
  <2>5. QED  BY <2>3, <2>4
<1>4. QED  BY <1>2, <1>3

\* A request is answered with the stored body, if it is still the one asked
\* for; its chunks belong to the session that asked.
LEMMA GetInv ==
  ASSUME Inv, NEW p \in Peer, NEW g \in Gen, handleGet(p, g)
  PROVE  Inv'
<1> DEFINE c == link[p].ctl \ {Msg("GET", g)}
           n == Min({Chunks, room(p)})
           out == [i \in 1..n |-> [id |-> body[p], chunk |-> i]]
           l == [[link[p] EXCEPT !.ctl = c] EXCEPT !.lane = @ \o out]
<1>1. NodeInv' /\ TaskInv' /\ CoverIsCertified' /\ PeerInv'
  BY NodeKept, PeersKept DEF Inv, NodeInv, handleGet, node
<1>2. link[p] \in Link /\ Msg("GET", g) \in link[p].ctl /\ requested' = requested
  BY DEF Inv, LinkInv, handleGet, Takes, node
<1>3. link[p].up  BY <1>2 DEF Inv, LinkInv
<1>4. c \in SUBSET Ctl  BY <1>2 DEF Link
<1>5. CASE ~Stored(p, g)
  <2>1. link' = [link EXCEPT ![p] = [link[p] EXCEPT !.ctl = c]]  BY <1>5 DEF handleGet, Taken
  <2>2. \A h \in Gen : Msg("GET", h) \in c => Holds(link[p], h)  BY DEF Holds
  <2> HIDE DEF c
  <2>3. LinkInv' /\ OwnerInv'  BY <1>2, <1>3, <1>4, <2>1, <2>2, OwnerControl DEF Inv
  <2>4. QED  BY <1>1, <2>3 DEF Inv
<1>6. CASE Stored(p, g)
  <2>1. link' = [link EXCEPT ![p] = l]
    <3>1. link' = [Taken(p, Msg("GET", g)) EXCEPT ![p].lane = @ \o out]
      BY <1>6 DEF handleGet
    <3>2. Taken(p, Msg("GET", g)) = [link EXCEPT ![p] = [link[p] EXCEPT !.ctl = c]]  BY DEF Taken
    <3> HIDE DEF out, c
    <3>3. QED  BY <3>1, <3>2 DEF Inv, LinkInv
  <2>2. room(p) \in Nat /\ room(p) + Len(link[p].lane) = LaneCap
    <3>1. link[p].lane \in Seq(Frame)  BY <1>2 DEF Link
    <3>2. Len(link[p].lane) \in Nat /\ Len(link[p].lane) <= LaneCap  BY <3>1 DEF Inv, LinkInv
    <3>3. LaneCap \in Nat  BY Sizes
    <3>4. room(p) = LaneCap - Len(link[p].lane)  BY DEF room
    <3>5. QED  BY <3>2, <3>3, <3>4
  <2>3. n \in Nat /\ n <= room(p) /\ n <= Chunks
    <3>1. Chunks \in Int /\ room(p) \in Int  BY <2>2, Sizes
    <3>2. n \in {Chunks, room(p)} /\ n <= Chunks /\ n <= room(p)  BY <3>1, SmallerOfTwo
    <3> HIDE DEF n
    <3>3. QED  BY <2>2, <3>2, Sizes
  <2> HIDE DEF n
  <2>4. out \in Seq(Frame) /\ Len(out) = n /\ \A i \in 1..n : out[i].id = g
    <3>1. \A i \in 1..n : [id |-> body[p], chunk |-> i] \in Frame
      BY <1>6, <2>3, Sizes DEF Frame, Stored
    <3>2. QED  BY <1>6, <2>3, <3>1 DEF Stored
  <2> HIDE DEF out
  <2>5. link[p].lane \in Seq(Frame)  BY <1>2 DEF Link
  <2>6. l.ctl = c /\ l.lane = link[p].lane \o out /\ l.ask = link[p].ask /\ l.up = link[p].up
    BY <1>2 DEF Link
  <2>7. link[p].lane \o out \in Seq(Frame) /\ Len(link[p].lane \o out) = Len(link[p].lane) + n
    BY <2>4, <2>5, ConcatProperties
  <2>8. l \in Link  BY <1>2, <1>4, <2>7 DEF Link
  <2> HIDE DEF l
  <2>9. Len(l.lane) <= LaneCap
    <3>1. Len(link[p].lane) \in Nat  BY <2>5
    <3>2. QED  BY <2>2, <2>3, <2>6, <2>7, <3>1, Sizes
  <2>10. LinkInv'  BY <1>3, <2>1, <2>6, <2>8, <2>9, LinkChanges DEF Inv, Closed
  <2>11. ASSUME NEW h \in Gen, Holds(l, h) PROVE Holds(link[p], h)
    <3>1. CASE h \in l.ask \/ Msg("GET", h) \in l.ctl  BY <2>6, <3>1 DEF Holds
    <3>2. ASSUME NEW i \in 1..Len(l.lane), l.lane[i].id = h PROVE Holds(link[p], h)
      <4>1. /\ Len(link[p].lane) \in Nat /\ i \in 1..Len(link[p].lane) + Len(out)
            /\ l.lane[i] = IF i <= Len(link[p].lane) THEN link[p].lane[i]
                           ELSE out[i - Len(link[p].lane)]
        BY <2>4, <2>5, <2>6, <2>7, ConcatProperties
      <4>2. CASE i <= Len(link[p].lane)
        <5>1. i \in 1..Len(link[p].lane)  BY <4>1, <4>2
        <5>2. QED  BY <3>2, <4>1, <4>2, <5>1 DEF Holds
      <4>3. CASE i > Len(link[p].lane)
        <5>1. i - Len(link[p].lane) \in 1..n  BY <2>3, <2>4, <4>1, <4>3
        <5>2. ~(i <= Len(link[p].lane))  BY <4>1, <4>3
        <5>3. h = g  BY <2>4, <3>2, <4>1, <5>1, <5>2
        <5>4. QED  BY <1>2, <5>3 DEF Holds
      <4>4. i <= Len(link[p].lane) \/ i > Len(link[p].lane)  BY <4>1
      <4>5. QED  BY <4>2, <4>3, <4>4
    <3>3. QED  BY <2>11, <3>1, <3>2 DEF Holds
  <2>12. OwnerInv'  BY <1>2, <2>1, <2>11, OwnerShrinks DEF Inv
  <2>13. QED  BY <1>1, <2>10, <2>12 DEF Inv
<1>7. QED  BY <1>5, <1>6

\* An offer is taken up once: an id that is not marked is held by no session.
LEMMA OfferInv ==
  ASSUME Inv, NEW p \in Peer, NEW g \in Gen, handleOffer(p, g)
  PROVE  Inv'
<1> DEFINE c == link[p].ctl \ {Msg("OFFER", g)}
           takes == certified(g) /\ have < g /\ g \notin requested
           l == [[link[p] EXCEPT !.ctl = c] EXCEPT !.ask = @ \cup {g},
                                                   !.ctl = @ \cup {Msg("GET", g)}]
<1>1. requested' \in SUBSET Gen  BY DEF Inv, NodeInv, handleOffer, asked
<1>2. NodeInv' /\ TaskInv' /\ CoverIsCertified' /\ PeerInv'
  BY <1>1, NodeKept, PeersKept DEF handleOffer
<1>3. link[p] \in Link /\ link[p].up
  BY DEF Inv, LinkInv, handleOffer, Takes
<1>4. c \in SUBSET Ctl  BY <1>3 DEF Link
<1>5. CASE ~takes
  <2>1. link' = [link EXCEPT ![p] = [link[p] EXCEPT !.ctl = c]] /\ requested' = requested
    BY <1>5 DEF handleOffer, Taken
  <2>2. \A h \in Gen : Msg("GET", h) \in c => Holds(link[p], h)  BY DEF Holds
  <2> HIDE DEF c
  <2>3. LinkInv' /\ OwnerInv'  BY <1>3, <1>4, <2>1, <2>2, OwnerControl DEF Inv
  <2>4. QED  BY <1>2, <2>3 DEF Inv
<1>6. CASE takes
  <2>1. requested' = requested \cup {g} /\ g \notin requested  BY <1>6 DEF handleOffer, asked
  <2>2. link' = [link EXCEPT ![p] = l]
    <3>1. link' = [Taken(p, Msg("OFFER", g)) EXCEPT ![p].ask = @ \cup {g},
                                                   ![p].ctl = @ \cup {Msg("GET", g)}]
      BY <1>6 DEF handleOffer
    <3>2. Taken(p, Msg("OFFER", g)) = [link EXCEPT ![p] = [link[p] EXCEPT !.ctl = c]]
      BY DEF Taken
    <3> HIDE DEF c
    <3>3. QED  BY <3>1, <3>2 DEF Inv, LinkInv
  <2>3. /\ l.ctl = c \cup {Msg("GET", g)} /\ l.lane = link[p].lane
        /\ l.ask = link[p].ask \cup {g} /\ l.up = link[p].up
    BY <1>3 DEF Link
  <2>4. l \in Link
    <3>1. c \cup {Msg("GET", g)} \in SUBSET Ctl  BY <1>4 DEF Ctl, Msg
    <3> HIDE DEF c
    <3>2. QED  BY <1>3, <3>1 DEF Link
  <2> HIDE DEF l
  <2>5. LinkInv'  BY <1>3, <2>2, <2>3, <2>4, LinkChanges DEF Inv, LinkInv, Closed
  <2>6. \A h \in Gen \ {g} : Holds(l, h) => Holds(link[p], h)  BY <2>3 DEF Holds, Msg
  <2>7. \A q \in Peer : ~Holds(link[q], g)  BY <2>1 DEF Inv, OwnerInv
  <2>8. link'[p] = l /\ \A q \in Peer \ {p} : link'[q] = link[q]
    BY <2>2 DEF Inv, LinkInv
  <2> HIDE DEF Holds
  <2>9. \A q \in Peer : \A h \in Gen \ {g} : Holds(link'[q], h) => Holds(link[q], h)
    BY <2>6, <2>8
  <2>10. \A q \in Peer \ {p} : ~Holds(link'[q], g)  BY <2>7, <2>8
  <2>11. OwnerInv'  BY <2>1, <2>9, <2>10 DEF Inv, OwnerInv
  <2>12. QED  BY <1>2, <2>5, <2>11 DEF Inv
<1>7. QED  BY <1>5, <1>6

\* A request is sent again, or a control message lost.
LEMMA RetryInv ==
  ASSUME Inv, NEW p \in Peer, NEW g \in Gen, retry(p, g) \/ slow(p, g)
  PROVE  Inv'
<1> DEFINE c == link[p].ctl \cup {Msg("GET", g)}
<1>1. NodeInv' /\ TaskInv' /\ CoverIsCertified' /\ PeerInv'
  BY NodeKept, PeersKept DEF Inv, NodeInv, retry, slow, node
<1>2. g \in link[p].ask /\ requested' = requested /\ link[p] \in Link
  BY DEF retry, slow, node, Inv, LinkInv
<1>3. link[p].up  BY <1>2 DEF Inv, LinkInv
<1>4. link' = [link EXCEPT ![p] = [link[p] EXCEPT !.ctl = c]]
  BY <1>3 DEF retry, slow, Sends
<1>5. c \in SUBSET Ctl  BY <1>2 DEF Link, Ctl, Msg
<1>6. \A h \in Gen : Msg("GET", h) \in c => Holds(link[p], h)  BY <1>2 DEF Holds, Msg
<1> HIDE DEF c
<1>7. LinkInv' /\ OwnerInv'  BY <1>2, <1>3, <1>4, <1>5, <1>6, OwnerControl DEF Inv
<1>8. QED  BY <1>1, <1>7 DEF Inv

LEMMA LoseInv ==
  ASSUME Inv, NEW p \in Peer, lose(p)
  PROVE  Inv'
<1>1. PICK m \in link[p].ctl : link' = [link EXCEPT ![p] = [link[p] EXCEPT !.ctl = link[p].ctl \ {m}]]
  BY DEF lose, Taken
<1> DEFINE c == link[p].ctl \ {m}
<1>2. NodeInv' /\ TaskInv' /\ CoverIsCertified' /\ PeerInv'
  BY NodeKept, PeersKept DEF Inv, NodeInv, lose, node
<1>3. requested' = requested /\ link[p] \in Link /\ link[p].up  BY DEF lose, node, Inv, LinkInv
<1>4. c \in SUBSET Ctl  BY <1>3 DEF Link
<1>5. \A h \in Gen : Msg("GET", h) \in c => Holds(link[p], h)  BY DEF Holds
<1>6. link' = [link EXCEPT ![p] = [link[p] EXCEPT !.ctl = c]]  BY <1>1
<1> HIDE DEF c
<1>7. LinkInv' /\ OwnerInv'  BY <1>3, <1>4, <1>5, <1>6, OwnerControl DEF Inv
<1>8. QED  BY <1>2, <1>7 DEF Inv

\* A chunk leaves the lane; the last one closes the request and, under the
\* certificate held now, starts the adoption.
LEMMA ChunkInv ==
  ASSUME Inv, NEW p \in Peer, handleChunk(p)
  PROVE  Inv'
<1> DEFINE f == Head(link[p].lane)
           a == assembled(asm[p], f)
           whole == a.got = 1..Chunks
           k == IF whole THEN link[p].ask \ {f.id} ELSE link[p].ask
           l == [link[p] EXCEPT !.lane = Tail(@), !.ask = IF whole THEN @ \ {f.id} ELSE @]
<1>1. /\ asm' = [asm EXCEPT ![p] = IF whole THEN NoAsm ELSE a]
      /\ link' = [link EXCEPT ![p] = l]
      /\ tasks' = IF whole /\ certified(f.id) THEN Append(tasks, [id |-> f.id, at |-> "verify"])
                  ELSE tasks
      /\ link[p].lane # << >> /\ Len(tasks) < MaxTask
      /\ UNCHANGED <<peers, cert, have, requested, rows, view>>
  BY DEF handleChunk
<1>2. link[p] \in Link /\ link[p].lane \in Seq(Frame) /\ asm[p] \in Asm
  BY DEF Inv, LinkInv, NodeInv, Link
<1>3. /\ f \in Frame /\ Tail(link[p].lane) \in Seq(Frame)
      /\ Len(Tail(link[p].lane)) = Len(link[p].lane) - 1
      /\ \A i \in 1..Len(Tail(link[p].lane)) : Tail(link[p].lane)[i] = link[p].lane[i + 1]
  BY <1>1, <1>2, HeadTailProperties
<1> HIDE DEF f
<1>4. a \in Asm
  <2>1. f.id \in 0..MaxGen /\ f.chunk \in 1..Chunks  BY <1>3, Sizes DEF Frame, Gen
  <2>2. asm[p].got \in SUBSET (1..Chunks)  BY <1>2 DEF Asm
  <2>3. QED  BY <2>1, <2>2 DEF assembled, Asm
<1>5. k \in SUBSET Gen /\ k \subseteq link[p].ask  BY <1>2 DEF Link
<1>6. l.ctl = link[p].ctl /\ l.lane = Tail(link[p].lane) /\ l.ask = k /\ l.up = link[p].up
  BY <1>2 DEF Link
<1>7. l \in Link  BY <1>2, <1>3, <1>5 DEF Link
<1> HIDE DEF a, k, l
<1>8. PeerInv'  BY <1>1, PeersKept
<1>9. LinkInv'
  <2>1. Len(link[p].lane) \in Nat /\ Len(link[p].lane) <= LaneCap  BY <1>2 DEF Inv, LinkInv
  <2>2. LaneCap \in Nat  BY Sizes
  <2>3. Len(l.lane) <= LaneCap  BY <1>3, <1>6, <2>1, <2>2
  <2>4. link[p].up  BY <1>1 DEF Inv, LinkInv
  <2>5. Closed(l)  BY <1>6, <2>4 DEF Closed
  <2>6. QED  BY <1>1, <1>7, <2>3, <2>5, LinkChanges DEF Inv
<1>10. OwnerInv'
  <2>1. ASSUME NEW g \in Gen, Holds(l, g) PROVE Holds(link[p], g)
    <3>1. ASSUME NEW i \in 1..Len(l.lane), l.lane[i].id = g PROVE Holds(link[p], g)
      <4>1. l.lane[i] = link[p].lane[i + 1]  BY <1>3, <1>6
      <4>2. Len(link[p].lane) \in Nat /\ Len(l.lane) = Len(link[p].lane) - 1  BY <1>2, <1>3, <1>6
      <4>3. i + 1 \in 1..Len(link[p].lane)  BY <4>2
      <4>4. QED  BY <3>1, <4>1, <4>3 DEF Holds
    <3>2. QED  BY <1>5, <1>6, <2>1, <3>1 DEF Holds
  <2>2. QED  BY <1>1, <2>1, OwnerShrinks DEF Inv
<1>11. NodeInv'
  <2>1. 1 \in 1..Chunks  BY Sizes
  <2>2. NoAsm \in Asm /\ NoAsm.got # 1..Chunks  BY <2>1, Sizes DEF NoAsm, Asm
  <2>3. asm' \in [Peer -> Asm] /\ \A q \in Peer : asm'[q].got # 1..Chunks
    BY <1>1, <1>4, <2>2 DEF Inv, NodeInv
  <2>4. QED  BY <1>1, <2>3 DEF Inv, NodeInv
<1>12. TaskInv'
  <2>1. CASE whole /\ certified(f.id)
    <3> DEFINE t == [id |-> f.id, at |-> "verify"]
    <3>1. t \in Task /\ t.id = cert /\ t.at = "verify"
      BY <1>3, <2>1 DEF Frame, Task, certified
    <3> HIDE DEF t
    <3>2. tasks' = Append(tasks, t) /\ tasks \in Seq(Task)  BY <1>1, <2>1 DEF t, Inv, TaskInv
    <3>3. /\ tasks' \in Seq(Task) /\ Len(tasks') = Len(tasks) + 1
          /\ \A i \in 1..Len(tasks) : tasks'[i] = tasks[i]
          /\ tasks'[Len(tasks) + 1] = t
      BY <3>1, <3>2, AppendProperties
    <3>4. Len(tasks) \in Nat /\ MaxTask \in Nat /\ cert \in Int  BY <3>2, Sizes DEF Inv, NodeInv
    <3>5. Len(tasks') <= MaxTask  BY <1>1, <3>3, <3>4
    <3>6. ASSUME NEW i \in 1..Len(tasks')
          PROVE  tasks'[i].id <= cert /\ (tasks'[i].at = "install" => tasks'[i].id <= have)
      <4>1. CASE i \in 1..Len(tasks)  BY <3>3, <4>1 DEF Inv, TaskInv
      <4>2. CASE i = Len(tasks) + 1  BY <3>1, <3>3, <3>4, <4>2
      <4>3. i \in 1..Len(tasks) \/ i = Len(tasks) + 1  BY <3>3, <3>4
      <4>4. QED  BY <4>1, <4>2, <4>3
    <3>7. QED  BY <1>1, <3>3, <3>5, <3>6 DEF TaskInv
  <2>2. CASE ~(whole /\ certified(f.id))
    <3>1. tasks' = tasks  BY <1>1, <2>2
    <3>2. QED  BY <1>1, <3>1 DEF Inv, TaskInv
  <2>3. QED  BY <2>1, <2>2
<1>13. CoverIsCertified'  BY <1>1 DEF Inv, CoverIsCertified
<1>14. QED  BY <1>8, <1>9, <1>10, <1>11, <1>12, <1>13 DEF Inv

Shut == [up |-> FALSE, ctl |-> {}, lane |-> << >>, ask |-> {}]

\* A session that closes holds nothing.
LEMMA ShutLink ==
  ASSUME LinkInv, NEW p \in Peer, link' = [link EXCEPT ![p] = Shut]
  PROVE  LinkInv' /\ \A g \in Gen : ~Holds(link'[p], g)
<1>1. Shut \in Link /\ Len(Shut.lane) = 0 /\ Closed(Shut)  BY DEF Shut, Link, Closed
<1>2. Len(Shut.lane) <= LaneCap  BY <1>1, Sizes
<1>3. LinkInv'  BY <1>1, <1>2, LinkChanges
<1>4. link'[p] = Shut  BY DEF LinkInv
<1>5. \A g \in Gen : ~Holds(Shut, g)  BY DEF Shut, Holds
<1>6. QED  BY <1>3, <1>4, <1>5

\* The id an overflow releases was held by the session it closes, so by no other.
LEMMA OverflowInv ==
  ASSUME Inv, NEW p \in Peer, overflow(p)
  PROVE  Inv'
<1> DEFINE id == Head(link[p].lane).id
<1>1. /\ link[p].lane # << >> /\ link' = [link EXCEPT ![p] = Shut] /\ requested' = requested \ {id}
      /\ asm' = [asm EXCEPT ![p] = NoAsm]
      /\ UNCHANGED <<peers, cert, have, tasks, rows, view>>
  BY DEF overflow, released, Shut
<1>2. PeerInv'  BY <1>1, PeersKept
<1>3. LinkInv' /\ \A g \in Gen : ~Holds(link'[p], g)  BY <1>1, ShutLink DEF Inv
<1>4. id \in Gen /\ Holds(link[p], id)
  <2>1. link[p].lane \in Seq(Frame)  BY DEF Inv, LinkInv, Link
  <2>2. 1 \in 1..Len(link[p].lane) /\ Head(link[p].lane) = link[p].lane[1]  BY <1>1, <2>1
  <2>3. link[p].lane[1] \in Frame  BY <2>1, <2>2
  <2>4. QED  BY <2>2, <2>3 DEF Frame, Holds
<1> HIDE DEF id
<1>5. \A q \in Peer \ {p} : link'[q] = link[q]  BY <1>1 DEF Inv, LinkInv
<1>6. OwnerInv'
  <2>1. \A q \in Peer \ {p} : ~Holds(link[q], id)  BY <1>4 DEF Inv, OwnerInv
  <2> HIDE DEF Holds
  <2>2. \A q \in Peer : \A g \in Gen : Holds(link'[q], g) => q # p /\ g # id /\ Holds(link[q], g)
    BY <1>3, <1>5, <2>1
  <2>3. QED  BY <1>1, <2>2 DEF Inv, OwnerInv
<1>7. NodeInv'
  <2>1. 1 \in 1..Chunks  BY Sizes
  <2>2. NoAsm \in Asm /\ NoAsm.got # 1..Chunks  BY <2>1, Sizes DEF NoAsm, Asm
  <2>3. asm' \in [Peer -> Asm] /\ \A q \in Peer : asm'[q].got # 1..Chunks
    BY <1>1, <2>2 DEF Inv, NodeInv
  <2>4. QED  BY <1>1, <2>3 DEF Inv, NodeInv
<1>8. TaskInv' /\ CoverIsCertified'  BY <1>1 DEF Inv, TaskInv, CoverIsCertified
<1>9. QED  BY <1>2, <1>3, <1>6, <1>7, <1>8 DEF Inv

LEMMA SessionInv ==
  ASSUME Inv, NEW p \in Peer, close(p) \/ redial(p)
  PROVE  Inv'
<1>1. NodeInv' /\ TaskInv' /\ CoverIsCertified' /\ PeerInv' /\ requested' = requested
  BY NodeKept, PeersKept DEF Inv, NodeInv, close, redial, node
<1>2. CASE close(p)
  <2>1. link' = [link EXCEPT ![p] = Shut]  BY <1>2 DEF close, Shut
  <2>2. LinkInv' /\ \A g \in Gen : ~Holds(Shut, g)
    <3>1. LinkInv' /\ \A g \in Gen : ~Holds(link'[p], g)  BY <2>1, ShutLink DEF Inv
    <3>2. link'[p] = Shut  BY <2>1 DEF Inv, LinkInv
    <3>3. QED  BY <3>1, <3>2
  <2>3. OwnerInv'  BY <1>1, <2>1, <2>2, OwnerShrinks DEF Inv
  <2>4. QED  BY <1>1, <2>2, <2>3 DEF Inv
<1>3. CASE redial(p)
  <2> DEFINE l == [link[p] EXCEPT !.up = TRUE]
  <2>1. link' = [link EXCEPT ![p] = l]  BY <1>3 DEF redial
  <2>2. link[p] \in Link  BY DEF Inv, LinkInv
  <2>3. l.up /\ l.ctl = link[p].ctl /\ l.lane = link[p].lane /\ l.ask = link[p].ask /\ l \in Link
    BY <2>2 DEF Link
  <2> HIDE DEF l
  <2>4. LinkInv'  BY <2>1, <2>3, LinkChanges DEF Inv, LinkInv, Closed
  <2>5. \A g \in Gen : Holds(l, g) => Holds(link[p], g)  BY <2>3 DEF Holds
  <2>6. OwnerInv'  BY <1>1, <2>1, <2>5, OwnerShrinks DEF Inv
  <2>7. QED  BY <1>1, <2>4, <2>6 DEF Inv
<1>4. QED  BY <1>2, <1>3

\* The cut of a certified body raises the cover, and only then is the view installed.
LEMMA AdoptInv ==
  ASSUME Inv, NEW i \in 1..MaxTask, adoptCut(i) \/ adopted(i)
  PROVE  Inv'
<1>1. i \in 1..Len(tasks) /\ tasks \in Seq(Task) /\ tasks[i] \in Task
  BY DEF adoptCut, adopted, Inv, TaskInv
<1>2. UNCHANGED <<peers, link, cert, requested, asm, rows>>  BY DEF adoptCut, adopted
<1>3. PeerInv' /\ LinkInv' /\ OwnerInv'
  BY <1>2, PeersKept DEF Inv, LinkInv, OwnerInv, Holds
<1>4. have \in 0..MaxGen /\ cert \in 0..MaxGen /\ have <= cert /\ tasks[i].id \in Gen
  BY <1>1 DEF Inv, NodeInv, CoverIsCertified, Task
<1>5. \A j \in 1..Len(tasks) : tasks[j].id \in Int
  <2>1. \A j \in 1..Len(tasks) : tasks[j] \in Task  BY <1>1
  <2>2. QED  BY <2>1, Sizes DEF Task, Gen
<1>6. CASE adoptCut(i)
  <2>1. have' = Max({have, tasks[i].id}) /\ tasks' = [tasks EXCEPT ![i].at = "install"] /\ view' = view
    BY <1>6 DEF adoptCut
  <2>2. have \in Int /\ tasks[i].id \in Int  BY <1>4, Sizes DEF Gen
  <2>3. have' \in {have, tasks[i].id} /\ have' >= have /\ have' >= tasks[i].id
    BY <2>1, <2>2, LargerOfTwo
  <2>4. tasks[i].id <= cert  BY <1>1 DEF Inv, TaskInv
  <2>5. have' \in 0..MaxGen /\ have' <= cert  BY <1>4, <2>3, <2>4, Sizes DEF Gen
  <2>6. NodeInv'  BY <1>2, <2>1, <2>5 DEF Inv, NodeInv
  <2>7. CoverIsCertified'  BY <1>2, <1>4, <2>1, <2>3, <2>5, Sizes DEF Inv, NodeInv, CoverIsCertified
  <2>8. tasks' \in Seq(Task) /\ Len(tasks') = Len(tasks)  BY <1>1, <2>1 DEF Task
  <2>9. \A j \in 1..Len(tasks) : tasks'[j].id = tasks[j].id /\ (j # i => tasks'[j] = tasks[j])
    BY <1>1, <2>1 DEF Task
  <2>10. ASSUME NEW j \in 1..Len(tasks) PROVE tasks'[j].at = "install" => tasks'[j].id <= have'
    <3>1. CASE j = i  BY <2>3, <2>2, <2>9, <3>1, Sizes
    <3>2. CASE j # i
      <4>1. tasks[j].at = "install" => tasks[j].id <= have  BY DEF Inv, TaskInv
      <4>2. QED  BY <1>5, <2>2, <2>3, <2>9, <3>2, <4>1
    <3>3. QED  BY <3>1, <3>2
  <2>11. TaskInv'  BY <1>2, <2>8, <2>9, <2>10 DEF Inv, TaskInv
  <2>12. QED  BY <1>3, <2>6, <2>7, <2>11 DEF Inv
<1>7. CASE adopted(i)
  <2>1. /\ tasks[i].at = "install" /\ view' = [base |-> tasks[i].id, from |-> rows]
        /\ tasks' = RemoveAt(tasks, i) /\ have' = have
    BY <1>7 DEF adopted
  <2>2. tasks[i].id <= have  BY <1>1, <2>1 DEF Inv, TaskInv
  <2>3. NodeInv'
    <3>1. view' \in [base : 0..MaxGen, from : 0..MaxRow] /\ view'.from <= rows
      BY <1>4, <2>1, Sizes DEF Gen, Inv, NodeInv
    <3>2. QED  BY <1>2, <2>1, <3>1 DEF Inv, NodeInv
  <2>4. CoverIsCertified'  BY <1>2, <1>4, <2>1, <2>2 DEF CoverIsCertified
  <2>5. /\ tasks' \in Seq(Task) /\ Len(tasks') = Len(tasks) - 1
        /\ \A j \in 1..Len(tasks') : \E k \in 1..Len(tasks) : tasks'[j] = tasks[k]
    <3>1. /\ RemoveAt(tasks, i) \in Seq(Task) /\ Len(RemoveAt(tasks, i)) = Len(tasks) - 1
          /\ \A j \in 1..Len(RemoveAt(tasks, i)) :
               \E k \in 1..Len(tasks) : RemoveAt(tasks, i)[j] = tasks[k]
      <4>1. tasks \in Seq(Task) /\ i \in 1..Len(tasks)  BY <1>1
      <4>2. QED  BY ONLY <4>1, TaskRemoved, SMTT(30)
    <3>2. QED  BY <2>1, <3>1
  <2>6. Len(tasks') <= MaxTask
    <3>1. Len(tasks) \in Nat /\ Len(tasks) <= MaxTask /\ MaxTask \in Nat
      BY <1>1, Sizes DEF Inv, TaskInv
    <3>2. QED  BY <2>5, <3>1
  <2>7. TaskInv'  BY <1>2, <2>1, <2>5, <2>6 DEF Inv, TaskInv
  <2>8. QED  BY <1>3, <2>3, <2>4, <2>7 DEF Inv
<1>8. QED  BY <1>6, <1>7

--------------------------------------------------------------------------------
(* The theorems *)

LEMMA NextInv == Inv /\ [Next]_vars => Inv'
<1> SUFFICES ASSUME Inv, [Next]_vars PROVE Inv'  OBVIOUS
<1>1. CASE UNCHANGED vars  BY <1>1, Quiet
<1>2. CASE row  BY <1>2, CertInv
<1>3. CASE Adopts  BY <1>3, AdoptInv DEF Adopts
<1>4. ASSUME NEW p \in Peer, accepts(p) \/ finality(p)  PROVE Inv'  BY <1>4, CertInv
<1>5. ASSUME NEW p \in Peer, Control(p)  PROVE Inv'  BY <1>5, GetInv, OfferInv DEF Control
<1>6. ASSUME NEW p \in Peer, maybeOffer(p) \/ \E g \in Gen : buildIfStale(p, g)  PROVE Inv'
  BY <1>6, BuildInv
<1>7. ASSUME NEW p \in Peer, \E g \in Gen : retry(p, g) \/ slow(p, g)  PROVE Inv'
  BY <1>7, RetryInv
<1>8. ASSUME NEW p \in Peer, handleChunk(p)  PROVE Inv'  BY <1>8, ChunkInv
<1>9. ASSUME NEW p \in Peer, overflow(p)  PROVE Inv'  BY <1>9, OverflowInv
<1>10. ASSUME NEW p \in Peer, lose(p)  PROVE Inv'  BY <1>10, LoseInv
<1>11. ASSUME NEW p \in Peer, close(p) \/ redial(p)  PROVE Inv'  BY <1>11, SessionInv
<1>12. QED
  BY <1>1, <1>2, <1>3, <1>4, <1>5, <1>6, <1>7, <1>8, <1>9, <1>10, <1>11 DEF Next, Retries

\* snapshot.ts: every reachable state satisfies the inductive invariant; with it,
\* a session's part in a transfer is its own, whatever closes and is dialled again.
THEOREM TransferInvariant == Spec => []Inv
BY InitInv, NextInv, PTL DEF Spec

\* snapshot.ts 150-171, 220-258: for any number of peers, generations, chunks
\* and faults, a body is adopted only under its certificate, the view is never
\* installed above the log, and no two sessions are asked for the same body.
THEOREM TransferIsSound == Spec => []TransferSound
<1>1. Inv => TransferSound
  <2> SUFFICES ASSUME Inv PROVE TransferSound  OBVIOUS
  <2>1. ASSUME NEW p \in Peer
        PROVE  /\ body[p] <= gen[p] /\ builds[p] \subseteq 1..gen[p]
               /\ Len(link[p].lane) <= LaneCap /\ link[p].ask \subseteq Gen
               /\ (~link[p].up => link[p].ctl = {} /\ link[p].lane = << >>)
               /\ asm[p].id \in 0..MaxGen /\ asm[p].got \subseteq 1..Chunks
               /\ asm[p].got # 1..Chunks
    <3>1. body[p] <= gen[p]  BY DEF Inv, PeerInv
    <3>2. builds[p] \subseteq 1..gen[p]  BY Sizes DEF Inv, PeerInv, Gen
    <3>3. link[p] \in Link /\ asm[p] \in Asm  BY DEF Inv, LinkInv, NodeInv
    <3>4. link[p].ask \subseteq Gen /\ asm[p].id \in 0..MaxGen /\ asm[p].got \subseteq 1..Chunks
      BY <3>3 DEF Link, Asm
    <3>5. QED  BY <3>1, <3>2, <3>4 DEF Inv, LinkInv, NodeInv
  <2>2. TypeOK  BY <2>1 DEF Inv, NodeInv, TaskInv, TypeOK
  <2>3. AskedOnce
    <3>1. \A p \in Peer : link[p].ask \subseteq Gen  BY <2>1
    <3>2. QED  BY <3>1 DEF Inv, OwnerInv, Holds, AskedOnce
  <2>4. QED  BY <2>2, <2>3 DEF Inv, TransferSound
<1>2. QED  BY <1>1, TransferInvariant, PTL
================================================================================
