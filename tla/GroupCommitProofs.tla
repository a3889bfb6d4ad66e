--------------------------- MODULE GroupCommitProofs ---------------------------
(***************************************************************************)
(* Group commit (GroupCommit) is proved for every number of items, wall    *)
(* clock, counter limit, epsilon and set of remote stamps: the stream that *)
(* flush commits is numbered without a gap and stamped in order, resolved  *)
(* appends are durable, and the causal edges are the author's last write.  *)
(*                                                                         *)
(* The invariant keeps the two stores apart.  What holds of the committed  *)
(* rows holds of the transaction's rows with the live clock in the place   *)
(* of the saved one; the snapshots that flush takes are good for the       *)
(* committed rows, so a rollback lands in the invariant again, and the     *)
(* clock on disk is, so a restart does.  Every item is in one place: the   *)
(* queue, the batch, the settle list or the promises settled.              *)
(***************************************************************************)
EXTENDS GroupCommit, TLAPS

Store == [rows : Seq(Row), head : Nat, hlc : Hlc]
Seqs == {{}} \cup {{n} : n \in 1..MaxItems}

TypeInv ==
  /\ disk \in Store /\ work \in Store
  /\ heads \in {{}, {work.head}} /\ (step # "running" => work = disk)
  /\ hlcState \in Hlc /\ saved \in [hlc : Hlc, tail : Seqs]
  /\ scopeTail \in Seqs /\ winner \in Seqs
  /\ queue \in Seq(Item) /\ batch \in Seq(Item) /\ flushing \subseteq 1..pushed
  /\ flushTimer \in BOOLEAN /\ scheduled \in BOOLEAN /\ pushed \in 0..MaxItems
  /\ staged \subseteq Settlement /\ acked \subseteq Settlement /\ rejected \subseteq 1..pushed
  /\ step \in {"idle", "running", "committed"}
  /\ phase \in {"open", "closing", "closed"} /\ faults \in Faults

\* A seq is an own item that was pushed, so the items left bound the seqs to come.
RoomInv ==
  /\ disk.head <= work.head
  /\ work.head + Len(batch) + Len(queue) <= pushed

\* The running flush owns the queue it took.
FlowInv ==
  /\ step # "idle" => queue = << >>
  /\ step = "idle" => flushing = {} /\ staged = {}
  /\ step # "running" => batch = << >>

Distinct(items) == \A j, k \in DOMAIN items : items[j].id = items[k].id => j = k

\* Every item is in one place.
ItemInv ==
  /\ Distinct(queue) /\ Distinct(batch)
  /\ \A k \in DOMAIN queue :
       /\ queue[k].id <= pushed /\ queue[k].id \notin rejected
       /\ \A s \in acked : s.id # queue[k].id
  /\ \A k \in DOMAIN batch :
       batch[k].id \in flushing /\ \A s \in staged : s.id # batch[k].id
  /\ \A s \in staged : s.id \in flushing
  /\ \A s, t \in staged : s.id = t.id => s = t
  /\ \A i \in flushing : i \notin rejected /\ \A s \in acked : s.id # i
  /\ \A s \in acked : s.id <= pushed

\* No two settlements hold the same seq.
SeqInv ==
  /\ \A s \in staged : s.seq <= work.head
  /\ \A s, t \in staged : s.seq = t.seq /\ s.seq # 0 => s = t
  /\ \A s \in staged, t \in acked : s.seq = t.seq => s.seq = 0

Numbered(s) == s.head = Len(s.rows) /\ \A k \in 1..Len(s.rows) : s.rows[k].seq = k
Rising(rows) == \A k \in 2..Len(rows) : hlcCompare(rows[k - 1].hlc, rows[k].hlc)
Below(rows, h) == \A k \in 1..Len(rows) : ~hlcCompare(h, rows[k].hlc)

RowInv ==
  /\ Numbered(disk) /\ Rising(disk.rows) /\ Below(disk.rows, disk.hlc)
  /\ Numbered(work) /\ Rising(work.rows) /\ Below(work.rows, hlcState)
  /\ step = "running" => Below(disk.rows, saved.hlc)

\* The write before the next one, as write's causalProvider sees it.
Observed(tail) == IF tail # {} THEN tail ELSE winner
Previous(n) == IF n = 0 THEN {} ELSE {n}
Linked(rows) == \A k \in 1..Len(rows) : rows[k].causal = Previous(k - 1)

LinkInv ==
  faults = {} =>
    /\ Linked(disk.rows) /\ Linked(work.rows)
    /\ Observed(scopeTail) = Previous(work.head)
    /\ step = "running" => Observed(saved.tail) = Previous(disk.head)

\* Without an invalid entry, an edge never points ahead.
Within(tail, n) == \A t \in tail : t <= n

EdgeInv ==
  "invalid" \notin faults =>
    /\ \A k \in 1..Len(disk.rows) : Within(disk.rows[k].causal, k - 1)
    /\ \A k \in 1..Len(work.rows) : Within(work.rows[k].causal, k - 1)
    /\ Within(scopeTail, work.head) /\ Within(winner, disk.head)
    /\ step = "running" => Within(saved.tail, disk.head)

Inv == /\ TypeInv /\ RoomInv /\ FlowInv /\ ItemInv /\ SeqInv /\ RowInv
       /\ AckedDurable /\ LinkInv /\ EdgeInv

--------------------------------------------------------------------------------
(* The hybrid clock *)

\* stamp never returns a timestamp at or below the clock it reads, whatever the
\* wall clock does.
LEMMA StampAbove ==
  ASSUME NEW h \in Hlc, NEW pt \in Nat
  PROVE  stamp(h, pt) \in Hlc /\ hlcCompare(h, stamp(h, pt))
BY DEF stamp, Hlc, hlcCompare

\* The greatest of three numbers, as merge chooses it.
LEMMA GreatestOfThree ==
  ASSUME NEW a \in Nat, NEW b \in Nat, NEW c \in Nat,
         NEW m, m = CHOOSE n \in {a, b, c} : \A k \in {a, b, c} : k <= n
  PROVE  m \in {a, b, c} /\ a <= m /\ b <= m /\ c <= m
<1>1. \E n \in {a, b, c} : \A k \in {a, b, c} : k <= n
  <2>1. CASE a <= b /\ c <= b
    BY <2>1
  <2>2. CASE b <= a /\ c <= a
    BY <2>2
  <2>3. CASE a <= c /\ b <= c
    BY <2>3
  <2> QED BY <2>1, <2>2, <2>3
<1> QED BY <1>1

\* merge never sets the clock back, though its carry resets c.
LEMMA MergeAbove ==
  ASSUME NEW h \in Hlc, NEW remote \in Hlc, NEW pt \in Nat
  PROVE  merge(h, remote, pt) \in Hlc /\ hlcCompare(h, merge(h, remote, pt))
<1> DEFINE top == CHOOSE n \in {h.l, remote.l, pt} :
                    \A m \in {h.l, remote.l, pt} : m <= n
           cs == {g.c + 1 : g \in {f \in {h, remote} : f.l = top}}
           most == CHOOSE n \in cs : \A m \in cs : m <= n
           c == IF cs = {} THEN 0 ELSE most
<1>1. h.l \in Nat /\ h.c \in Nat /\ remote.l \in Nat /\ remote.c \in Nat
  BY DEF Hlc
<1>2. top \in Nat /\ h.l <= top
  <2>1. top \in {h.l, remote.l, pt} /\ h.l <= top
    BY <1>1, GreatestOfThree
  <2> QED BY <1>1, <2>1
<1> HIDE DEF top
<1>3. cs \subseteq {h.c + 1, remote.c + 1} /\ (h.l = top => h.c + 1 \in cs)
  OBVIOUS
<1> HIDE DEF cs
<1>4. cs # {} => most \in cs /\ \A m \in cs : m <= most
  <2> SUFFICES ASSUME cs # {}
               PROVE  \E n \in cs : \A m \in cs : m <= n
    OBVIOUS
  <2>1. h.c + 1 \in cs \/ remote.c + 1 \in cs
    BY <1>3
  <2>2. CASE h.c + 1 \in cs /\ (remote.c <= h.c \/ remote.c + 1 \notin cs)
    <3>1. \A m \in cs : m <= h.c + 1
      BY <1>1, <1>3, <2>2
    <3> QED BY <2>2, <3>1
  <2>3. CASE remote.c + 1 \in cs /\ (h.c <= remote.c \/ h.c + 1 \notin cs)
    <3>1. \A m \in cs : m <= remote.c + 1
      BY <1>1, <1>3, <2>3
    <3> QED BY <2>3, <3>1
  <2>4. remote.c <= h.c \/ h.c <= remote.c
    BY <1>1
  <2> QED BY <2>1, <2>2, <2>3, <2>4
<1> HIDE DEF most
<1>5. c \in Nat /\ (h.l = top => h.c < c)
  <2>1. CASE cs = {}
    BY <1>3, <2>1
  <2>2. CASE cs # {}
    <3>1. most \in {h.c + 1, remote.c + 1} /\ (h.l = top => h.c + 1 <= most) /\ c = most
      BY <1>3, <1>4, <2>2
    <3> HIDE DEF c
    <3> QED BY <1>1, <3>1
  <2> QED BY <2>1, <2>2
<1> HIDE DEF c
<1>6. merge(h, remote, pt) = IF c >= HLC_C_LIMIT THEN [l |-> top + 1, c |-> 0]
                             ELSE [l |-> top, c |-> c]
  BY DEF merge, top, cs, most, c
<1> QED BY <1>1, <1>2, <1>5, <1>6, CommitAssumption DEF Hlc, hlcCompare

\* The order of timestamps.
LEMMA CompareOrder ==
  ASSUME NEW f \in Hlc, NEW g \in Hlc, NEW h \in Hlc
  PROVE  /\ hlcCompare(f, g) => ~hlcCompare(g, f)
         /\ ~hlcCompare(g, f) /\ hlcCompare(g, h) => hlcCompare(f, h)
         /\ ~hlcCompare(g, f) /\ hlcCompare(g, h) => ~hlcCompare(h, f)
BY DEF Hlc, hlcCompare

--------------------------------------------------------------------------------
(* Rows *)

\* Appending the next row, stamped above the clock, keeps a stream numbered and
\* in order, and the new clock is at or above every row.
LEMMA AppendKeepsRows ==
  ASSUME NEW s \in Store, NEW h \in Hlc, NEW g \in Hlc, NEW row \in Row,
         Numbered(s), Rising(s.rows), Below(s.rows, h), hlcCompare(h, g),
         row.seq = s.head + 1, row.hlc = g,
         NEW t \in Store, t.rows = Append(s.rows, row), t.head = s.head + 1
  PROVE  Numbered(t) /\ Rising(t.rows) /\ Below(t.rows, g)
<1>1. s.rows \in Seq(Row) /\ s.head \in Nat /\ s.hlc \in Hlc
  BY DEF Store
<1>2. t.rows = Append(s.rows, row) /\ t.head = s.head + 1 /\ t \in Store
  OBVIOUS
<1>3. Len(t.rows) = Len(s.rows) + 1 /\ Len(s.rows) \in Nat /\ s.head = Len(s.rows)
      /\ \A k \in 1..Len(s.rows) : t.rows[k] = s.rows[k] /\ s.rows[k] \in Row
      /\ t.rows[Len(s.rows) + 1] = row
  BY <1>1, <1>2 DEF Numbered
<1>4. Numbered(t)
  BY <1>2, <1>3 DEF Numbered
<1>5. \A k \in 1..Len(s.rows) : s.rows[k].hlc \in Hlc
  BY <1>3 DEF Row
<1>6. Rising(t.rows)
  <2> SUFFICES ASSUME NEW k \in 2..Len(t.rows)
               PROVE  hlcCompare(t.rows[k - 1].hlc, t.rows[k].hlc)
    BY DEF Rising
  <2>1. CASE k \in 2..Len(s.rows)
    BY <1>3, <2>1 DEF Rising
  <2>2. CASE k = Len(s.rows) + 1
    <3>1. k - 1 \in 1..Len(s.rows)
      BY <1>3, <2>2
    <3>2. ~hlcCompare(h, s.rows[k - 1].hlc)
      BY <3>1 DEF Below
    <3>3. hlcCompare(s.rows[k - 1].hlc, g)
      BY <1>5, <3>1, <3>2, CompareOrder
    <3> QED BY <1>3, <2>2, <3>1, <3>3
  <2> QED BY <1>3, <2>1, <2>2
<1>7. Below(t.rows, g)
  <2> SUFFICES ASSUME NEW k \in 1..Len(t.rows) PROVE ~hlcCompare(g, t.rows[k].hlc)
    BY DEF Below
  <2>1. CASE k \in 1..Len(s.rows)
    <3>1. ~hlcCompare(h, s.rows[k].hlc)
      BY <2>1 DEF Below
    <3> QED BY <1>3, <1>5, <2>1, <3>1, CompareOrder
  <2>2. CASE k = Len(s.rows) + 1
    BY <1>3, <2>2 DEF hlcCompare, Hlc
  <2> QED BY <1>3, <2>1, <2>2
<1> QED BY <1>2, <1>4, <1>6, <1>7

\* A later clock is above the rows that an earlier one is above.
LEMMA BelowLater ==
  ASSUME NEW s \in Store, NEW h \in Hlc, NEW g \in Hlc,
         Below(s.rows, h), hlcCompare(h, g)
  PROVE  Below(s.rows, g)
<1>1. s.rows \in Seq(Row)
  BY DEF Store
<1>2. \A k \in 1..Len(s.rows) : s.rows[k] \in Row
  BY <1>1
<1>3. \A k \in 1..Len(s.rows) : s.rows[k].hlc \in Hlc
  BY <1>2 DEF Row
<1> QED BY <1>3, CompareOrder DEF Below

--------------------------------------------------------------------------------
(* Each action keeps the invariant *)

\* The ids in the queue are ids of items pushed.
LEMMA QueueIds ==
  ASSUME Inv
  PROVE  /\ queue \in Seq(Item) /\ Len(queue) \in Nat /\ pushed \in Nat
         /\ DOMAIN queue = 1..Len(queue)
         /\ \A k \in 1..Len(queue) : queue[k].id \in 1..pushed
         /\ Ids(queue) \subseteq 1..pushed
<1>1. queue \in Seq(Item) /\ Len(queue) \in Nat /\ pushed \in Nat
      /\ DOMAIN queue = 1..Len(queue)
  BY DEF Inv, TypeInv
<1>2. \A k \in 1..Len(queue) : queue[k] \in Item
  BY <1>1
<1>3. \A k \in 1..Len(queue) : queue[k].id \in Nat \ {0}
  BY <1>2 DEF Item
<1>4. \A k \in 1..Len(queue) : queue[k].id \in 1..pushed
  BY <1>1, <1>3 DEF Inv, ItemInv
<1> QED BY <1>1, <1>4 DEF Ids

LEMMA PushKeeps ==
  ASSUME Inv, NEW kind \in {"append", "external"}, push(kind), UNCHANGED faults
  PROVE  Inv'
<1> DEFINE item == [id |-> pushed + 1, kind |-> kind]
<1>1. /\ step = "idle" /\ pushed < MaxItems /\ pushed' = pushed + 1
      /\ queue' = Append(queue, item) /\ flushTimer' = TRUE
      /\ UNCHANGED <<disk, work, heads, hlcState, scopeTail, winner, scheduled, saved,
                     batch, flushing, staged, acked, rejected, step, phase>>
  BY DEF push, memory, flushVars, promises
<1>2. pushed \in Nat /\ MaxItems \in Nat /\ pushed + 1 \in 1..MaxItems
  BY <1>1, CommitAssumption DEF Inv, TypeInv
<1>3. item \in Item /\ queue \in Seq(Item) /\ queue' \in Seq(Item)
      /\ Len(queue') = Len(queue) + 1 /\ Len(queue) \in Nat
  BY <1>1, <1>2 DEF Item, Inv, TypeInv
<1>4. /\ DOMAIN queue' = 1..(Len(queue) + 1) /\ DOMAIN queue = 1..Len(queue)
      /\ \A k \in 1..Len(queue) : queue'[k] = queue[k] /\ queue[k] \in Item
      /\ queue'[Len(queue) + 1] = item
  BY <1>1, <1>3
<1>5. TypeInv'
  BY <1>1, <1>2, <1>3 DEF Inv, TypeInv
<1>6. RoomInv'
  BY <1>1, <1>2, <1>3 DEF Inv, TypeInv, RoomInv, Store
<1>7. FlowInv'
  BY <1>1 DEF Inv, FlowInv
<1>8. ItemInv'
  <2>1. \A k \in 1..Len(queue) : queue[k].id <= pushed /\ queue[k].id \in Nat
    BY <1>4 DEF Inv, ItemInv, Item
  <2>2. Distinct(queue')
    BY <1>2, <1>3, <1>4, <2>1 DEF Distinct, Inv, ItemInv
  <2>3. pushed + 1 \notin rejected /\ \A r \in acked : r.id # pushed + 1 /\ r.id <= pushed + 1
    BY <1>2 DEF Inv, TypeInv, ItemInv, Settlement
  <2>4. \A k \in DOMAIN queue' :
          /\ queue'[k].id <= pushed' /\ queue'[k].id \notin rejected
          /\ \A r \in acked : r.id # queue'[k].id
    BY <1>1, <1>2, <1>3, <1>4, <2>1, <2>3 DEF Inv, ItemInv
  <2>5. Distinct(batch)'
    BY <1>1 DEF Inv, ItemInv, Distinct
  <2> QED BY <1>1, <2>2, <2>3, <2>4, <2>5 DEF Inv, ItemInv, Distinct
<1>9. SeqInv' /\ RowInv' /\ AckedDurable'
  BY <1>1 DEF Inv, SeqInv, RowInv, AckedDurable, Numbered, Rising, Below
<1>10. LinkInv' /\ EdgeInv'
  BY <1>1 DEF Inv, LinkInv, EdgeInv, Linked, Observed, Previous, Within
<1> QED BY <1>5, <1>6, <1>7, <1>8, <1>9, <1>10 DEF Inv

LEMMA TakeBatchKeeps ==
  ASSUME Inv, step = "idle", TakeBatch, UNCHANGED faults,
         phase' \in {"open", "closing", "closed"}
  PROVE  Inv'
<1>1. /\ flushTimer' = FALSE
      /\ UNCHANGED <<disk, work, heads, hlcState, scopeTail, winner, scheduled, pushed,
                     acked, rejected>>
  BY DEF TakeBatch, memory, promises
<1>2. CASE queue = << >>
  <2>1. UNCHANGED <<queue, saved, batch, flushing, staged, step>>
    BY <1>2 DEF TakeBatch, flushVars
  <2>2. TypeInv' /\ RoomInv' /\ FlowInv'
    BY <1>1, <2>1 DEF Inv, TypeInv, RoomInv, FlowInv
  <2>3. ItemInv' /\ SeqInv' /\ AckedDurable'
    BY <1>1, <2>1 DEF Inv, ItemInv, Distinct, SeqInv, AckedDurable
  <2>4. RowInv' /\ LinkInv' /\ EdgeInv'
    BY <1>1, <2>1 DEF Inv, RowInv, Numbered, Rising, Below, LinkInv, EdgeInv, Linked,
       Observed, Previous, Within
  <2> QED BY <2>2, <2>3, <2>4 DEF Inv
<1>3. CASE queue # << >>
  <2>1. /\ queue' = << >> /\ batch' = queue /\ flushing' = Ids(queue)
        /\ staged' = {} /\ step' = "running"
        /\ saved' = [hlc |-> hlcState, tail |-> scopeTail]
    BY <1>3 DEF TakeBatch
  <2>2. batch = << >> /\ work = disk /\ queue \in Seq(Item) /\ Len(queue) \in Nat
    BY QueueIds DEF Inv, TypeInv, FlowInv
  <2>3. flushing' \subseteq 1..pushed
    BY <2>1, QueueIds
  <2>4. TypeInv'
    BY <1>1, <2>1, <2>2, <2>3 DEF Inv, TypeInv
  <2>5. RoomInv' /\ FlowInv'
    BY <1>1, <2>1, <2>2 DEF Inv, TypeInv, RoomInv, FlowInv, Store
  <2>6. ItemInv'
    <3>1. Distinct(queue)' /\ Distinct(batch)'
      BY <2>1 DEF Inv, ItemInv, Distinct
    <3>2. \A k \in DOMAIN queue : queue[k].id \in Ids(queue)
      BY DEF Ids
    <3>3. \A i \in Ids(queue) : i \notin rejected /\ \A r \in acked : r.id # i
      BY DEF Ids, Inv, ItemInv
    <3> QED BY <1>1, <2>1, <3>1, <3>2, <3>3 DEF Inv, ItemInv
  <2>7. SeqInv' /\ AckedDurable'
    BY <1>1, <2>1 DEF Inv, SeqInv, AckedDurable
  <2>8. RowInv'
    BY <1>1, <2>1, <2>2 DEF Inv, RowInv, Numbered, Rising, Below
  <2>9. LinkInv' /\ EdgeInv'
    BY <1>1, <2>1, <2>2 DEF Inv, LinkInv, EdgeInv, Linked, Observed, Previous, Within
  <2> QED BY <2>4, <2>5, <2>6, <2>7, <2>8, <2>9 DEF Inv
<1> QED BY <1>2, <1>3

LEMMA CloseEndKeeps ==
  ASSUME Inv, closeEnd, UNCHANGED faults
  PROVE  Inv'
<1>1. /\ step = "idle" /\ phase' = "closed" /\ flushTimer' = FALSE /\ queue' = << >>
      /\ scheduled' = FALSE /\ rejected' = rejected \cup Ids(queue)
      /\ UNCHANGED <<disk, work, heads, hlcState, scopeTail, winner, pushed, saved, batch,
                     flushing, staged, acked, step>>
  BY DEF closeEnd, memory, flushVars
<1>2. queue \in Seq(Item) /\ Len(queue) \in Nat /\ pushed \in Nat
  BY QueueIds
<1>3. rejected' \subseteq 1..pushed' /\ queue' \in Seq(Item)
  <2>1. rejected \subseteq 1..pushed
    BY DEF Inv, TypeInv
  <2>2. Ids(queue) \subseteq 1..pushed
    BY QueueIds
  <2>3. << >> \in Seq(Item)
    OBVIOUS
  <2> QED BY <1>1, <2>1, <2>2, <2>3
<1>4. TypeInv'
  BY <1>1, <1>3 DEF Inv, TypeInv
<1>5. RoomInv' /\ FlowInv'
  BY <1>1, <1>2 DEF Inv, TypeInv, RoomInv, FlowInv, Store
<1>6. \A r \in acked : r.id \notin Ids(queue)
  BY DEF Ids, Inv, ItemInv
<1>7. ItemInv' /\ AckedDurable'
  BY <1>1, <1>6 DEF Inv, FlowInv, ItemInv, Distinct, AckedDurable
<1>8. SeqInv' /\ RowInv'
  BY <1>1 DEF Inv, SeqInv, RowInv, Numbered, Rising, Below
<1>9. LinkInv' /\ EdgeInv'
  BY <1>1 DEF Inv, LinkInv, EdgeInv, Linked, Observed, Previous, Within
<1> QED BY <1>4, <1>5, <1>7, <1>8, <1>9 DEF Inv

LEMMA CommitKeeps ==
  ASSUME Inv, commit, UNCHANGED faults
  PROVE  Inv'
<1>1. /\ step = "running" /\ batch = << >> /\ step' = "committed"
      /\ work' = [work EXCEPT !.hlc = hlcState] /\ disk' = work'
      /\ UNCHANGED <<heads, hlcState, scopeTail, winner, scheduled, queue, flushTimer,
                     pushed, saved, batch, flushing, staged, acked, rejected, phase>>
  BY DEF commit, memory, flushVars, promises
<1>2. work \in Store /\ hlcState \in Hlc /\ disk \in Store
  BY DEF Inv, TypeInv
<1>3. /\ work' \in Store /\ work'.rows = work.rows /\ work'.head = work.head
      /\ work'.hlc = hlcState /\ work.head \in Nat /\ disk.head \in Nat
  BY <1>1, <1>2 DEF Store
<1>4. TypeInv'
  BY <1>1, <1>3 DEF Inv, TypeInv
<1>5. RoomInv' /\ FlowInv'
  BY <1>1, <1>3 DEF Inv, RoomInv, FlowInv
<1>6. ItemInv' /\ SeqInv'
  BY <1>1, <1>3 DEF Inv, ItemInv, Distinct, SeqInv
<1>7. RowInv'
  BY <1>1, <1>3 DEF Inv, RowInv, Numbered, Rising, Below
<1>8. AckedDurable'
  <2>1. disk.head <= work.head /\ \A r \in acked : r.seq \in Nat
    BY DEF Inv, RoomInv, TypeInv, Settlement
  <2>2. \A r \in acked : r.seq <= work.head
    BY <1>3, <2>1 DEF Inv, AckedDurable
  <2> QED BY <1>1, <1>3, <2>2 DEF Inv, AckedDurable
<1>9. LinkInv'
  BY <1>1, <1>3 DEF Inv, LinkInv, Linked, Observed, Previous
<1>10. EdgeInv'
  <2>1. disk.head <= work.head /\ winner \in Seqs
    BY DEF Inv, RoomInv, TypeInv
  <2>2. Within(winner, disk.head) => Within(winner, work.head)
    BY <1>3, <2>1 DEF Within, Seqs
  <2> QED BY <1>1, <1>3, <2>2 DEF Inv, EdgeInv, Within
<1> QED BY <1>4, <1>5, <1>6, <1>7, <1>8, <1>9, <1>10 DEF Inv

LEMMA SettleAllKeeps ==
  ASSUME Inv, settleAll, UNCHANGED faults
  PROVE  Inv'
<1>1. /\ step = "committed" /\ step' = "idle"
      /\ acked' = acked \cup {r \in staged : r.ok}
      /\ rejected' = rejected \cup {r.id : r \in {q \in staged : ~q.ok}}
      /\ scheduled' \in BOOLEAN /\ flushing' = {} /\ staged' = {}
      /\ UNCHANGED <<disk, work, heads, hlcState, scopeTail, winner, saved, queue,
                     flushTimer, pushed, batch, phase>>
  BY DEF settleAll, memory
<1>2. work = disk /\ queue = << >> /\ batch = << >> /\ work.head \in Nat
  BY <1>1 DEF Inv, TypeInv, FlowInv, Store
<1>3. \A r \in staged : r.id \in 1..pushed /\ r \in Settlement
  BY DEF Inv, TypeInv, ItemInv
<1>4. TypeInv'
  <2>1. acked' \subseteq Settlement /\ rejected' \subseteq 1..pushed'
    BY <1>1, <1>3 DEF Inv, TypeInv
  <2> QED BY <1>1, <1>2, <2>1 DEF Inv, TypeInv
<1>5. RoomInv' /\ FlowInv'
  BY <1>1, <1>2 DEF Inv, RoomInv, FlowInv
<1>6. ItemInv'
  <2>1. \A r \in acked' : r.id <= pushed
    BY <1>1, <1>3 DEF Inv, TypeInv, ItemInv
  <2> QED BY <1>1, <1>2, <2>1 DEF Inv, ItemInv, Distinct
<1>7. AckedDurable'
  <2>1. \A r \in acked' : r.seq <= disk.head
    BY <1>1, <1>2 DEF Inv, AckedDurable, SeqInv
  <2>2. ASSUME NEW r \in acked', NEW q \in acked',
               r.id = q.id \/ (r.seq = q.seq /\ r.seq # 0)
        PROVE  r = q
    <3>1. CASE r \in acked /\ q \in acked
      BY <2>2, <3>1 DEF Inv, AckedDurable
    <3>2. CASE r \in staged /\ q \in staged
      BY <2>2, <3>2 DEF Inv, ItemInv, SeqInv
    <3>3. CASE r \in staged /\ q \in acked
      BY <2>2, <3>3 DEF Inv, ItemInv, SeqInv
    <3>4. CASE r \in acked /\ q \in staged
      BY <2>2, <3>4 DEF Inv, ItemInv, SeqInv
    <3> QED BY <1>1, <3>1, <3>2, <3>3, <3>4
  <2>3. ASSUME NEW r \in acked' PROVE r.id \notin rejected'
    <3>1. CASE r \in acked
      BY <1>1, <3>1 DEF Inv, AckedDurable, ItemInv
    <3>2. CASE r \in staged /\ r.ok
      BY <1>1, <3>2 DEF Inv, ItemInv
    <3> QED BY <1>1, <3>1, <3>2
  <2> QED BY <1>1, <2>1, <2>2, <2>3 DEF AckedDurable
<1>8. SeqInv' /\ RowInv'
  BY <1>1, <1>2 DEF Inv, SeqInv, RowInv, Numbered, Rising, Below
<1>9. LinkInv' /\ EdgeInv'
  BY <1>1, <1>2 DEF Inv, LinkInv, EdgeInv, Linked, Observed, Previous, Within
<1> QED BY <1>4, <1>5, <1>6, <1>7, <1>8, <1>9 DEF Inv

LEMMA RollbackKeeps ==
  ASSUME Inv, rollback, UNCHANGED faults
  PROVE  Inv'
<1>1. /\ step = "running" /\ step' = "idle" /\ work' = disk
      /\ heads' = {} /\ hlcState' = saved.hlc /\ scopeTail' = saved.tail
      /\ rejected' = rejected \cup flushing
      /\ batch' = << >> /\ flushing' = {} /\ staged' = {}
      /\ UNCHANGED <<disk, winner, scheduled, saved, queue, flushTimer, pushed, acked, phase>>
  BY DEF rollback
<1>2. queue = << >> /\ disk \in Store /\ disk.head \in Nat /\ work.head \in Nat
      /\ Len(batch) \in Nat /\ pushed \in Nat /\ saved.hlc \in Hlc /\ saved.tail \in Seqs
  BY <1>1 DEF Inv, TypeInv, FlowInv, Store
<1>3. batch' \in Seq(Item)
  BY <1>1
<1>4. TypeInv'
  BY <1>1, <1>2, <1>3 DEF Inv, TypeInv
<1>5. RoomInv' /\ FlowInv'
  BY <1>1, <1>2 DEF Inv, RoomInv, FlowInv
<1>6. ItemInv' /\ SeqInv' /\ AckedDurable'
  BY <1>1, <1>2 DEF Inv, ItemInv, Distinct, SeqInv, AckedDurable
<1>7. RowInv'
  BY <1>1 DEF Inv, RowInv, Numbered, Rising, Below
<1>8. LinkInv' /\ EdgeInv'
  BY <1>1 DEF Inv, LinkInv, EdgeInv, Linked, Observed, Previous, Within
<1> QED BY <1>4, <1>5, <1>6, <1>7, <1>8 DEF Inv

LEMMA MaterializeKeeps ==
  ASSUME Inv, materialize, UNCHANGED faults
  PROVE  Inv'
<1>1. /\ step = "idle" /\ scheduled' = FALSE
      /\ winner' = IF disk.head = 0 THEN winner ELSE {disk.head}
      /\ scopeTail' = {t \in scopeTail : t > disk.head}
      /\ UNCHANGED <<disk, work, heads, hlcState, queue, flushTimer, pushed, saved, batch,
                     flushing, staged, acked, rejected, step, phase>>
  BY DEF materialize, flushVars, promises
<1>2. /\ work = disk /\ disk.head \in Nat /\ pushed \in 0..MaxItems /\ scopeTail \in Seqs
      /\ winner \in Seqs /\ Len(batch) \in Nat /\ Len(queue) \in Nat
  BY <1>1 DEF Inv, TypeInv, Store
<1>3. disk.head \in 0..MaxItems
  BY <1>2, CommitAssumption DEF Inv, RoomInv
<1>4. winner' \in Seqs /\ scopeTail' \in Seqs
  <2>1. winner' \in Seqs
    BY <1>1, <1>2, <1>3 DEF Seqs
  <2>2. scopeTail' = {} \/ scopeTail' = scopeTail
    BY <1>1, <1>2 DEF Seqs
  <2> QED BY <1>2, <2>1, <2>2 DEF Seqs
<1>5. TypeInv'
  BY <1>1, <1>4 DEF Inv, TypeInv
<1>6. RoomInv' /\ FlowInv' /\ ItemInv' /\ SeqInv' /\ AckedDurable'
  BY <1>1 DEF Inv, RoomInv, FlowInv, ItemInv, Distinct, SeqInv, AckedDurable
<1>7. RowInv'
  BY <1>1 DEF Inv, RowInv, Numbered, Rising, Below
<1>8. LinkInv'
  <2> SUFFICES ASSUME faults = {}
               PROVE  Observed(scopeTail)' = Previous(disk.head)
    BY <1>1, <1>2 DEF Inv, LinkInv, Linked, Previous
  <2>1. Observed(scopeTail) = Previous(disk.head)
    BY <1>2 DEF Inv, LinkInv
  <2>2. CASE disk.head = 0
    <3>1. scopeTail = {} /\ winner = {}
      BY <2>1, <2>2 DEF Observed, Previous
    <3> QED BY <1>1, <2>2, <3>1 DEF Observed, Previous
  <2>3. CASE disk.head # 0
    <3>1. scopeTail = {} \/ scopeTail = {disk.head}
      BY <2>1, <2>3 DEF Observed, Previous
    <3>2. scopeTail' = {}
      BY <1>1, <1>2, <3>1
    <3> QED BY <1>1, <2>3, <3>2 DEF Observed, Previous
  <2> QED BY <2>2, <2>3
<1>9. EdgeInv'
  BY <1>1, <1>2 DEF Inv, EdgeInv, Within
<1> QED BY <1>5, <1>6, <1>7, <1>8, <1>9 DEF Inv

LEMMA RestartKeeps ==
  ASSUME Inv, Restart, UNCHANGED faults
  PROVE  Inv'
<1>1. /\ "crash" \in faults
      /\ work' = disk /\ hlcState' = disk.hlc
      /\ heads' = {} /\ scopeTail' = {} /\ winner' = {} /\ scheduled' = FALSE
      /\ queue' = << >> /\ flushTimer' = FALSE
      /\ saved' = [hlc |-> Zero, tail |-> {}] /\ batch' = << >>
      /\ flushing' = {} /\ staged' = {} /\ step' = "idle" /\ phase' = "open"
      /\ UNCHANGED <<disk, pushed, acked, rejected>>
  BY DEF Restart, promises
<1>2. /\ disk \in Store /\ disk.head \in Nat /\ work.head \in Nat /\ disk.hlc \in Hlc
      /\ Len(batch) \in Nat /\ Len(queue) \in Nat /\ pushed \in Nat
  BY DEF Inv, TypeInv, Store
<1>3. batch' \in Seq(Item) /\ queue' \in Seq(Item) /\ saved' \in [hlc : Hlc, tail : Seqs]
  BY <1>1 DEF Zero, Hlc, Seqs
<1>4. TypeInv'
  BY <1>1, <1>2, <1>3 DEF Inv, TypeInv, Seqs
<1>5. RoomInv' /\ FlowInv'
  BY <1>1, <1>2 DEF Inv, RoomInv, FlowInv
<1>6. ItemInv' /\ SeqInv' /\ AckedDurable'
  BY <1>1 DEF Inv, ItemInv, Distinct, SeqInv, AckedDurable
<1>7. RowInv'
  BY <1>1 DEF Inv, RowInv, Numbered, Rising, Below
<1>8. LinkInv' /\ EdgeInv'
  BY <1>1 DEF Inv, LinkInv, EdgeInv, Within
<1> QED BY <1>4, <1>5, <1>6, <1>7, <1>8 DEF Inv

\* The cached head, when there is one, is the head of the running transaction.
LEMMA StreamIsHead ==
  ASSUME Inv
  PROVE  getStream = work.head /\ work.head \in Nat
<1>1. heads \in {{}, {work.head}} /\ work.head \in Nat
  BY DEF Inv, TypeInv, Store
<1> QED BY <1>1 DEF getStream

\* Moving the first item of the batch to the settle list keeps every item in one
\* place.
LEMMA PopKeepsItems ==
  ASSUME Inv, step = "running", batch # << >>, batch' = Tail(batch),
         NEW ok \in BOOLEAN, NEW seq \in 0..MaxItems, Settle(Head(batch).id, ok, seq),
         UNCHANGED <<queue, pushed, flushing, acked, rejected>>
  PROVE  /\ batch' \in Seq(Item) /\ Len(batch') = Len(batch) - 1 /\ Len(batch) \in Nat \ {0}
         /\ staged' \subseteq Settlement
         /\ staged' = staged \cup {[id |-> Head(batch).id, ok |-> ok, seq |-> seq]}
         /\ ItemInv'
<1>1. batch \in Seq(Item) /\ Len(batch) \in Nat \ {0} /\ DOMAIN batch = 1..Len(batch)
      /\ Head(batch) = batch[1] /\ batch[1] \in Item
  BY DEF Inv, TypeInv
<1>2. /\ batch' \in Seq(Item) /\ Len(batch') = Len(batch) - 1
      /\ DOMAIN batch' = 1..(Len(batch) - 1)
      /\ \A k \in 1..(Len(batch) - 1) : batch'[k] = batch[k + 1]
  BY <1>1
<1> DEFINE new == [id |-> Head(batch).id, ok |-> ok, seq |-> seq]
<1>3. new \in Settlement /\ new.id = batch[1].id
  BY <1>1 DEF Item, Settlement
<1>4. staged' = staged \cup {new}
  BY DEF Settle
<1>5. staged' \subseteq Settlement
  BY <1>3, <1>4 DEF Inv, TypeInv
<1>6. ItemInv'
  <2>1. Distinct(queue)'
    BY DEF Inv, ItemInv, Distinct
  <2>2. Distinct(batch')
    BY <1>1, <1>2 DEF Inv, ItemInv, Distinct
  <2>3. batch[1].id \in flushing /\ \A r \in staged : r.id # batch[1].id
    BY <1>1 DEF Inv, ItemInv
  <2>4. \A k \in 1..(Len(batch) - 1) : batch[k + 1].id # batch[1].id
    BY <1>1 DEF Inv, ItemInv, Distinct
  <2>5. \A k \in DOMAIN batch' :
          batch'[k].id \in flushing /\ \A r \in staged' : r.id # batch'[k].id
    BY <1>1, <1>2, <1>3, <1>4, <2>4 DEF Inv, ItemInv
  <2>6. \A r \in staged' : r.id \in flushing
    BY <1>3, <1>4, <2>3 DEF Inv, ItemInv
  <2>7. \A r, q \in staged' : r.id = q.id => r = q
    BY <1>3, <1>4, <2>3 DEF Inv, ItemInv
  <2> QED BY <2>1, <2>2, <2>5, <2>6, <2>7 DEF Inv, ItemInv, Distinct
<1> QED BY <1>1, <1>2, <1>4, <1>5, <1>6

LEMMA ProcessAppendKeeps ==
  ASSUME Inv, NEW pt \in 0..MaxTime, NEW valid \in {TRUE, "invalid" \notin faults},
         processAppend(pt, valid), UNCHANGED faults
  PROVE  Inv'
<1> DEFINE id == Head(batch).id
           seq == work.head + 1
           h == stamp(hlcState, pt)
           row == [seq |-> seq, hlc |-> h, causal |-> lastObserved]
<1>1. /\ step = "running" /\ batch # << >> /\ batch' = Tail(batch)
      /\ \/ /\ Settle(id, FALSE, 0) /\ heads' = {work.head}
            /\ UNCHANGED <<work, hlcState, scopeTail>>
         \/ /\ ~valid
            /\ Settle(id, FALSE, 0) /\ heads' = {work.head}
            /\ hlcState' = h /\ scopeTail' = {seq}
            /\ UNCHANGED work
         \/ /\ Settle(id, TRUE, seq) /\ heads' = {seq}
            /\ hlcState' = h /\ scopeTail' = {seq}
            /\ work' = [work EXCEPT !.rows = Append(@, row), !.head = seq]
      /\ UNCHANGED <<disk, winner, scheduled, saved, queue, flushTimer, pushed,
                     flushing, acked, rejected, step, phase>>
  BY StreamIsHead DEF processAppend, promises
<1>2. /\ work \in Store /\ disk \in Store /\ work.head \in Nat /\ disk.head \in Nat
      /\ hlcState \in Hlc /\ pt \in Nat /\ queue = << >> /\ pushed \in 0..MaxItems
      /\ disk.head <= work.head /\ scopeTail \in Seqs /\ winner \in Seqs
      /\ batch \in Seq(Item) /\ Len(batch) \in Nat /\ Len(queue) = 0
  BY <1>1, CommitAssumption DEF Inv, TypeInv, FlowInv, RoomInv, Store
<1>3. h \in Hlc /\ hlcCompare(hlcState, h)
  BY <1>2, StampAbove
<1>4. Len(batch) # 0
  BY <1>1, <1>2
<1>5. seq \in 1..MaxItems /\ seq <= pushed /\ work.head + Len(batch) <= pushed
  BY <1>2, <1>4, CommitAssumption DEF Inv, RoomInv
<1>6. /\ batch' \in Seq(Item) /\ Len(batch') = Len(batch) - 1
      /\ staged' \subseteq Settlement /\ ItemInv'
  <2>1. 0 \in 0..MaxItems /\ seq \in 0..MaxItems
    BY <1>5, CommitAssumption
  <2> QED BY <1>1, <2>1, PopKeepsItems
<1>7. \A r \in staged : r.seq \in Nat /\ r.seq <= work.head
  BY DEF Inv, TypeInv, SeqInv, Settlement
<1>8. \A r \in acked : r.seq \in Nat /\ r.seq <= work.head
  BY <1>2 DEF Inv, TypeInv, AckedDurable, Settlement
<1>9. FlowInv' /\ AckedDurable'
  BY <1>1, <1>2 DEF Inv, FlowInv, AckedDurable
<1>10. {seq} \in Seqs
  BY <1>5 DEF Seqs
<1> HIDE DEF h
<1>11. CASE /\ Settle(id, FALSE, 0) /\ heads' = {work.head} /\ UNCHANGED work
            /\ \/ UNCHANGED <<hlcState, scopeTail>>
               \/ ~valid /\ hlcState' = h /\ scopeTail' = {seq}
  <2>1. staged' = staged \cup {[id |-> id, ok |-> FALSE, seq |-> 0]}
    BY <1>11 DEF Settle
  <2>2. TypeInv'
    BY <1>1, <1>3, <1>6, <1>10, <1>11 DEF Inv, TypeInv
  <2>3. RoomInv'
    BY <1>1, <1>2, <1>6, <1>11 DEF Inv, RoomInv
  <2>4. SeqInv'
    BY <1>1, <1>2, <1>11, <2>1 DEF Inv, SeqInv
  <2>5. RowInv'
    <3>1. Below(work.rows, hlcState')
      BY <1>2, <1>3, <1>11, BelowLater DEF Inv, RowInv
    <3> QED BY <1>1, <1>11, <3>1 DEF Inv, RowInv, Numbered, Rising, Below
  <2>6. LinkInv' /\ EdgeInv'
    <3>1. "invalid" \notin faults => UNCHANGED <<hlcState, scopeTail>>
      BY <1>11
    <3>2. CASE "invalid" \in faults
      BY <1>1, <3>2 DEF LinkInv, EdgeInv
    <3>3. CASE "invalid" \notin faults
      BY <1>1, <1>11, <3>1, <3>3 DEF Inv, LinkInv, EdgeInv, Linked, Observed, Previous, Within
    <3> QED BY <3>2, <3>3
  <2> QED BY <1>6, <1>9, <2>2, <2>3, <2>4, <2>5, <2>6 DEF Inv
<1>12. CASE /\ Settle(id, TRUE, seq) /\ heads' = {seq}
            /\ hlcState' = h /\ scopeTail' = {seq}
            /\ work' = [work EXCEPT !.rows = Append(@, row), !.head = seq]
  <2>1. lastObserved = Observed(scopeTail) /\ lastObserved \in Seqs
    BY <1>2 DEF lastObserved, Observed
  <2>2. row \in Row /\ row.seq = seq /\ row.hlc = h /\ row.causal = lastObserved
    BY <1>2, <1>3, <2>1 DEF Row, Seqs
  <2> HIDE DEF row
  <2>3. /\ work' \in Store /\ Numbered(work') /\ Rising(work'.rows) /\ Below(work'.rows, h)
        /\ work'.head = seq /\ work'.rows = Append(work.rows, row)
    <3>1. Numbered(work) /\ Rising(work.rows) /\ Below(work.rows, hlcState)
      BY DEF Inv, RowInv
    <3>2. work' = [rows |-> Append(work.rows, row), head |-> work.head + 1, hlc |-> work.hlc]
      BY <1>2, <1>12 DEF Store
    <3>3. work.rows \in Seq(Row) /\ work.head \in Nat /\ work.hlc \in Hlc
      BY <1>2 DEF Store
    <3>4. Append(work.rows, row) \in Seq(Row)
      BY <2>2, <3>3
    <3>5. work' \in Store /\ work'.head = work.head + 1 /\ work'.rows = Append(work.rows, row)
      BY <3>2, <3>3, <3>4 DEF Store
    <3>6. Numbered(work') /\ Rising(work'.rows) /\ Below(work'.rows, h)
      BY <1>2, <1>3, <2>2, <3>1, <3>5, AppendKeepsRows
    <3> QED BY <3>5, <3>6
  <2>4. TypeInv'
    BY <1>1, <1>3, <1>6, <1>10, <1>12, <2>3 DEF Inv, TypeInv
  <2>5. RoomInv'
    BY <1>1, <1>2, <1>5, <1>6, <2>3 DEF Inv, RoomInv
  <2>6. SeqInv'
    <3>1. staged' = staged \cup {[id |-> id, ok |-> TRUE, seq |-> seq]}
      BY <1>12 DEF Settle
    <3> DEFINE new == [id |-> id, ok |-> TRUE, seq |-> seq]
    <3>2. new.seq = seq /\ seq \in Nat /\ work.head < seq
      BY <1>2
    <3> HIDE DEF new, seq, id
    <3>3. \A r \in staged' : r.seq <= work'.head
      BY <1>2, <1>7, <2>3, <3>1, <3>2 DEF new
    <3>4. \A r \in staged : r.seq # new.seq
      BY <1>2, <1>7, <3>2
    <3>5. \A r \in acked : r.seq # new.seq
      BY <1>2, <1>8, <3>2
    <3>6. \A r, q \in staged' : r.seq = q.seq /\ r.seq # 0 => r = q
      BY <3>1, <3>4 DEF new, Inv, SeqInv
    <3>7. \A r \in staged', q \in acked : r.seq = q.seq => r.seq = 0
      BY <3>1, <3>5 DEF new, Inv, SeqInv
    <3> QED BY <1>1, <3>3, <3>6, <3>7 DEF SeqInv
  <2>7. RowInv'
    BY <1>1, <1>12, <2>3 DEF Inv, RowInv, Numbered, Rising, Below
  <2>8. /\ work.rows \in Seq(Row) /\ Len(work.rows) \in Nat /\ work.head = Len(work.rows)
        /\ Len(work'.rows) = seq /\ work'.rows[seq] = row
        /\ \A k \in 1..work.head : work'.rows[k] = work.rows[k]
    BY <1>2, <2>3 DEF Inv, RowInv, Numbered, Store
  <2>9. LinkInv'
    <3> SUFFICES ASSUME faults = {}
                 PROVE  Linked(work'.rows) /\ Observed(scopeTail)' = Previous(work'.head)
      BY <1>1 DEF Inv, LinkInv, Linked, Observed, Previous
    <3>1. row.causal = Previous(seq - 1)
      BY <1>2, <2>1, <2>2 DEF Inv, LinkInv
    <3>2. Linked(work'.rows)
      <4> SUFFICES ASSUME NEW k \in 1..seq PROVE work'.rows[k].causal = Previous(k - 1)
        BY <2>8 DEF Linked
      <4>1. CASE k = seq
        BY <2>8, <3>1, <4>1
      <4>2. CASE k # seq
        <5>1. k \in 1..work.head
          BY <1>2, <4>2
        <5> QED BY <2>8, <5>1 DEF Inv, LinkInv, Linked
      <4> QED BY <4>1, <4>2
    <3> QED BY <1>2, <1>12, <2>3, <3>2 DEF Observed, Previous
  <2>10. EdgeInv'
    <3> SUFFICES ASSUME "invalid" \notin faults
                 PROVE  /\ \A k \in 1..Len(work'.rows) : Within(work'.rows[k].causal, k - 1)
                        /\ Within(scopeTail', work'.head)
      BY <1>1 DEF Inv, EdgeInv, Within
    <3>1. Within(row.causal, seq - 1)
      BY <1>2, <2>1, <2>2 DEF Inv, EdgeInv, Within, Observed, Seqs
    <3>2. \A k \in 1..Len(work'.rows) : Within(work'.rows[k].causal, k - 1)
      <4> SUFFICES ASSUME NEW k \in 1..seq PROVE Within(work'.rows[k].causal, k - 1)
        BY <2>8
      <4>1. CASE k = seq
        BY <2>8, <3>1, <4>1
      <4>2. CASE k # seq
        <5>1. k \in 1..work.head
          BY <1>2, <4>2
        <5> QED BY <2>8, <5>1 DEF Inv, EdgeInv
      <4> QED BY <4>1, <4>2
    <3> QED BY <1>2, <1>12, <2>3, <3>2 DEF Within
  <2> QED BY <1>6, <1>9, <2>4, <2>5, <2>6, <2>7, <2>9, <2>10 DEF Inv
<1> QED BY <1>1, <1>11, <1>12

LEMMA ProcessExternalKeeps ==
  ASSUME Inv, NEW pt \in 0..MaxTime, NEW remote \in Remote,
         processExternal(remote, pt), UNCHANGED faults
  PROVE  Inv'
<1>1. /\ step = "running" /\ batch # << >> /\ batch' = Tail(batch)
      /\ Settle(Head(batch).id, TRUE, 0)
      /\ hlcState' = hlcState \/ hlcState' = merge(hlcState, remote, pt)
      /\ UNCHANGED <<disk, work, heads, scopeTail, winner, scheduled, saved, queue,
                     flushTimer, pushed, flushing, acked, rejected, step, phase>>
  BY DEF processExternal, promises
<1>2. /\ work \in Store /\ work.head \in Nat /\ hlcState \in Hlc /\ pt \in Nat
      /\ remote \in Hlc /\ queue = << >> /\ 0 \in 0..MaxItems /\ pushed \in Nat
  BY <1>1, CommitAssumption DEF Inv, TypeInv, FlowInv, Store, Hlc
<1>3. hlcState' \in Hlc /\ (hlcState' = hlcState \/ hlcCompare(hlcState, hlcState'))
  BY <1>1, <1>2, MergeAbove
<1>4. /\ batch' \in Seq(Item) /\ Len(batch') = Len(batch) - 1 /\ Len(batch) \in Nat
      /\ staged' \subseteq Settlement /\ ItemInv'
      /\ staged' = staged \cup {[id |-> Head(batch).id, ok |-> TRUE, seq |-> 0]}
  BY <1>1, <1>2, PopKeepsItems
<1>5. TypeInv'
  BY <1>1, <1>3, <1>4 DEF Inv, TypeInv
<1>6. RoomInv' /\ FlowInv'
  BY <1>1, <1>2, <1>4 DEF Inv, RoomInv, FlowInv
<1>7. SeqInv' /\ AckedDurable'
  BY <1>1, <1>2, <1>4 DEF Inv, SeqInv, AckedDurable
<1>8. RowInv'
  <2>1. Below(work.rows, hlcState')
    BY <1>2, <1>3, BelowLater DEF Inv, RowInv
  <2> QED BY <1>1, <2>1 DEF Inv, RowInv, Numbered, Rising, Below
<1>9. LinkInv' /\ EdgeInv'
  BY <1>1 DEF Inv, LinkInv, EdgeInv, Linked, Observed, Previous, Within
<1> QED BY <1>4, <1>5, <1>6, <1>7, <1>8, <1>9 DEF Inv

--------------------------------------------------------------------------------
(* The theorems *)

LEMMA InitInv == Init => Inv
<1> SUFFICES ASSUME Init PROVE Inv
  OBVIOUS
<1>1. << >> \in Seq(Row) /\ << >> \in Seq(Item) /\ Zero \in Hlc
  BY DEF Zero, Hlc
<1>2. disk \in Store
  BY <1>1 DEF Init, Store
<1>3. TypeInv
  <2>1. saved \in [hlc : Hlc, tail : Seqs] /\ scopeTail \in Seqs /\ winner \in Seqs
    BY <1>1 DEF Init, Seqs
  <2>2. pushed \in 0..MaxItems /\ queue \in Seq(Item) /\ batch \in Seq(Item)
    BY <1>1, CommitAssumption DEF Init
  <2> QED BY <1>1, <1>2, <2>1, <2>2 DEF Init, TypeInv
<1>4. RoomInv /\ FlowInv /\ ItemInv /\ SeqInv /\ AckedDurable
  BY DEF Init, RoomInv, FlowInv, ItemInv, Distinct, SeqInv, AckedDurable
<1>5. RowInv /\ LinkInv /\ EdgeInv
  BY DEF Init, RowInv, Numbered, Rising, Below, LinkInv, EdgeInv, Linked, Observed,
     Previous, Within
<1> QED BY <1>3, <1>4, <1>5 DEF Inv

LEMMA NextInv == Inv /\ [Next]_vars => Inv'
<1> SUFFICES ASSUME Inv, [Next]_vars PROVE Inv'
  OBVIOUS
<1>1. ASSUME NEW kind \in {"append", "external"}, push(kind), UNCHANGED faults PROVE Inv'
  BY <1>1, PushKeeps
<1>2. CASE flush /\ UNCHANGED faults
  BY <1>2, TakeBatchKeeps DEF flush, Inv, TypeInv
<1>3. CASE close /\ UNCHANGED faults
  BY <1>3, TakeBatchKeeps DEF close
<1>4. CASE closeEnd /\ UNCHANGED faults
  BY <1>4, CloseEndKeeps
<1>5. CASE Process /\ UNCHANGED faults
  BY <1>5, ProcessAppendKeeps, ProcessExternalKeeps DEF Process
<1>6. CASE commit /\ UNCHANGED faults
  BY <1>6, CommitKeeps
<1>7. CASE settleAll /\ UNCHANGED faults
  BY <1>7, SettleAllKeeps
<1>8. CASE rollback /\ UNCHANGED faults
  BY <1>8, RollbackKeeps
<1>9. CASE materialize /\ UNCHANGED faults
  BY <1>9, MaterializeKeeps
<1>10. CASE Restart /\ UNCHANGED faults
  BY <1>10, RestartKeeps
<1>11. CASE UNCHANGED vars
  <2>1. UNCHANGED <<disk, work, heads, hlcState, scopeTail, winner, scheduled, saved,
                    queue, flushTimer, pushed, batch, flushing, staged, acked, rejected,
                    step, phase, faults>>
    BY <1>11 DEF vars, memory, promises, flushVars
  <2>2. TypeInv' /\ RoomInv' /\ FlowInv'
    BY <2>1 DEF Inv, TypeInv, RoomInv, FlowInv
  <2>3. ItemInv' /\ SeqInv' /\ AckedDurable'
    BY <2>1 DEF Inv, ItemInv, Distinct, SeqInv, AckedDurable
  <2>4. RowInv' /\ LinkInv' /\ EdgeInv'
    BY <2>1 DEF Inv, RowInv, Numbered, Rising, Below, LinkInv, EdgeInv, Linked,
       Observed, Previous, Within
  <2> QED BY <2>2, <2>3, <2>4 DEF Inv
<1> QED BY <1>1, <1>2, <1>3, <1>4, <1>5, <1>6, <1>7, <1>8, <1>9, <1>10, <1>11 DEF Next

\* The inductive invariant of group commit.
THEOREM CommitInvariant == Spec => []Inv
BY InitInv, NextInv, PTL DEF Spec

\* The stream that flush commits is numbered 1..head without a gap or a repeat
\* and its timestamps grow strictly with seq, whatever the wall clock does and
\* through storage failures and restarts (log.ts flush, hlc.ts stamp and merge).
THEOREM StreamIsSound == Spec => []StreamSound
<1>1. Inv => StreamSound
  <2> SUFFICES ASSUME Inv PROVE StreamSound
    OBVIOUS
  <2>1. TypeOK
    BY DEF Inv, TypeInv, TypeOK, Store
  <2>2. disk.rows \in Seq(Row) /\ DOMAIN disk.rows = 1..Len(disk.rows)
    BY DEF Inv, TypeInv, Store
  <2> QED BY <2>1, <2>2 DEF StreamSound, Inv, RowInv, Numbered, Rising
<1> QED BY <1>1, CommitInvariant, PTL

\* An append whose promise resolved is durable under a seq of its own, and no
\* promise both resolves and rejects, through rollbacks, close and restarts.
THEOREM AckedIsDurable == Spec => []AckedDurable
<1>1. Inv => AckedDurable
  BY DEF Inv
<1> QED BY <1>1, CommitInvariant, PTL

\* Without a crash or an invalid entry the causal edge of a write is the
\* author's previous write to the key, through rollbacks, closes and
\* materialize passes at any time.
THEOREM CausalEdgeIsLast == Spec => []CausalIsLast
<1>1. Inv => CausalIsLast
  <2> SUFFICES ASSUME Inv, faults = {}, NEW k \in DOMAIN disk.rows
               PROVE  disk.rows[k].causal = IF k = 1 THEN {} ELSE {k - 1}
    BY DEF CausalIsLast
  <2>1. disk.rows \in Seq(Row) /\ k \in 1..Len(disk.rows) /\ Len(disk.rows) \in Nat
    BY DEF Inv, TypeInv, Store
  <2>2. disk.rows[k].causal = Previous(k - 1)
    BY <2>1 DEF Inv, LinkInv, Linked
  <2>3. k - 1 = 0 <=> k = 1
    BY <2>1
  <2> QED BY <2>2, <2>3 DEF Previous
<1> QED BY <1>1, CommitInvariant, PTL

\* Without an invalid entry no causal edge names its own entry or a later one,
\* with crashes and storage failures; CausalInvalid.cfg shows that an invalid
\* entry breaks it.
THEOREM CausalEdgeIsEarlier == Spec => []("invalid" \notin faults => CausalEarlier)
<1>1. Inv => ("invalid" \notin faults => CausalEarlier)
  <2> SUFFICES ASSUME Inv, "invalid" \notin faults, NEW k \in DOMAIN disk.rows,
                      NEW t \in disk.rows[k].causal
               PROVE  t < k
    BY DEF CausalEarlier
  <2>1. disk.rows \in Seq(Row) /\ k \in 1..Len(disk.rows) /\ Len(disk.rows) \in Nat
    BY DEF Inv, TypeInv, Store
  <2>2. disk.rows[k] \in Row
    BY <2>1
  <2>3. t \in Nat
    BY <2>2 DEF Row
  <2>4. t <= k - 1
    BY <2>1 DEF Inv, EdgeInv, Within
  <2> QED BY <2>1, <2>3, <2>4
<1> QED BY <1>1, CommitInvariant, PTL
================================================================================
