----------------------------- MODULE ConsumerProofs -----------------------------
(***************************************************************************)
(* A durable consumer (Consumer) is proved for every number of rows, batch *)
(* size and number of registrations: its cursor never passes a row whose   *)
(* callback has not completed, caughtUp does not lie, and the archiver     *)
(* waits for it.                                                           *)
(*                                                                         *)
(* A drain suspended in a callback works on a batch it read earlier, while *)
(* rows are appended, deleted and archived and the cursor row may be       *)
(* dropped.  The invariant is about that batch: a held row at or below one *)
(* of its rows is itself in the batch or has completed.  It holds because  *)
(* rowids only grow, and because a registration that is not gone is the    *)
(* one the hub's map holds, so nobody else moves or resets the cursor      *)
(* under it.  The second reason fails when a host calls an unsubscribe     *)
(* function again, so the theorems exclude it (ConsumerUnsub.cfg shows     *)
(* what happens then).                                                     *)
(***************************************************************************)
EXTENDS Consumer, FiniteSetTheorems, WellFoundedInduction, TLAPS

Once == "unsub_twice" \notin hazards

\* What a drain has read was given out; what is not registered yet waits for nothing.
BatchInv ==
  \A i \in Ids : regs[i].batch \subseteq 1..top /\ (i > used => regs[i].waiters = {})

\* A registration that is not gone is the one the hub's map holds.
LiveInv == \A i \in Ids : regs[i].pc # "none" /\ ~regs[i].gone => i = reg

\* Nothing held below a row of the batch is forgotten.
Reads(batch, held, done) ==
  \A b \in batch : \A r \in held : r <= b => r \in batch \/ r \in done

DrainInv == \A i \in Ids : ~regs[i].gone => Reads(regs[i].batch, log, completed)

CursorInv == \A r \in log : r <= cursorGet(cursor) => r \in completed

\* Without ageing, a registered consumer has a fresh cursor row.
FreshInv == "age" \notin hazards => ~stale /\ (reg # 0 => cursor # {})

Inv == /\ TypeOK /\ BatchInv /\ FreshInv
       /\ Once => LiveInv /\ DrainInv /\ CursorInv
--------------------------------------------------------------------------------
(* Least and greatest rowids *)

\* A set of natural numbers has a least element.
LEMMA Least ==
  ASSUME NEW S \in SUBSET Nat, S # {}
  PROVE  \E x \in S : \A y \in S : x <= y
<1> DEFINE R == OpToRel(<, Nat)
<1>1. IsWellFoundedOn(R, Nat)
  BY NatLessThanWellFounded
<1>2. R = {ss \in Nat \X Nat : ss[1] < ss[2]}
  BY DEF OpToRel
<1> HIDE DEF R
<1>3. PICK x \in S : \A y \in S : ~(<<y, x>> \in R)
  BY <1>1, WFMin
<1>4. ASSUME NEW y \in S PROVE x <= y
  <2>1. ~(<<y, x>> \in R)
    BY <1>3
  <2>2. <<y, x>> \in Nat \X Nat /\ <<y, x>>[1] = y /\ <<y, x>>[2] = x
    OBVIOUS
  <2> QED BY <1>2, <2>1, <2>2
<1> QED BY <1>4

\* A bounded, nonempty set of natural numbers has a greatest element.
LEMMA Greatest ==
  ASSUME NEW n \in Nat, NEW S \in SUBSET (0..n), S # {}
  PROVE  \E x \in S : \A y \in S : y <= x
<1> DEFINE T == {n - x : x \in S}
<1>1. T \in SUBSET Nat /\ T # {}
  <2>1. \A x \in S : n - x \in Nat /\ n - x \in T
    OBVIOUS
  <2> QED BY <2>1
<1>2. PICK t \in T : \A u \in T : t <= u
  BY <1>1, Least
<1>3. PICK x \in S : t = n - x
  OBVIOUS
<1>4. ASSUME NEW y \in S PROVE y <= x
  <2>1. n - y \in T
    OBVIOUS
  <2>2. n - x <= n - y
    BY <1>2, <1>3, <2>1
  <2> QED BY <2>2
<1> QED BY <1>4

\* maxRowid is a rowid given out, at or above every row held.
LEMMA MaxRowid ==
  ASSUME TypeOK
  PROVE  maxRowid \in 0..top /\ (\A r \in log : r <= maxRowid)
         /\ (log # {} => maxRowid \in log)
<1>1. top \in Nat /\ log \subseteq 0..top
  BY DEF TypeOK
<1>2. CASE log = {}
  BY <1>1, <1>2 DEF maxRowid
<1>3. CASE log # {}
  <2>1. \E n \in log : \A r \in log : r <= n
    BY <1>1, <1>3, Greatest
  <2>2. maxRowid \in log /\ \A r \in log : r <= maxRowid
    BY <1>3, <2>1 DEF maxRowid
  <2> QED BY <1>1, <2>2
<1> QED BY <1>2, <1>3

\* A cursor row holds a rowid given out.
LEMMA CursorGet ==
  ASSUME NEW n \in Nat, NEW cur \in {{}} \cup {{m} : m \in 0..n}
  PROVE  cursorGet(cur) \in 0..n
BY DEF cursorGet

\* A drain reads held rows after its position, and leaves out none that is below
\* one it reads.
LEMMA ReadsFirst ==
  ASSUME NEW n \in Nat, NEW held \in SUBSET (1..n), NEW at \in Nat
  PROVE  LET rows == entriesForTopicFromRowid(held, at)
         IN /\ rows \subseteq held
            /\ \A b \in rows : \A r \in held : r > at /\ r <= b => r \in rows
<1> DEFINE rest == {r \in held : r > at}
           upto(r) == {q \in rest : q <= r}
<1>1. entriesForTopicFromRowid(held, at) = {r \in rest : Cardinality(upto(r)) <= BATCH}
  BY DEF entriesForTopicFromRowid
<1>2. IsFiniteSet(rest)
  <2>1. IsFiniteSet(1..n)
    BY FS_Interval
  <2> QED BY <2>1, FS_Subset
<1>3. ASSUME NEW b \in rest, NEW r \in rest, r <= b, Cardinality(upto(b)) <= BATCH
      PROVE  Cardinality(upto(r)) <= BATCH
  <2>1. upto(b) \subseteq rest /\ upto(r) \subseteq upto(b)
    <3>1. \A q \in rest : q \in Nat
      OBVIOUS
    <3>2. \A q \in rest : q <= r => q <= b
      BY <1>3, <3>1
    <3> QED BY <3>2
  <2> HIDE DEF upto, rest
  <2>2. IsFiniteSet(upto(b))
    BY <1>2, <2>1, FS_Subset
  <2>3. IsFiniteSet(upto(r)) /\ Cardinality(upto(r)) <= Cardinality(upto(b))
    BY <2>1, <2>2, FS_Subset
  <2>4. Cardinality(upto(r)) \in Nat /\ Cardinality(upto(b)) \in Nat
    BY <2>2, <2>3, FS_CardinalityType
  <2> QED BY <1>3, <2>3, <2>4, ConsumerAssumption
<1> HIDE DEF upto
<1> QED BY <1>1, <1>3

--------------------------------------------------------------------------------
(* What the steps of a drain do to a registration *)

\* What a drain that starts or goes on leaves in its registration.
LEMMA DrainType ==
  ASSUME NEW n \in 0..MaxRow, NEW held \in SUBSET (1..n), NEW at \in Nat,
         NEW c \in Registration
  PROVE  LET d == drainInner(c, at, held)
         IN /\ d \in Registration /\ d.batch \subseteq 1..n
            /\ (d.pc = "calling") = (d.batch # {}) /\ d.pc # "none"
            /\ d.gone = c.gone /\ d.waiters = c.waiters
            /\ d.batch = entriesForTopicFromRowid(held, at)
<1> DEFINE rows == entriesForTopicFromRowid(held, at)
<1>1. n \in Nat /\ n <= MaxRow
  BY ConsumerAssumption
<1>2. rows \subseteq held
  BY <1>1, ReadsFirst
<1> HIDE DEF rows
<1>3. rows \in SUBSET Rows
  BY <1>1, <1>2, ConsumerAssumption DEF Rows
<1>4. CASE rows = {}
  <2>1. drainInner(c, at, held) = Return(c)
    BY <1>4 DEF drainInner, rows
  <2>2. /\ Return(c) \in Registration /\ Return(c).batch = {} /\ Return(c).gone = c.gone
        /\ Return(c).waiters = c.waiters /\ Return(c).pc \in {"advance", "finish"}
    BY DEF Return, Registration
  <2> QED BY <1>4, <2>1, <2>2 DEF rows
<1>5. CASE rows # {}
  <2> DEFINE d == [c EXCEPT !.pc = "calling", !.batch = rows]
  <2>1. drainInner(c, at, held) = d
    BY <1>5 DEF drainInner, rows
  <2>2. d \in Registration /\ d.batch = rows /\ d.pc = "calling" /\ d.gone = c.gone
        /\ d.waiters = c.waiters
    BY <1>3 DEF Registration
  <2> HIDE DEF d
  <2> QED BY <1>2, <1>5, <2>1, <2>2 DEF rows
<1> QED BY <1>4, <1>5

\* A drain at a position through which every held row has completed reads a batch
\* that forgets none.
LEMMA DrainReads ==
  ASSUME NEW n \in 0..MaxRow, NEW held \in SUBSET (1..n), NEW at \in Nat,
         NEW c \in Registration, NEW done, \A r \in held : r <= at => r \in done
  PROVE  Reads(drainInner(c, at, held).batch, held, done)
<1> DEFINE rows == entriesForTopicFromRowid(held, at)
<1>1. n \in Nat
  BY ConsumerAssumption
<1>2. \A b \in rows : \A r \in held : r > at /\ r <= b => r \in rows
  BY <1>1, ReadsFirst
<1>3. drainInner(c, at, held).batch = rows
  BY DrainType
<1>4. held \subseteq Nat
  BY <1>1
<1> HIDE DEF rows
<1> QED BY <1>2, <1>3, <1>4 DEF Reads

\* What pump leaves in a registration.
LEMMA PumpType ==
  ASSUME NEW n \in 0..MaxRow, NEW held \in SUBSET (1..n), NEW at \in Nat,
         NEW c \in Registration, c.batch \subseteq 1..n,
         (c.pc = "calling") = (c.batch # {})
  PROVE  LET d == pump(c, at, held)
         IN /\ d \in Registration /\ d.batch \subseteq 1..n
            /\ (d.pc = "calling") = (d.batch # {})
            /\ d.gone = c.gone /\ d.waiters = c.waiters
            /\ d.pc = "none" <=> c.pc = "none"
<1>1. CASE c.pc # "idle" \/ c.gone
  <2> DEFINE d == [c EXCEPT !.rerun = c.pc # "idle"]
  <2>1. pump(c, at, held) = d
    BY <1>1 DEF pump
  <2>2. d \in Registration /\ d.batch = c.batch /\ d.pc = c.pc /\ d.gone = c.gone
        /\ d.waiters = c.waiters
    BY DEF Registration
  <2> HIDE DEF d
  <2> QED BY <2>1, <2>2
<1>2. CASE ~(c.pc # "idle" \/ c.gone)
  <2> DEFINE e == [c EXCEPT !.advanced = FALSE]
             d == drainInner(e, at, held)
  <2>1. pump(c, at, held) = d
    BY <1>2 DEF pump
  <2>2. e \in Registration /\ e.gone = c.gone /\ e.waiters = c.waiters
    BY DEF Registration
  <2> HIDE DEF e
  <2>3. /\ d \in Registration /\ d.batch \subseteq 1..n
        /\ (d.pc = "calling") = (d.batch # {}) /\ d.pc # "none"
        /\ d.gone = e.gone /\ d.waiters = e.waiters
    BY <2>2, DrainType
  <2> HIDE DEF d
  <2> QED BY <1>2, <2>1, <2>2, <2>3
<1> QED BY <1>1, <1>2

\* pump starts a drain that forgets nothing, or leaves the running one's batch.
LEMMA PumpReads ==
  ASSUME NEW n \in 0..MaxRow, NEW held \in SUBSET (1..n), NEW at \in Nat,
         NEW c \in Registration, NEW done, \A r \in held : r <= at => r \in done,
         Reads(c.batch, held, done)
  PROVE  Reads(pump(c, at, held).batch, held, done)
<1>1. CASE c.pc # "idle" \/ c.gone
  <2> DEFINE d == [c EXCEPT !.rerun = c.pc # "idle"]
  <2>1. pump(c, at, held) = d
    BY <1>1 DEF pump
  <2>2. d.batch = c.batch
    BY DEF Registration
  <2> HIDE DEF d
  <2> QED BY <2>1, <2>2
<1>2. CASE ~(c.pc # "idle" \/ c.gone)
  <2> DEFINE e == [c EXCEPT !.advanced = FALSE]
  <2>1. pump(c, at, held) = drainInner(e, at, held)
    BY <1>2 DEF pump
  <2>2. e \in Registration
    BY DEF Registration
  <2> HIDE DEF e
  <2> QED BY <2>1, <2>2, DrainReads
<1> QED BY <1>1, <1>2

--------------------------------------------------------------------------------
(* Steps that read nothing *)

\* What archiveNow moves: held rows that the cursor row it leaves has passed.
LEMMA ArchiveMoves ==
  ASSUME TypeOK, NEW cur \in {cursor, {}}, archiveNow(cur)
  PROVE  /\ log' \subseteq log /\ archived' \subseteq 1..top /\ log' \cap archived' = {}
         /\ cursor' \in {cur, {}} /\ (~stale => cursor' = cur)
         /\ stale' \in BOOLEAN /\ (~stale => ~stale')
         /\ \A r \in archived' \ archived : r \in log /\ \A n \in cursor' : r <= n
<1>1. log \subseteq 1..top /\ archived \subseteq 1..top /\ log \cap archived = {}
      /\ stale \in BOOLEAN
  BY DEF TypeOK
<1>2. CASE cut = {}
  BY <1>1, <1>2 DEF archiveNow
<1>3. CASE cut # {}
  <2> DEFINE gate == IF stale THEN {} ELSE cur
             moved == {r \in log \cap cut : \A n \in gate : r <= n}
  <2>1. /\ cursor' = gate /\ stale' = FALSE
        /\ log' = log \ moved /\ archived' = archived \cup moved
    BY <1>3 DEF archiveNow
  <2>2. gate \in {cur, {}} /\ (~stale => gate = cur)
    OBVIOUS
  <2>3. moved \subseteq log /\ \A r \in moved : \A n \in gate : r <= n
    OBVIOUS
  <2> HIDE DEF gate, moved
  <2> QED BY <1>1, <2>1, <2>2, <2>3
<1> QED BY <1>2, <1>3

\* A step that starts no read keeps the invariant: it may remove rows, drop or
\* rewrite the cursor row, end drains and forget registrations.
LEMMA PassiveKeeps ==
  ASSUME Inv, UNCHANGED <<top, hazards, completed>>, used' = used, reg' \in 0..used,
         log' \subseteq log, archived' \subseteq 1..top, log' \cap archived' = {},
         cursor' \in {cursor, {}, {cursorGet(cursor)}}, stale' \in BOOLEAN,
         cut' \subseteq Rows, rebasing' \in BOOLEAN, open' \in BOOLEAN,
         regs' \in [Ids -> Registration],
         FreshInv', Once => LiveInv',
         \A j \in Ids :
           /\ regs'[j].batch \in {regs[j].batch, {}}
           /\ (regs'[j].pc = "calling") = (regs'[j].batch # {})
           /\ regs'[j].batch # {} /\ ~regs'[j].gone => ~regs[j].gone
           /\ j > used => regs'[j].waiters = {}
  PROVE  Inv'
<1>1. top \in Nat /\ log \subseteq 1..top /\ completed \subseteq 1..top
      /\ cursor \in {{}} \cup {{n} : n \in 0..top}
  BY ConsumerAssumption DEF Inv, TypeOK
<1>2. cursorGet(cursor) \in 0..top
  BY <1>1, CursorGet
<1>3. cursor' \in {{}} \cup {{n} : n \in 0..top}
  BY <1>1, <1>2
<1>4. TypeOK'
  BY <1>1, <1>3 DEF Inv, TypeOK
<1>5. BatchInv'
  BY DEF Inv, BatchInv
<1>6. ASSUME Once PROVE DrainInv'
  <2> SUFFICES ASSUME NEW j \in Ids, ~regs'[j].gone
               PROVE  Reads(regs'[j].batch, log', completed')
    BY DEF DrainInv
  <2>1. CASE regs'[j].batch = {}
    BY <2>1 DEF Reads
  <2>2. CASE regs'[j].batch # {}
    <3>1. regs'[j].batch = regs[j].batch /\ ~regs[j].gone
      BY <2>2
    <3>2. Reads(regs[j].batch, log, completed)
      BY <1>6, <3>1 DEF Inv, DrainInv
    <3> QED BY <3>1, <3>2 DEF Reads
  <2> QED BY <2>1, <2>2
<1>7. ASSUME Once PROVE CursorInv'
  <2>1. cursorGet(cursor') \in {0, cursorGet(cursor)}
    BY DEF cursorGet
  <2>2. \A r \in log : r <= cursorGet(cursor) => r \in completed
    BY <1>7 DEF Inv, CursorInv
  <2>3. \A r \in log : r \in Nat /\ r > 0
    BY <1>1
  <2> QED BY <1>2, <2>1, <2>2, <2>3 DEF CursorInv
<1>8. Once' => Once
  BY DEF Once
<1> QED BY <1>4, <1>5, <1>6, <1>7, <1>8 DEF Inv

\* A registration with an id is not the free slot of the map.
LEMMA IdPositive == ASSUME NEW i \in Ids PROVE i # 0 /\ i \in Nat
BY ConsumerAssumption DEF Ids

\* While the map holds no registration, nobody's batch counts any more.
LEMMA NobodyReads ==
  ASSUME Inv, Once, reg = 0
  PROVE  \A i \in Ids : ~regs[i].gone => regs[i].batch = {}
<1> SUFFICES ASSUME NEW i \in Ids, ~regs[i].gone PROVE regs[i].batch = {}
  OBVIOUS
<1>1. i # 0
  BY IdPositive
<1>2. regs[i].pc = "none"
  BY <1>1 DEF Inv, LiveInv
<1> QED BY <1>2 DEF Inv, TypeOK

\* What the next lemmas use of a registration.
LEMMA RegType ==
  ASSUME Inv, NEW i \in Ids
  PROVE  /\ regs[i] \in Registration /\ regs[i].batch \subseteq 1..top
         /\ (regs[i].pc = "calling") = (regs[i].batch # {})
         /\ (i > used => regs[i].waiters = {})
BY DEF Inv, TypeOK, BatchInv

\* Return ends the drain and keeps the rest.
LEMMA ReturnKeeps ==
  ASSUME NEW c \in Registration
  PROVE  /\ Return(c) \in Registration /\ Return(c).batch = {}
         /\ Return(c).pc \in {"advance", "finish"}
         /\ Return(c).gone = c.gone /\ Return(c).waiters = c.waiters
BY DEF Return, Registration

--------------------------------------------------------------------------------
(* Each action keeps the invariant *)

LEMMA CertKeeps ==
  ASSUME Inv, UNCHANGED hazards,
         Rebased \/ \E covers \in Covers : CertAccepted(covers)
  PROVE  Inv'
<1>1. CASE Rebased
  <2>1. archiveNow(cursor) /\ rebasing' = FALSE
        /\ UNCHANGED <<top, cut, regs, reg, used, open, completed>>
    BY <1>1 DEF Rebased
  <2>2. TypeOK
    BY DEF Inv
  <2>3. /\ log' \subseteq log /\ archived' \subseteq 1..top /\ log' \cap archived' = {}
        /\ cursor' \in {cursor, {}} /\ (~stale => cursor' = cursor)
        /\ stale' \in BOOLEAN /\ (~stale => ~stale')
    BY <2>1, <2>2, ArchiveMoves
  <2>4. FreshInv'
    BY <2>1, <2>3 DEF Inv, FreshInv
  <2>5. Once => LiveInv'
    BY <2>1 DEF Inv, LiveInv
  <2>6. regs' \in [Ids -> Registration] /\ cut' \subseteq Rows /\ open' \in BOOLEAN
        /\ reg' \in 0..used
    BY <2>1, <2>2 DEF TypeOK
  <2>7. \A j \in Ids :
          /\ regs'[j].batch \in {regs[j].batch, {}}
          /\ (regs'[j].pc = "calling") = (regs'[j].batch # {})
          /\ regs'[j].batch # {} /\ ~regs'[j].gone => ~regs[j].gone
          /\ j > used => regs'[j].waiters = {}
    BY <2>1, RegType
  <2> QED BY <2>1, <2>3, <2>4, <2>5, <2>6, <2>7, PassiveKeeps
<1>2. ASSUME NEW covers \in Covers, CertAccepted(covers) PROVE Inv'
  <2>1. /\ cut' = cut \cup covers /\ rebasing' = TRUE
        /\ UNCHANGED <<log, archived, cursor, stale, top, regs, reg, used, open, completed>>
    BY <1>2 DEF CertAccepted, durable
  <2>2. cut' \subseteq Rows
    BY <2>1, ConsumerAssumption DEF Inv, TypeOK, Rows
  <2>3. FreshInv' /\ (Once => LiveInv')
    BY <2>1 DEF Inv, FreshInv, LiveInv
  <2>4. /\ regs' \in [Ids -> Registration] /\ open' \in BOOLEAN /\ reg' \in 0..used
        /\ archived' \subseteq 1..top /\ log' \cap archived' = {} /\ stale' \in BOOLEAN
    BY <2>1 DEF Inv, TypeOK
  <2>5. \A j \in Ids :
          /\ regs'[j].batch \in {regs[j].batch, {}}
          /\ (regs'[j].pc = "calling") = (regs'[j].batch # {})
          /\ regs'[j].batch # {} /\ ~regs'[j].gone => ~regs[j].gone
          /\ j > used => regs'[j].waiters = {}
    BY <2>1, RegType
  <2> QED BY <2>1, <2>2, <2>3, <2>4, <2>5, PassiveKeeps
<1> QED BY <1>1, <1>2

LEMMA RowsGoKeeps ==
  ASSUME Inv, UNCHANGED hazards,
         \/ \E rows \in SUBSET Rows : Prune(rows)
         \/ \E r \in Rows : RowDeleted(r)
         \/ Age \/ Reopen
  PROVE  Inv'
<1>1. /\ log' \subseteq log /\ cursor' = cursor
      /\ (stale' = stale \/ (stale' = TRUE /\ "age" \in hazards))
      /\ open' \in BOOLEAN
      /\ UNCHANGED <<archived, top, cut, rebasing, regs, reg, used, completed>>
  BY DEF Prune, RowDeleted, Age, Reopen, durable, Inv, TypeOK
<1>2. FreshInv' /\ (Once => LiveInv')
  BY <1>1 DEF Inv, FreshInv, LiveInv
<1>3. /\ regs' \in [Ids -> Registration] /\ reg' \in 0..used /\ cut' \subseteq Rows
      /\ archived' \subseteq 1..top /\ log' \cap archived' = {} /\ stale' \in BOOLEAN
      /\ rebasing' \in BOOLEAN
  BY <1>1 DEF Inv, TypeOK
<1>4. \A j \in Ids :
        /\ regs'[j].batch \in {regs[j].batch, {}}
        /\ (regs'[j].pc = "calling") = (regs'[j].batch # {})
        /\ regs'[j].batch # {} /\ ~regs'[j].gone => ~regs[j].gone
        /\ j > used => regs'[j].waiters = {}
  BY <1>1, RegType
<1> QED BY <1>1, <1>2, <1>3, <1>4, PassiveKeeps
\* A callback fails, or its drain finds that the consumer is gone.
LEMMA DrainEndsKeeps ==
  ASSUME Inv, UNCHANGED hazards, NEW i \in Ids,
         CallbackFails(i) \/ (CallbackResolves(i) /\ regs[i].gone)
  PROVE  Inv'
<1>1. /\ cursor' \in {cursor, {cursorGet(cursor)}}
      /\ (cursor' = cursor /\ stale' = stale) \/ (stale' = FALSE /\ cursor' # {})
      /\ \/ regs' = [regs EXCEPT ![i] = Return(@)]
         \/ regs' = [regs EXCEPT ![i] = [Return(@) EXCEPT !.timer = TRUE]]
      /\ UNCHANGED <<log, top, archived, cut, rebasing, reg, used, open, completed>>
      /\ regs[i].pc = "calling"
  BY DEF CallbackFails, CallbackResolves, cursorSet
<1>2. PICK d : /\ regs' = [regs EXCEPT ![i] = d] /\ d \in Registration
               /\ d.batch = {} /\ d.pc # "calling" /\ d.gone = regs[i].gone
               /\ d.waiters = regs[i].waiters
  <2>1. regs[i] \in Registration
    BY RegType
  <2> DEFINE e == Return(regs[i])
             f == [e EXCEPT !.timer = TRUE]
  <2>2. /\ e \in Registration /\ e.batch = {} /\ e.pc \in {"advance", "finish"}
        /\ e.gone = regs[i].gone /\ e.waiters = regs[i].waiters
    BY <2>1, ReturnKeeps
  <2>3. regs' = [regs EXCEPT ![i] = e] \/ regs' = [regs EXCEPT ![i] = f]
    BY <1>1
  <2> HIDE DEF e
  <2>4. /\ f \in Registration /\ f.batch = {} /\ f.pc = e.pc /\ f.gone = e.gone
        /\ f.waiters = e.waiters
    BY <2>2 DEF Registration
  <2> HIDE DEF f
  <2> QED BY <2>2, <2>3, <2>4
<1>3. regs \in [Ids -> Registration]
  BY DEF Inv, TypeOK
<1>4. regs' \in [Ids -> Registration] /\ \A j \in Ids : regs'[j] = IF j = i THEN d ELSE regs[j]
  BY <1>2, <1>3
<1>5. FreshInv'
  BY <1>1 DEF Inv, FreshInv
<1>6. Once => LiveInv'
  BY <1>1, <1>2, <1>4 DEF Inv, LiveInv
<1>7. /\ reg' \in 0..used /\ cut' \subseteq Rows /\ archived' \subseteq 1..top
      /\ log' \cap archived' = {} /\ stale' \in BOOLEAN /\ rebasing' \in BOOLEAN
      /\ open' \in BOOLEAN
  BY <1>1 DEF Inv, TypeOK
<1>8. \A j \in Ids :
        /\ regs'[j].batch \in {regs[j].batch, {}}
        /\ (regs'[j].pc = "calling") = (regs'[j].batch # {})
        /\ regs'[j].batch # {} /\ ~regs'[j].gone => ~regs[j].gone
        /\ j > used => regs'[j].waiters = {}
  BY <1>2, <1>4, RegType
<1> QED BY <1>1, <1>4, <1>5, <1>6, <1>7, <1>8, PassiveKeeps

LEMMA AdvanceKeeps ==
  ASSUME Inv, UNCHANGED hazards, NEW i \in Ids, Advance(i)
  PROVE  Inv'
<1>1. /\ regs[i].pc = "advance" /\ archiveNow(cursor)
      /\ regs' = [regs EXCEPT ![i].pc = "finish"]
      /\ UNCHANGED <<top, cut, rebasing, reg, used, open, completed>>
  BY DEF Advance
<1>2. TypeOK /\ regs \in [Ids -> Registration]
  BY DEF Inv, TypeOK
<1>3. /\ log' \subseteq log /\ archived' \subseteq 1..top /\ log' \cap archived' = {}
      /\ cursor' \in {cursor, {}} /\ (~stale => cursor' = cursor)
      /\ stale' \in BOOLEAN /\ (~stale => ~stale')
  BY <1>1, <1>2, ArchiveMoves
<1> DEFINE d == [regs[i] EXCEPT !.pc = "finish"]
<1>4. /\ d \in Registration /\ d.batch = regs[i].batch /\ d.pc = "finish"
      /\ d.gone = regs[i].gone /\ d.waiters = regs[i].waiters
  BY <1>2 DEF Registration
<1>5. regs' = [regs EXCEPT ![i] = d]
  BY <1>1
<1> HIDE DEF d
<1>6. regs' \in [Ids -> Registration] /\ \A j \in Ids : regs'[j] = IF j = i THEN d ELSE regs[j]
  BY <1>2, <1>4, <1>5
<1>7. FreshInv'
  BY <1>1, <1>3 DEF Inv, FreshInv
<1>8. Once => LiveInv'
  BY <1>1, <1>4, <1>6 DEF Inv, LiveInv
<1>9. cut' \subseteq Rows /\ open' \in BOOLEAN /\ rebasing' \in BOOLEAN /\ reg' \in 0..used
  BY <1>1, <1>2 DEF TypeOK
<1>10. \A j \in Ids :
         /\ regs'[j].batch \in {regs[j].batch, {}}
         /\ (regs'[j].pc = "calling") = (regs'[j].batch # {})
         /\ regs'[j].batch # {} /\ ~regs'[j].gone => ~regs[j].gone
         /\ j > used => regs'[j].waiters = {}
  BY <1>1, <1>4, <1>6, RegType
<1> QED BY <1>1, <1>3, <1>6, <1>7, <1>8, <1>9, <1>10, PassiveKeeps

LEMMA UnsubscribeKeeps ==
  ASSUME Inv, UNCHANGED hazards, NEW i \in Ids, Unsubscribe(i)
  PROVE  Inv'
<1>1. /\ regs[i].pc # "none" /\ (regs[i].gone => "unsub_twice" \in hazards)
      /\ regs' = [regs EXCEPT ![i].gone = TRUE, ![i].timer = FALSE, ![i].waiters = {}]
      /\ reg' \in {reg, 0}
      /\ UNCHANGED <<log, archived, cursor, stale, top, cut, rebasing, used, open, completed>>
  BY DEF Unsubscribe, durable
<1>2. TypeOK /\ regs \in [Ids -> Registration] /\ reg \in 0..used /\ used \in Nat
  BY DEF Inv, TypeOK
<1> DEFINE d == [regs[i] EXCEPT !.gone = TRUE, !.timer = FALSE, !.waiters = {}]
<1>3. d \in Registration /\ d.batch = regs[i].batch /\ d.pc = regs[i].pc /\ d.gone = TRUE
      /\ d.waiters = {}
  BY <1>2 DEF Registration
<1>4. regs' = [regs EXCEPT ![i] = d]
  BY <1>1, <1>2
<1> HIDE DEF d
<1>5. regs' \in [Ids -> Registration] /\ \A j \in Ids : regs'[j] = IF j = i THEN d ELSE regs[j]
  BY <1>2, <1>3, <1>4
<1>6. FreshInv'
  BY <1>1 DEF Inv, FreshInv
<1>7. Once => LiveInv'
  <2> SUFFICES ASSUME Once, NEW j \in Ids, regs'[j].pc # "none", ~regs'[j].gone
               PROVE  j = reg'
    BY DEF LiveInv
  <2>1. j # i /\ regs'[j] = regs[j]
    BY <1>3, <1>5
  <2>2. j = reg
    BY <2>1 DEF Inv, LiveInv
  <2>3. i = reg
    BY <1>1 DEF Inv, LiveInv, Once
  <2> QED BY <2>1, <2>2, <2>3
<1>8. /\ reg' \in 0..used /\ cut' \subseteq Rows /\ archived' \subseteq 1..top
      /\ log' \cap archived' = {} /\ stale' \in BOOLEAN /\ rebasing' \in BOOLEAN
      /\ open' \in BOOLEAN
  BY <1>1, <1>2 DEF TypeOK
<1>9. \A j \in Ids :
        /\ regs'[j].batch \in {regs[j].batch, {}}
        /\ (regs'[j].pc = "calling") = (regs'[j].batch # {})
        /\ regs'[j].batch # {} /\ ~regs'[j].gone => ~regs[j].gone
        /\ j > used => regs'[j].waiters = {}
  BY <1>3, <1>5, RegType
<1> QED BY <1>1, <1>5, <1>6, <1>7, <1>8, <1>9, PassiveKeeps

LEMMA CaughtUpKeeps ==
  ASSUME Inv, UNCHANGED hazards, CaughtUp
  PROVE  Inv'
<1>1. /\ reg # 0 /\ cursorGet(cursor) < maxRowid
      /\ regs' = [regs EXCEPT ![reg].waiters = @ \cup {maxRowid}]
      /\ UNCHANGED <<log, archived, cursor, stale, top, cut, rebasing, reg, used, open, completed>>
  BY DEF CaughtUp, durable
<1>2. /\ TypeOK /\ regs \in [Ids -> Registration] /\ reg \in Ids /\ reg <= used
      /\ top \in 0..MaxRow /\ cursor \in {{}} \cup {{n} : n \in 0..top} /\ used \in Nat
  BY <1>1, ConsumerAssumption DEF Inv, TypeOK, Ids
<1>3. maxRowid \in Rows
  <2>1. maxRowid \in 0..top
    BY <1>2, MaxRowid
  <2>2. cursorGet(cursor) \in 0..top
    BY <1>2, CursorGet, ConsumerAssumption
  <2> QED BY <1>1, <1>2, <2>1, <2>2, ConsumerAssumption DEF Rows
<1> DEFINE d == [regs[reg] EXCEPT !.waiters = @ \cup {maxRowid}]
<1>4. d \in Registration /\ d.batch = regs[reg].batch /\ d.pc = regs[reg].pc
      /\ d.gone = regs[reg].gone
  BY <1>2, <1>3 DEF Registration
<1>5. regs' = [regs EXCEPT ![reg] = d]
  BY <1>1, <1>2
<1> HIDE DEF d
<1>6. regs' \in [Ids -> Registration] /\ \A j \in Ids : regs'[j] = IF j = reg THEN d ELSE regs[j]
  BY <1>2, <1>4, <1>5
<1>7. FreshInv'
  BY <1>1 DEF Inv, FreshInv
<1>8. Once => LiveInv'
  BY <1>1, <1>4, <1>6 DEF Inv, LiveInv
<1>9. /\ reg' \in 0..used /\ cut' \subseteq Rows /\ archived' \subseteq 1..top
      /\ log' \cap archived' = {} /\ stale' \in BOOLEAN /\ rebasing' \in BOOLEAN
      /\ open' \in BOOLEAN
  BY <1>1, <1>2 DEF TypeOK
<1>10. \A j \in Ids :
         /\ regs'[j].batch \in {regs[j].batch, {}}
         /\ (regs'[j].pc = "calling") = (regs'[j].batch # {})
         /\ regs'[j].batch # {} /\ ~regs'[j].gone => ~regs[j].gone
         /\ j > used => regs'[j].waiters = {}
  BY <1>2, <1>4, <1>6, RegType, IdPositive
<1> QED BY <1>1, <1>6, <1>7, <1>8, <1>9, <1>10, PassiveKeeps

LEMMA EndKeeps ==
  ASSUME Inv, UNCHANGED hazards, Close \/ Crash
  PROVE  Inv'
<1>1. /\ reg' = 0 /\ open' \in BOOLEAN /\ rebasing' \in BOOLEAN
      /\ UNCHANGED <<log, archived, cursor, stale, top, cut, used, completed>>
  BY DEF Close, Crash, durable, Inv, TypeOK
<1>2. TypeOK /\ regs \in [Ids -> Registration] /\ used \in Nat
  BY DEF Inv, TypeOK
<1>3. /\ regs' \in [Ids -> Registration]
      /\ \A j \in Ids :
           /\ regs'[j].batch \in {regs[j].batch, {}}
           /\ (regs'[j].pc = "calling") = (regs'[j].batch # {})
           /\ regs'[j].batch # {} /\ ~regs'[j].gone => ~regs[j].gone
           /\ j > used => regs'[j].waiters = {}
           /\ Once => regs'[j].pc = "none" \/ regs'[j].gone
  <2>1. CASE Crash
    <3>1. regs' = [j \in Ids |-> Unmade]
      BY <2>1 DEF Crash
    <3>2. Unmade \in Registration
      BY DEF Unmade, Registration
    <3> QED BY <3>1, <3>2 DEF Unmade
  <2>2. CASE Close
    <3> DEFINE a(j) == [regs[j] EXCEPT !.gone = TRUE, !.timer = FALSE, !.waiters = {}, !.old = TRUE]
               b(j) == [regs[j] EXCEPT !.old = TRUE]
    <3>1. regs' = [j \in Ids |-> IF j = reg THEN a(j) ELSE b(j)]
      BY <2>2 DEF Close
    <3>2. ASSUME NEW j \in Ids
          PROVE  /\ a(j) \in Registration /\ a(j).batch = regs[j].batch /\ a(j).gone
                 /\ a(j).pc = regs[j].pc /\ a(j).waiters = {}
                 /\ b(j) \in Registration /\ b(j).batch = regs[j].batch
                 /\ b(j).gone = regs[j].gone /\ b(j).pc = regs[j].pc
                 /\ b(j).waiters = regs[j].waiters
      BY <1>2 DEF Registration
    <3> HIDE DEF a, b
    <3>3. regs' \in [Ids -> Registration]
      BY <3>1, <3>2
    <3>4. ASSUME NEW j \in Ids
          PROVE  /\ regs'[j].batch \in {regs[j].batch, {}}
                 /\ (regs'[j].pc = "calling") = (regs'[j].batch # {})
                 /\ regs'[j].batch # {} /\ ~regs'[j].gone => ~regs[j].gone
                 /\ j > used => regs'[j].waiters = {}
                 /\ Once => regs'[j].pc = "none" \/ regs'[j].gone
      <4>1. regs'[j] = IF j = reg THEN a(j) ELSE b(j)
        BY <3>1
      <4>2. Once /\ j # reg => regs[j].pc = "none" \/ regs[j].gone
        BY DEF Inv, LiveInv
      <4> QED BY <3>2, <4>1, <4>2, RegType
    <3> QED BY <3>3, <3>4
  <2> QED BY <2>1, <2>2
<1>4. FreshInv'
  BY <1>1 DEF Inv, FreshInv
<1>5. Once => LiveInv'
  BY <1>3 DEF LiveInv
<1>6. /\ reg' \in 0..used /\ cut' \subseteq Rows /\ archived' \subseteq 1..top
      /\ log' \cap archived' = {} /\ stale' \in BOOLEAN
  BY <1>1, <1>2 DEF TypeOK
<1> QED BY <1>1, <1>3, <1>4, <1>5, <1>6, PassiveKeeps
\* A batch read before rows were appended still forgets none.
LEMMA ReadsLater ==
  ASSUME NEW n \in Nat, NEW batch \in SUBSET (1..n), NEW held, NEW more \in SUBSET Nat,
         NEW done, NEW doneMore, Reads(batch, held, done),
         \A r \in more : r \in held \/ r > n, done \subseteq doneMore
  PROVE  Reads(batch, more, doneMore)
BY DEF Reads

\* A step that reads for one registration, and may append rows and complete some,
\* keeps the invariant if what it reads forgets no row.
LEMMA ReadKeeps ==
  ASSUME Inv, UNCHANGED <<hazards, archived, cut, rebasing, open>>,
         NEW i \in Ids, NEW d \in Registration, regs' = [regs EXCEPT ![i] = d],
         top' \in top..MaxRow, log' \subseteq 1..top', log' \cap archived = {},
         \A r \in log' : r \in log \/ r > top,
         cursor' \in {{}} \cup {{n} : n \in 0..top'}, stale' \in BOOLEAN,
         used' \in used..MaxRegs, reg' \in 0..used',
         completed \subseteq completed', completed' \subseteq 1..top',
         d.batch \subseteq 1..top', (d.pc = "calling") = (d.batch # {}),
         i > used' => d.waiters = {},
         FreshInv', Once => LiveInv' /\ CursorInv',
         Once => (~d.gone => Reads(d.batch, log', completed'))
  PROVE  Inv'
<1>1. /\ top \in Nat /\ top' \in 0..MaxRow /\ top <= top' /\ used \in Nat
      /\ used' \in 0..MaxRegs /\ used <= used' /\ 1..top \subseteq 1..top'
  BY ConsumerAssumption DEF Inv, TypeOK
<1>2. regs \in [Ids -> Registration]
  BY DEF Inv, TypeOK
<1>3. regs' \in [Ids -> Registration] /\ \A j \in Ids : regs'[j] = IF j = i THEN d ELSE regs[j]
  BY <1>2
<1>4. \A j \in Ids : (regs'[j].pc = "calling") = (regs'[j].batch # {})
  BY <1>3, RegType
<1>5. TypeOK'
  BY <1>1, <1>3, <1>4 DEF Inv, TypeOK
<1>6. BatchInv'
  <2> SUFFICES ASSUME NEW j \in Ids
               PROVE  regs'[j].batch \subseteq 1..top' /\ (j > used' => regs'[j].waiters = {})
    BY DEF BatchInv
  <2>1. CASE j = i
    BY <1>3, <2>1
  <2>2. CASE j # i
    BY <1>1, <1>3, <2>2, RegType, IdPositive
  <2> QED BY <2>1, <2>2
<1>7. ASSUME Once PROVE DrainInv'
  <2> SUFFICES ASSUME NEW j \in Ids, ~regs'[j].gone
               PROVE  Reads(regs'[j].batch, log', completed')
    BY DEF DrainInv
  <2>1. CASE j = i
    BY <1>3, <1>7, <2>1
  <2>2. CASE j # i
    <3>1. regs'[j] = regs[j] /\ regs[j].batch \in SUBSET (1..top) /\ log' \in SUBSET Nat
      BY <1>1, <1>3, <2>2, RegType
    <3>2. Reads(regs[j].batch, log, completed)
      BY <1>7, <3>1 DEF Inv, DrainInv
    <3> QED BY <1>1, <3>1, <3>2, ReadsLater
  <2> QED BY <2>1, <2>2
<1>8. Once' => Once
  BY DEF Once
<1> QED BY <1>5, <1>6, <1>7, <1>8 DEF Inv

\* The position a drain starts from.
LEMMA Position ==
  ASSUME Inv
  PROVE  /\ cursorGet(cursor) \in Nat /\ cursorGet(cursor) <= top /\ top \in 0..MaxRow
         /\ top \in Nat /\ log \in SUBSET (1..top)
         /\ cursor \in {{}} \cup {{n} : n \in 0..top}
<1>1. top \in Nat /\ top \in 0..MaxRow /\ log \in SUBSET (1..top)
      /\ cursor \in {{}} \cup {{n} : n \in 0..top}
  BY ConsumerAssumption DEF Inv, TypeOK
<1>2. cursorGet(cursor) \in 0..top
  BY <1>1, CursorGet
<1> QED BY <1>1, <1>2

\* A registration that is pumped without anything else changing.
LEMMA PumpOneKeeps ==
  ASSUME Inv, NEW i \in Ids, NEW c \in Registration,
         c.batch = regs[i].batch, (c.pc = "calling") = (c.batch # {}),
         c.gone = regs[i].gone, c.waiters = regs[i].waiters,
         c.pc = "none" <=> regs[i].pc = "none",
         NEW d, d = c \/ d = pump(c, cursorGet(cursor), log),
         regs' = [regs EXCEPT ![i] = d],
         UNCHANGED <<hazards, durable, top, cut, rebasing, reg, used, open, completed>>
  PROVE  Inv'
<1> DEFINE at == cursorGet(cursor)
           e == pump(c, at, log)
<1>1. /\ c.batch \subseteq 1..top /\ top \in 0..MaxRow /\ log \in SUBSET (1..top)
      /\ at \in Nat
  BY RegType, Position
<1> HIDE DEF at
<1>2. /\ e \in Registration /\ e.batch \subseteq 1..top
      /\ (e.pc = "calling") = (e.batch # {}) /\ e.gone = c.gone /\ e.waiters = c.waiters
      /\ e.pc = "none" <=> c.pc = "none"
  BY <1>1, PumpType
<1>3. /\ d \in Registration /\ d.batch \subseteq 1..top
      /\ (d.pc = "calling") = (d.batch # {}) /\ d.gone = c.gone /\ d.waiters = c.waiters
      /\ d.pc = "none" <=> c.pc = "none"
  <2> HIDE DEF e
  <2>1. d = c \/ d = e
    BY DEF e, at
  <2> QED BY <1>1, <1>2, <2>1
<1>4. Once => (~d.gone => Reads(d.batch, log, completed))
  <2> SUFFICES ASSUME Once, ~d.gone PROVE Reads(d.batch, log, completed)
    OBVIOUS
  <2>1. Reads(c.batch, log, completed)
    BY <1>3 DEF Inv, DrainInv
  <2>2. \A r \in log : r <= at => r \in completed
    BY DEF Inv, CursorInv, at
  <2>3. Reads(e.batch, log, completed)
    BY <1>1, <2>1, <2>2, PumpReads
  <2> QED BY <2>1, <2>3 DEF at
<1>5. FreshInv'
  BY DEF Inv, FreshInv, durable
<1>6. regs \in [Ids -> Registration]
  BY DEF Inv, TypeOK
<1>7. \A j \in Ids : regs'[j] = IF j = i THEN d ELSE regs[j]
  BY <1>6
<1>8. Once => LiveInv' /\ CursorInv'
  BY <1>3, <1>7 DEF Inv, LiveInv, CursorInv, durable
<1>9. /\ top' \in top..MaxRow /\ log' \subseteq 1..top' /\ log' \cap archived = {}
      /\ cursor' \in {{}} \cup {{n} : n \in 0..top'} /\ stale' \in BOOLEAN
      /\ used' \in used..MaxRegs /\ reg' \in 0..used' /\ completed' \subseteq 1..top'
      /\ log' = log /\ completed' = completed /\ top' = top /\ used' = used
      /\ UNCHANGED <<hazards, archived, cut, rebasing, open>>
  BY ConsumerAssumption DEF Inv, TypeOK, durable
<1>10. i > used' => d.waiters = {}
  BY <1>3, <1>9, RegType
<1> QED BY <1>3, <1>4, <1>5, <1>8, <1>9, <1>10, ReadKeeps

LEMMA FinishKeeps ==
  ASSUME Inv, UNCHANGED hazards, NEW i \in Ids, Finish(i)
  PROVE  Inv'
<1> DEFINE c == [regs[i] EXCEPT !.pc = "idle"]
           e == [c EXCEPT !.rerun = FALSE]
<1>1. /\ regs[i].pc = "finish"
      /\ \/ regs' = [regs EXCEPT ![i] = c]
         \/ regs' = [regs EXCEPT ![i] = pump(e, cursorGet(cursor), log)]
      /\ UNCHANGED <<durable, top, cut, rebasing, reg, used, open, completed>>
  BY DEF Finish
<1>2. regs[i] \in Registration /\ regs[i].batch = {}
  BY <1>1, RegType
<1>3. /\ c \in Registration /\ c.batch = regs[i].batch /\ c.pc = "idle"
      /\ c.gone = regs[i].gone /\ c.waiters = regs[i].waiters
  BY <1>2 DEF Registration
<1> HIDE DEF c
<1>4. /\ e \in Registration /\ e.batch = c.batch /\ e.pc = "idle"
      /\ e.gone = c.gone /\ e.waiters = c.waiters
  BY <1>3 DEF Registration
<1> HIDE DEF e
<1>5. CASE regs' = [regs EXCEPT ![i] = c]
  BY <1>1, <1>2, <1>3, <1>5, PumpOneKeeps
<1>6. CASE regs' = [regs EXCEPT ![i] = pump(e, cursorGet(cursor), log)]
  <2>1. PICK d : d = pump(e, cursorGet(cursor), log)
    OBVIOUS
  <2> QED BY <1>1, <1>2, <1>3, <1>4, <1>6, <2>1, PumpOneKeeps
<1> QED BY <1>1, <1>5, <1>6

LEMMA RetryTimerKeeps ==
  ASSUME Inv, UNCHANGED hazards, NEW i \in Ids, RetryTimer(i)
  PROVE  Inv'
<1> DEFINE e == [regs[i] EXCEPT !.timer = FALSE]
<1>1. /\ regs' = [regs EXCEPT ![i] = pump(e, cursorGet(cursor), log)]
      /\ UNCHANGED <<durable, top, cut, rebasing, reg, used, open, completed>>
  BY DEF RetryTimer
<1>2. regs[i] \in Registration /\ (regs[i].pc = "calling") = (regs[i].batch # {})
  BY RegType
<1>3. /\ e \in Registration /\ e.batch = regs[i].batch /\ e.pc = regs[i].pc
      /\ e.gone = regs[i].gone /\ e.waiters = regs[i].waiters
  BY <1>2 DEF Registration
<1> HIDE DEF e
<1>4. PICK d : d = pump(e, cursorGet(cursor), log)
  OBVIOUS
<1> QED BY <1>1, <1>2, <1>3, <1>4, PumpOneKeeps
\* The row whose callback completes is the least of the batch; through it, every
\* held row has completed.
LEMMA LeastRow ==
  ASSUME Inv, NEW i \in Ids, regs[i].pc = "calling", ~regs[i].gone,
         NEW row, row = CHOOSE r \in regs[i].batch : \A q \in regs[i].batch : r <= q
  PROVE  /\ row \in regs[i].batch /\ row \in 1..top
         /\ \A q \in regs[i].batch : row <= q
         /\ Once => \A r \in log : r <= row => r \in completed \cup {row}
<1>1. regs[i].batch \in SUBSET Nat /\ regs[i].batch # {} /\ regs[i].batch \subseteq 1..top
      /\ top \in Nat /\ log \subseteq Nat
  BY RegType, Position
<1>2. \E r \in regs[i].batch : \A q \in regs[i].batch : r <= q
  BY <1>1, Least
<1>3. row \in regs[i].batch /\ \A q \in regs[i].batch : row <= q
  BY <1>2
<1>4. ASSUME Once, NEW r \in log, r <= row PROVE r \in completed \cup {row}
  <2>1. r \in regs[i].batch \/ r \in completed
    BY <1>3, <1>4 DEF Inv, DrainInv, Reads
  <2> QED BY <1>1, <1>3, <1>4, <2>1
<1> QED BY <1>1, <1>3, <1>4

LEMMA CallbackResolvesKeeps ==
  ASSUME Inv, UNCHANGED hazards, NEW i \in Ids, CallbackResolves(i), ~regs[i].gone
  PROVE  Inv'
<1> DEFINE c == regs[i]
           row == CHOOSE r \in c.batch : \A q \in c.batch : r <= q
           next == [c EXCEPT !.advanced = TRUE, !.batch = @ \ {row},
                             !.waiters = Unreached(@, row)]
           d == IF next.batch # {} THEN next ELSE drainInner(next, row, log)
<1>1. /\ c.pc = "calling" /\ cursor' = {row} /\ stale' = FALSE
      /\ completed' = completed \cup {row} /\ regs' = [regs EXCEPT ![i] = d]
      /\ UNCHANGED <<log, top, archived, cut, rebasing, reg, used, open>>
  BY DEF CallbackResolves, cursorSet
<1>2. /\ row \in c.batch /\ row \in 1..top /\ \A q \in c.batch : row <= q
      /\ Once => \A r \in log : r <= row => r \in completed \cup {row}
  BY <1>1, LeastRow
<1>3. c \in Registration /\ c.batch \subseteq 1..top /\ (i > used => c.waiters = {})
  BY RegType
<1>4. top \in 0..MaxRow /\ top \in Nat /\ log \in SUBSET (1..top) /\ row \in Nat
  BY <1>2, Position
<1> HIDE DEF row
<1>5. /\ next \in Registration /\ next.batch = c.batch \ {row} /\ next.pc = "calling"
      /\ next.gone = c.gone /\ next.waiters = Unreached(c.waiters, row)
  <2>1. Unreached(c.waiters, row) \in SUBSET Rows /\ c.batch \ {row} \in SUBSET Rows
    BY <1>3 DEF Unreached, Registration
  <2> QED BY <1>1, <1>3, <2>1 DEF Registration
<1> HIDE DEF next
<1>6. /\ d \in Registration /\ d.batch \subseteq 1..top /\ (d.pc = "calling") = (d.batch # {})
      /\ d.pc # "none" /\ d.gone = c.gone /\ d.waiters = next.waiters
  <2>1. CASE next.batch # {}
    BY <1>3, <1>5, <2>1
  <2>2. CASE next.batch = {}
    <3>1. d = drainInner(next, row, log)
      BY <2>2
    <3> QED BY <1>4, <1>5, <3>1, DrainType
  <2> QED BY <2>1, <2>2
<1>7. ASSUME Once PROVE Reads(d.batch, log, completed \cup {row})
  <2>1. CASE next.batch # {}
    <3>1. Reads(c.batch, log, completed)
      BY <1>7 DEF Inv, DrainInv
    <3>2. Reads(c.batch \ {row}, log, completed \cup {row})
      BY <3>1 DEF Reads
    <3> QED BY <1>5, <2>1, <3>2
  <2>2. CASE next.batch = {}
    <3>1. d = drainInner(next, row, log)
      BY <2>2
    <3>2. \A r \in log : r <= row => r \in completed \cup {row}
      BY <1>2, <1>7
    <3>3. Reads(drainInner(next, row, log).batch, log, completed \cup {row})
      BY <1>4, <1>5, <3>2, DrainReads
    <3> QED BY <3>1, <3>3
  <2> QED BY <2>1, <2>2
<1> HIDE DEF d
<1>8. FreshInv'
  BY <1>1 DEF FreshInv
<1>9. regs \in [Ids -> Registration]
  BY DEF Inv, TypeOK
<1>10. \A j \in Ids : regs'[j] = IF j = i THEN d ELSE regs[j]
  BY <1>1, <1>9
<1>11. ASSUME Once PROVE LiveInv' /\ CursorInv'
  <2>1. LiveInv'
    BY <1>1, <1>6, <1>10, <1>11 DEF Inv, LiveInv
  <2>2. cursorGet(cursor') = row
    BY <1>1 DEF cursorGet
  <2> QED BY <1>1, <1>2, <1>11, <2>1, <2>2 DEF CursorInv
<1>12. /\ top' \in top..MaxRow /\ log' \subseteq 1..top' /\ log' \cap archived = {}
       /\ cursor' \in {{}} \cup {{n} : n \in 0..top'} /\ stale' \in BOOLEAN
       /\ used' \in used..MaxRegs /\ reg' \in 0..used' /\ completed' \subseteq 1..top'
       /\ completed \subseteq completed' /\ log' = log /\ top' = top
  <2>1. cursor' \in {{n} : n \in 0..top} /\ completed \cup {row} \subseteq 1..top
    <3>1. row \in 0..top /\ completed \subseteq 1..top
      BY <1>2, <1>4 DEF Inv, TypeOK
    <3> QED BY <1>1, <1>2, <3>1
  <2>2. top \in top..MaxRow /\ used \in used..MaxRegs
    BY <1>4, ConsumerAssumption DEF Inv, TypeOK
  <2> QED BY <1>1, <2>1, <2>2 DEF Inv, TypeOK
<1>13. i > used' => d.waiters = {}
  BY <1>1, <1>3, <1>5, <1>6 DEF Unreached
<1> QED BY <1>1, <1>6, <1>7, <1>8, <1>11, <1>12, <1>13, ReadKeeps

LEMMA RegisterKeeps ==
  ASSUME Inv, UNCHANGED hazards, Register
  PROVE  Inv'
<1> DEFINE c == [Unmade EXCEPT !.pc = "idle"]
           at == cursorGet(cursor)
           d == pump(c, at, log)
           i == used + 1
<1>1. /\ reg = 0 /\ used < MaxRegs /\ used' = i /\ reg' = i
      /\ (cursor = {} /\ cursor' = {0} /\ stale' = FALSE)
         \/ (cursor # {} /\ UNCHANGED <<cursor, stale>>)
      /\ regs' = [regs EXCEPT ![i] = d]
      /\ UNCHANGED <<log, top, archived, cut, rebasing, open, completed>>
  BY DEF Register, cursorSet
<1>2. /\ top \in 0..MaxRow /\ top \in Nat /\ log \in SUBSET (1..top) /\ at \in Nat
      /\ cursor \in {{}} \cup {{n} : n \in 0..top}
  BY Position
<1>3. i \in Ids /\ used \in Nat /\ used' \in used..MaxRegs /\ reg' \in 0..used'
  BY <1>1, ConsumerAssumption DEF Inv, TypeOK, Ids
<1>4. c \in Registration /\ c.batch = {} /\ c.pc = "idle" /\ c.gone = FALSE /\ c.waiters = {}
  BY DEF Unmade, Registration
<1> HIDE DEF c, at, i
<1>5. /\ d \in Registration /\ d.batch \subseteq 1..top
      /\ (d.pc = "calling") = (d.batch # {}) /\ d.waiters = {}
  BY <1>2, <1>4, PumpType
<1>6. ASSUME Once PROVE Reads(d.batch, log, completed)
  <2>1. Reads(c.batch, log, completed)
    BY <1>4 DEF Reads
  <2>2. \A r \in log : r <= at => r \in completed
    BY <1>6 DEF Inv, CursorInv, at
  <2> QED BY <1>2, <1>4, <2>1, <2>2, PumpReads
<1> HIDE DEF d
<1>7. FreshInv'
  BY <1>1 DEF Inv, FreshInv
<1>8. regs \in [Ids -> Registration]
  BY DEF Inv, TypeOK
<1>9. \A j \in Ids : regs'[j] = IF j = i THEN d ELSE regs[j]
  BY <1>1, <1>8
<1>10. ASSUME Once PROVE LiveInv' /\ CursorInv'
  <2>1. LiveInv'
    BY <1>1, <1>9, <1>10, IdPositive DEF Inv, LiveInv
  <2>2. cursorGet(cursor') = at
    <3>1. cursorGet({}) = 0 /\ cursorGet({0}) = 0
      BY DEF cursorGet
    <3> QED BY <1>1, <3>1 DEF at
  <2> QED BY <1>1, <1>10, <2>1, <2>2 DEF Inv, CursorInv, at
<1>11. /\ top' \in top..MaxRow /\ log' \subseteq 1..top' /\ log' \cap archived = {}
       /\ stale' \in BOOLEAN /\ completed' \subseteq 1..top' /\ completed' = completed
       /\ log' = log /\ top' = top
  <2>1. top \in top..MaxRow
    BY <1>2, ConsumerAssumption
  <2> QED BY <1>1, <1>2, <2>1 DEF Inv, TypeOK
<1>12. cursor' \in {{}} \cup {{n} : n \in 0..top'}
  BY <1>1, <1>2
<1>13. i > used' => d.waiters = {}
  BY <1>5
<1> QED BY <1>1, <1>3, <1>5, <1>6, <1>7, <1>10, <1>11, <1>12, <1>13, ReadKeeps

LEMMA RowAppliedKeeps ==
  ASSUME Inv, UNCHANGED hazards, RowApplied
  PROVE  Inv'
<1> DEFINE at == cursorGet(cursor)
           i == IF reg = 0 THEN 1 ELSE reg
           d == IF reg = 0 THEN regs[1] ELSE pump(regs[reg], at, log')
<1>1. /\ top < MaxRow /\ top' = top + 1 /\ log' = log \cup {top + 1}
      /\ regs' = IF reg = 0 THEN regs ELSE [regs EXCEPT ![reg] = pump(regs[reg], at, log')]
      /\ UNCHANGED <<archived, cursor, stale, cut, rebasing, reg, used, open, completed>>
  BY DEF RowApplied
<1>2. /\ top \in 0..MaxRow /\ top \in Nat /\ log \in SUBSET (1..top) /\ at \in Nat
      /\ at <= top /\ cursor \in {{}} \cup {{n} : n \in 0..top}
  BY Position
<1>3. top' \in 0..MaxRow /\ top' \in top..MaxRow /\ log' \in SUBSET (1..top')
      /\ 1..top \subseteq 1..top'
  <2>1. top + 1 \in Nat /\ MaxRow \in Nat /\ top + 1 <= MaxRow
    BY <1>1, <1>2, ConsumerAssumption
  <2>2. 1..top \subseteq 1..(top + 1) /\ top + 1 \in 1..(top + 1)
    BY <1>2
  <2>3. log \cup {top + 1} \subseteq 1..(top + 1)
    BY <1>2, <2>2
  <2>4. top + 1 \in 0..MaxRow /\ top + 1 \in top..MaxRow
    BY <1>2, <2>1
  <2> QED BY <1>1, <2>2, <2>3, <2>4
<1>4. regs \in [Ids -> Registration] /\ i \in Ids
  BY ConsumerAssumption DEF Inv, TypeOK, Ids
<1>5. regs' = [regs EXCEPT ![i] = d]
  BY <1>1, <1>4
<1> HIDE DEF at
<1>6. \A j \in Ids : Once /\ ~regs[j].gone => Reads(regs[j].batch, log', completed)
  <2> SUFFICES ASSUME NEW j \in Ids, Once, ~regs[j].gone
               PROVE  Reads(regs[j].batch, log', completed)
    OBVIOUS
  <2>1. Reads(regs[j].batch, log, completed) /\ regs[j].batch \in SUBSET (1..top)
    BY RegType DEF Inv, DrainInv
  <2>2. log' \in SUBSET Nat /\ \A r \in log' : r \in log \/ r > top
    BY <1>1, <1>2
  <2> QED BY <1>2, <2>1, <2>2, ReadsLater
<1>7. /\ regs[i] \in Registration /\ regs[i].batch \subseteq 1..top
      /\ (regs[i].pc = "calling") = (regs[i].batch # {})
      /\ (i > used => regs[i].waiters = {})
  BY <1>4, RegType
<1>8. /\ d \in Registration /\ d.batch \subseteq 1..top'
      /\ (d.pc = "calling") = (d.batch # {}) /\ d.gone = regs[i].gone
      /\ d.waiters = regs[i].waiters
      /\ d.pc = "none" <=> regs[i].pc = "none"
  <2>1. CASE reg = 0
    BY <1>3, <1>7, <2>1
  <2>2. CASE reg # 0
    <3>1. i = reg /\ d = pump(regs[reg], at, log') /\ regs[reg].batch \subseteq 1..top'
      BY <1>3, <1>7, <2>2
    <3> HIDE DEF d, i
    <3> QED BY <1>2, <1>3, <1>7, <3>1, PumpType
  <2> QED BY <2>1, <2>2
<1>9. ASSUME Once, ~d.gone PROVE Reads(d.batch, log', completed)
  <2>1. Reads(regs[i].batch, log', completed)
    BY <1>4, <1>6, <1>8, <1>9
  <2>2. CASE reg = 0
    BY <2>1, <2>2
  <2>3. CASE reg # 0
    <3>1. i = reg /\ d = pump(regs[reg], at, log')
      BY <2>3
    <3>2. \A r \in log : r <= at => r \in completed
      BY <1>9 DEF Inv, CursorInv, at
    <3>3. \A r \in log' : r <= at => r \in completed
      BY <1>1, <1>2, <3>2
    <3> HIDE DEF d, i
    <3> QED BY <1>2, <1>3, <1>7, <2>1, <3>1, <3>3, PumpReads
  <2> QED BY <2>2, <2>3
<1> HIDE DEF d, i
<1>10. \A j \in Ids : regs'[j] = IF j = i THEN d ELSE regs[j]
  BY <1>4, <1>5
<1>11. FreshInv'
  BY <1>1 DEF Inv, FreshInv
<1>12. ASSUME Once PROVE LiveInv' /\ CursorInv'
  <2>1. LiveInv'
    BY <1>1, <1>8, <1>10, <1>12 DEF Inv, LiveInv
  <2>2. CursorInv'
    BY <1>1, <1>2, <1>12 DEF Inv, CursorInv, at
  <2> QED BY <2>1, <2>2
<1>13. /\ log' \cap archived = {} /\ stale' \in BOOLEAN /\ completed' \subseteq 1..top'
       /\ completed' = completed /\ used' = used /\ used' \in used..MaxRegs
       /\ reg' \in 0..used' /\ \A r \in log' : r \in log \/ r > top
  BY <1>1, <1>2, <1>3, ConsumerAssumption DEF Inv, TypeOK
<1>14. cursor' \in {{}} \cup {{n} : n \in 0..top'}
  BY <1>1, <1>2
<1>15. i > used' => d.waiters = {}
  BY <1>7, <1>8, <1>13
<1> QED BY <1>1, <1>3, <1>4, <1>5, <1>8, <1>9, <1>11, <1>12, <1>13, <1>14, <1>15, ReadKeeps
LEMMA ResetKeeps ==
  ASSUME Inv, UNCHANGED hazards, NEW from, resetConsumer(from) \/ deleteConsumer
  PROVE  Inv'
<1>1. /\ reg = 0 /\ log' \subseteq log /\ archived' \subseteq 1..top
      /\ log' \cap archived' = {} /\ stale' \in BOOLEAN /\ (~stale => ~stale')
      /\ UNCHANGED <<top, cut, rebasing, regs, reg, used, open>>
      /\ \/ cursor' = {maxRowid} /\ completed' = log
         \/ cursor' = {0} /\ completed' = {}
         \/ cursor' = {} /\ completed' = {}
  <2>1. CASE resetConsumer(from)
    BY <2>1 DEF resetConsumer, cursorSet, Inv, TypeOK
  <2>2. CASE deleteConsumer
    <3>1. /\ reg = 0 /\ archiveNow({}) /\ completed' = {}
          /\ UNCHANGED <<top, cut, rebasing, regs, reg, used, open>>
      BY <2>2 DEF deleteConsumer
    <3>2. TypeOK
      BY DEF Inv
    <3> QED BY <3>1, <3>2, ArchiveMoves
  <2> QED BY <2>1, <2>2
<1>2. top \in Nat /\ log \subseteq 1..top /\ maxRowid \in 0..top /\ 0 \in 0..top
  BY Position, MaxRowid DEF Inv
<1>3. cursor' \in {{}} \cup {{n} : n \in 0..top}
  BY <1>1, <1>2
<1>4. completed' \subseteq 1..top
  BY <1>1, <1>2
<1>5. TypeOK'
  BY <1>1, <1>2, <1>3, <1>4 DEF Inv, TypeOK
<1>6. BatchInv' /\ FreshInv'
  BY <1>1 DEF Inv, BatchInv, FreshInv
<1>7. ASSUME Once PROVE LiveInv' /\ DrainInv' /\ CursorInv'
  <2>1. LiveInv'
    BY <1>1, <1>7 DEF Inv, LiveInv
  <2>2. DrainInv'
    BY <1>1, <1>7, NobodyReads DEF DrainInv, Reads
  <2>3. CursorInv'
    <3>1. CASE completed' = log
      BY <1>1, <3>1 DEF CursorInv
    <3>2. CASE cursor' \in {{0}, {}}
      <4>1. cursorGet(cursor') = 0
        BY <3>2 DEF cursorGet
      <4> QED BY <1>1, <1>2, <4>1 DEF CursorInv
    <3> QED BY <1>1, <3>1, <3>2
  <2> QED BY <2>1, <2>2, <2>3
<1>8. Once' => Once
  BY DEF Once
<1> QED BY <1>5, <1>6, <1>7, <1>8 DEF Inv

--------------------------------------------------------------------------------
(* The theorems *)

LEMMA InitInv == Init => Inv
<1> SUFFICES ASSUME Init PROVE Inv
  OBVIOUS
<1>1. Unmade \in Registration /\ Unmade.batch = {} /\ Unmade.pc = "none" /\ Unmade.waiters = {}
  BY DEF Unmade, Registration
<1>2. \A i \in Ids : regs[i] = Unmade
  BY DEF Init
<1>3. TypeOK
  <2>1. regs \in [Ids -> Registration]
    BY <1>1 DEF Init
  <2>2. \A i \in Ids : (regs[i].pc = "calling") = (regs[i].batch # {})
    BY <1>1, <1>2
  <2>3. top \in 0..MaxRow /\ used \in 0..MaxRegs /\ reg \in 0..used
    BY ConsumerAssumption DEF Init
  <2> QED BY <2>1, <2>2, <2>3 DEF Init, TypeOK
<1>4. BatchInv /\ FreshInv /\ LiveInv /\ DrainInv /\ CursorInv
  BY <1>1, <1>2 DEF Init, BatchInv, FreshInv, LiveInv, DrainInv, Reads, CursorInv
<1> QED BY <1>3, <1>4 DEF Inv

LEMMA NextInv == Inv /\ [Next]_vars => Inv'
<1> SUFFICES ASSUME Inv, [Next]_vars PROVE Inv'
  OBVIOUS
<1>1. CASE UNCHANGED vars
  <2>1. UNCHANGED <<log, archived, cursor, stale, top, cut, rebasing, regs, reg, used, open,
                    hazards, completed>>
    BY <1>1 DEF vars, durable
  <2>2. TypeOK' /\ BatchInv' /\ FreshInv'
    BY <2>1 DEF Inv, TypeOK, BatchInv, FreshInv
  <2>3. Once' = Once /\ LiveInv' = LiveInv /\ DrainInv' = DrainInv /\ CursorInv' = CursorInv
    BY <2>1 DEF Once, LiveInv, DrainInv, Reads, CursorInv, cursorGet
  <2> QED BY <2>2, <2>3 DEF Inv
<1>2. CASE Next
  <2>1. UNCHANGED hazards
    BY <1>2 DEF Next
  <2>2. CASE RowApplied
    BY <2>1, <2>2, RowAppliedKeeps
  <2>3. CASE Register
    BY <2>1, <2>3, RegisterKeeps
  <2>4. CASE CaughtUp
    BY <2>1, <2>4, CaughtUpKeeps
  <2>5. CASE deleteConsumer \/ \E from \in {"earliest-retained", "head"} : resetConsumer(from)
    BY <2>1, <2>5, ResetKeeps
  <2>6. CASE Rebased \/ \E covers \in Covers : CertAccepted(covers)
    BY <2>1, <2>6, CertKeeps
  <2>7. CASE Age \/ Reopen \/ (\E rows \in SUBSET Rows : Prune(rows))
             \/ \E r \in Rows : RowDeleted(r)
    BY <2>1, <2>7, RowsGoKeeps
  <2>8. CASE Close \/ Crash
    BY <2>1, <2>8, EndKeeps
  <2>9. ASSUME NEW i \in Ids, Drain(i) \/ Unsubscribe(i) PROVE Inv'
    <3>1. CASE CallbackResolves(i) \/ CallbackFails(i)
      BY <2>1, <3>1, DrainEndsKeeps, CallbackResolvesKeeps
    <3>2. CASE Advance(i)
      BY <2>1, <3>2, AdvanceKeeps
    <3>3. CASE Finish(i)
      BY <2>1, <3>3, FinishKeeps
    <3>4. CASE RetryTimer(i)
      BY <2>1, <3>4, RetryTimerKeeps
    <3>5. CASE Unsubscribe(i)
      BY <2>1, <3>5, UnsubscribeKeeps
    <3> QED BY <2>9, <3>1, <3>2, <3>3, <3>4, <3>5 DEF Drain
  <2> QED BY <1>2, <2>2, <2>3, <2>4, <2>5, <2>6, <2>7, <2>8, <2>9 DEF Next
<1> QED BY <1>1, <1>2

\* The inductive invariant of a consumer.
THEOREM ConsumerInvariant == Spec => []Inv
BY InitInv, NextInv, PTL DEF Spec

\* The durable cursor never passes a row of the hot log whose callback has not
\* completed, through failures, re-registrations, crashes, rewinds, archiving
\* and abandonment, for every batch size (drainInner advances the cursor only
\* after the callback resolves), if no unsubscribe function is called twice.
THEOREM CursorIsSound == Spec /\ []Once => []CursorSound
<1>1. Inv /\ Once => CursorSound
  BY DEF Inv, CursorInv, CursorSound
<1> QED BY <1>1, ConsumerInvariant, PTL
\* Only a callback that resolves takes a waiter away from a registration that
\* stays: what the other steps do to the waiters.
LEMMA WaitersStay ==
  ASSUME Inv, Next, NEW i \in Ids, NEW t \in regs[i].waiters,
         t \notin regs'[i].waiters, ~regs'[i].gone, regs'[i].pc # "none"
  PROVE  CallbackResolves(i) /\ ~regs[i].gone
<1>1. regs \in [Ids -> Registration] /\ regs[i] \in Registration
  BY DEF Inv, TypeOK
<1>2. regs'[i] # regs[i]
  OBVIOUS
<1>3. \A at, held : pump(regs[i], at, held).waiters = regs[i].waiters
  <2> SUFFICES ASSUME NEW at, NEW held PROVE pump(regs[i], at, held).waiters = regs[i].waiters
    OBVIOUS
  <2> QED BY <1>1 DEF pump, drainInner, Return, Registration
<1>4. CASE RowApplied
  BY <1>1, <1>3, <1>4 DEF RowApplied
<1>5. CASE Register
  <2>1. i # used + 1 /\ i \in Nat /\ used \in Nat
    BY RegType, IdPositive DEF Inv, TypeOK
  <2> QED BY <1>1, <1>2, <1>5, <2>1 DEF Register
<1>6. CASE CaughtUp
  BY <1>1, <1>6 DEF CaughtUp, Registration
<1>7. CASE Close
  BY <1>1, <1>7 DEF Close, Registration
<1>8. CASE Crash
  BY <1>8 DEF Crash, Unmade
<1>9. CASE \/ deleteConsumer \/ \E from \in {"earliest-retained", "head"} : resetConsumer(from)
           \/ Rebased \/ \E covers \in Covers : CertAccepted(covers)
           \/ Age \/ Reopen \/ (\E rows \in SUBSET Rows : Prune(rows))
           \/ \E r \in Rows : RowDeleted(r)
  BY <1>2, <1>9 DEF deleteConsumer, resetConsumer, Rebased, CertAccepted, Age, Reopen, Prune,
     RowDeleted
<1>10. ASSUME NEW j \in Ids, Drain(j) \/ Unsubscribe(j)
       PROVE  CallbackResolves(i) /\ ~regs[i].gone
  <2>1. CASE Unsubscribe(j)
    BY <1>1, <2>1 DEF Unsubscribe, Registration
  <2>2. CASE CallbackFails(j) \/ (CallbackResolves(j) /\ regs[j].gone)
    <3> DEFINE e == Return(regs[j])
    <3>1. \/ regs' = [regs EXCEPT ![j] = e]
          \/ regs' = [regs EXCEPT ![j] = [e EXCEPT !.timer = TRUE]]
      BY <2>2 DEF CallbackFails, CallbackResolves
    <3>2. e \in Registration /\ e.waiters = regs[j].waiters
      BY <1>1, ReturnKeeps
    <3> HIDE DEF e
    <3>3. [e EXCEPT !.timer = TRUE].waiters = e.waiters
      BY <3>2 DEF Registration
    <3>4. regs'[i].waiters = regs[i].waiters
      BY <1>1, <3>1, <3>2, <3>3
    <3> QED BY <3>4
  <2>3. CASE CallbackResolves(j) /\ ~regs[j].gone
    <3>1. j = i
      BY <1>1, <1>2, <2>3 DEF CallbackResolves
    <3> QED BY <2>3, <3>1
  <2>4. CASE Advance(j)
    BY <1>1, <2>4 DEF Advance, Registration
  <2>5. CASE Finish(j)
    BY <1>1, <2>5 DEF Finish, pump, drainInner, Return, Registration
  <2>6. CASE RetryTimer(j)
    BY <1>1, <2>6 DEF RetryTimer, pump, drainInner, Return, Registration
  <2> QED BY <1>10, <2>1, <2>2, <2>3, <2>4, <2>5, <2>6 DEF Drain
<1> QED BY <1>4, <1>5, <1>6, <1>7, <1>8, <1>9, <1>10 DEF Next
\* caughtUp does not lie, for every batch size, while rows are appended, rewound
\* and archived under a suspended drain: when drainInner resolves a waiter, every
\* held row through the head it was given has completed its callback.
THEOREM CaughtUpIsTruthful == Spec /\ []Once => CaughtUpTruthful
<1> DEFINE Truthful ==
             \A i \in Ids : \A t \in regs[i].waiters :
               t \notin regs'[i].waiters /\ ~regs'[i].gone /\ regs'[i].pc # "none"
               => \A r \in log : r <= t => r \in completed'
<1>1. Inv /\ Once /\ [Next]_vars => [Truthful]_vars
  <2> SUFFICES ASSUME Inv, Once, Next, NEW i \in Ids, NEW t \in regs[i].waiters,
                      t \notin regs'[i].waiters, ~regs'[i].gone, regs'[i].pc # "none",
                      NEW r \in log, r <= t
               PROVE  r \in completed'
    OBVIOUS
  <2>1. CallbackResolves(i) /\ ~regs[i].gone
    BY WaitersStay
  <2> DEFINE c == regs[i]
             row == CHOOSE q \in c.batch : \A p \in c.batch : q <= p
             next == [c EXCEPT !.advanced = TRUE, !.batch = @ \ {row},
                               !.waiters = Unreached(@, row)]
             d == IF next.batch # {} THEN next ELSE drainInner(next, row, log)
  <2>2. c.pc = "calling" /\ completed' = completed \cup {row} /\ regs' = [regs EXCEPT ![i] = d]
    BY <2>1 DEF CallbackResolves
  <2>3. row \in 1..top /\ \A q \in log : q <= row => q \in completed \cup {row}
    BY <2>1, <2>2, LeastRow
  <2>4. c \in Registration /\ regs \in [Ids -> Registration]
    BY DEF Inv, TypeOK
  <2> HIDE DEF row
  <2>5. next.waiters = Unreached(c.waiters, row)
    BY <2>4 DEF Registration
  <2>6. drainInner(next, row, log).waiters = next.waiters
    <3>1. next \in [pc : {"none", "idle", "calling", "advance", "finish"}, gone : BOOLEAN,
                    rerun : BOOLEAN, timer : BOOLEAN, advanced : BOOLEAN, old : BOOLEAN,
                    batch : SUBSET Rows, waiters : SUBSET Rows]
      <4>1. Unreached(c.waiters, row) \in SUBSET Rows /\ c.batch \ {row} \in SUBSET Rows
        BY <2>4 DEF Unreached, Registration
      <4> QED BY <2>4, <4>1 DEF Registration
    <3> HIDE DEF next
    <3> QED BY <3>1 DEF drainInner, Return
  <2>7. d.waiters = Unreached(c.waiters, row)
    <3> HIDE DEF next
    <3> QED BY <2>5, <2>6
  <2>8. t \notin Unreached(c.waiters, row)
    <3> HIDE DEF d
    <3> QED BY <2>2, <2>4, <2>7
  <2>9. t \in Nat /\ row \in Nat /\ r \in Nat
    BY <2>3, <2>4, Position DEF Registration, Rows
  <2>10. t <= row
    BY <2>8, <2>9 DEF Unreached
  <2> QED BY <2>2, <2>3, <2>9, <2>10
<1> QED BY <1>1, ConsumerInvariant, PTL DEF Spec, CaughtUpTruthful

\* The archiver waits for a consumer with a fresh cursor row, and unless it ages
\* a registered consumer always has one: a row moves to sq_archive only after its
\* callback completed (archive.ts archiveNow, consume.ts onEntry).
THEOREM ArchiverWaits == Spec /\ []Once => ArchiveWaits
<1> DEFINE Waits ==
             ~stale /\ (cursor' # {} \/ (reg # 0 /\ "age" \notin hazards))
             => archived' \ archived \subseteq completed
<1>1. Inv /\ Once /\ [Next]_vars => [Waits]_vars
  <2> SUFFICES ASSUME Inv, Once, Next, ~stale,
                      cursor' # {} \/ (reg # 0 /\ "age" \notin hazards),
                      NEW r \in archived' \ archived
               PROVE  r \in completed
    OBVIOUS
  <2>1. archiveNow(cursor) \/ (archiveNow({}) /\ reg = 0)
    BY DEF Next, RowApplied, Register, CaughtUp, deleteConsumer, Rebased, Age, Close, Reopen,
       Crash, resetConsumer, CertAccepted, Prune, RowDeleted, Drain, CallbackResolves,
       CallbackFails, Advance, Finish, RetryTimer, Unsubscribe, durable
  <2>2. TypeOK
    BY DEF Inv
  <2>3. cursor' = cursor /\ cursor # {} /\ archiveNow(cursor)
    <3>1. CASE archiveNow(cursor)
      BY <2>2, <3>1, ArchiveMoves DEF Inv, FreshInv
    <3>2. CASE archiveNow({}) /\ reg = 0
      BY <2>2, <3>2, ArchiveMoves
    <3> QED BY <2>1, <3>1, <3>2
  <2>4. r \in log /\ \A n \in cursor : r <= n
    BY <2>2, <2>3, ArchiveMoves
  <2>5. cursorGet(cursor) \in cursor
    BY <2>3 DEF cursorGet
  <2> QED BY <2>4, <2>5 DEF Inv, CursorInv
<1> QED BY <1>1, ConsumerInvariant, PTL DEF Spec, ArchiveWaits
================================================================================
