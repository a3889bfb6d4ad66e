-------------------------------- MODULE Views --------------------------------
(***************************************************************************)
(* Materialized views (views.ts): one view of one topic, the checkpoints   *)
(* it persists, its table and the mirror its change events maintain, over  *)
(* a hot log that receives rows in any order, quarantines, archives and    *)
(* adopts (log.ts, archive.ts, snapshot.ts).                               *)
(*                                                                         *)
(* Rows are numbered by their canonical order, 0 being no order.  A row    *)
(* puts or deletes one key.  The reducer is free: a state is the sequence  *)
(* of rows folded into it.  The host's delta agrees with its rows().       *)
(* rowCache is the table itself; FTS mirrors, ring tails and row           *)
(* validation are left out.                                                *)
(***************************************************************************)
EXTENDS Integers, Sequences, FiniteSets, SequencesExt, FiniteSetsExt, Functions

CONSTANTS
  MaxOrder,          \* rows 1 .. MaxOrder
  Key, Effect,       \* Effect[o] = [key, del]
  Cut, Cover,        \* the certificate: its order, and the rows up to it that it covers
  Delta,             \* which of TRUE, FALSE: does the view define a delta
  FOLD_BATCH, CHECKPOINT_EVERY,
  Bounds,            \* [fault, rebuild, restart, upgrade, torn, archive, install]: how often each
  Budget             \* may happen, and how often all of them together

ASSUME Constants ==
  /\ MaxOrder \in Nat /\ Effect \in [1..MaxOrder -> [key : Key, del : BOOLEAN]]
  /\ Cut \in 0..MaxOrder /\ Cover \subseteq 1..Cut
  /\ Delta \subseteq BOOLEAN
  /\ FOLD_BATCH \in Nat \ {0} /\ CHECKPOINT_EVERY \in Nat \ {0}

VARIABLES
  log,      \* sq_log: a set of [r, o], rowid and order
  next,     \* its next rowid
  cold,     \* rows archived, or adopted with a snapshot
  gone,     \* rows quarantined by the certificate
  cert,     \* the certificate is accepted
  ckpts,    \* sq_checkpoints: a set of [ord, state]
  inst,     \* the Instance
  table,    \* the view's table: per key the row that put it, or 0
  mirror,   \* the table a subscriber keeps from the change events
  delta,    \* the view defines a delta
  alarm,    \* delta_mismatch was raised
  hidden,   \* history: rows that were kept from the view (see Missed),
  thin,     \* and rows that were kept from a checkpoint
  spent

vars == <<log, next, cold, gone, cert, ckpts, inst, table, mirror, delta, alarm, hidden, thin, spent>>

Row == 1..MaxOrder
Hot == {e.o : e \in log}
\* ORDER BY: the i-th of S has i - 1 below it.
Sorted(S) == [i \in 1..Cardinality(S) |-> CHOOSE o \in S : Cardinality({p \in S : p < o}) = i - 1]
Orders(l, a, b) == {e.o : e \in {f \in l : a < f.o /\ f.o <= b}}
After(l, o) == Sorted(Orders(l, o, MaxOrder))   \* entriesAfterOrder
MaxRowid == Max({e.r : e \in log} \cup {0})
Pay(ks) ==
  /\ \A k \in ks : spent[k] < Bounds[k]
  /\ SumFunction(spent) + Cardinality(ks) <= Budget
  /\ spent' = [k \in DOMAIN spent |-> IF k \in ks THEN spent[k] + 1 ELSE spent[k]]

\* The host's rows(): what a state shows of each key.
rows(s) == [k \in Key |->
  LET n == SelectLastInSeq(s, LAMBDA o : Effect[o].key = k)
  IN IF n = 0 THEN 0 ELSE IF Effect[s[n]].del THEN 0 ELSE s[n]]

--------------------------------------------------------------------------------
(* Checkpoints *)

NoCkpt == [ord |-> 0, state |-> << >>]     \* the reducer's init
Puts(cs, c) == {d \in cs : d.ord # c.ord} \cup {c}

checkpointBefore(cs, o) ==
  LET s == {c \in cs : c.ord < o} IN
  IF s = {} THEN NoCkpt ELSE CHOOSE c \in s : \A d \in s : d.ord <= c.ord

earliestCheckpoint(cs) ==
  IF cs = {} THEN NoCkpt ELSE CHOOSE c \in cs : \A d \in cs : c.ord <= d.ord

\* The state exactly at o, from the nearest checkpoint.
stateAt(l, o) ==
  LET c == checkpointBefore(ckpts, o + 1)
  IN c.state \o Sorted(Orders(l, c.ord, o))

\* The rows a fold that starts from c can never reach: the hot ones behind c
\* and the archived ones, unless c has them.
Missed(c) == ({o \in Hot : o <= c.ord} \cup cold) \ Range(c.state)

--------------------------------------------------------------------------------
(* Folding.  x = [state, ord, since, ckpts, table, mirror, alarm] *)

Start(c, cs) ==
  [state |-> c.state, ord |-> c.ord, since |-> 0, ckpts |-> cs,
   table |-> table, mirror |-> mirror, alarm |-> alarm]

Current == [Start([ord |-> inst.ord, state |-> inst.state], ckpts) EXCEPT !.since = inst.since]

applyDelta(t, o) == [t EXCEPT ![Effect[o].key] = IF Effect[o].del THEN 0 ELSE o]

\* rows() is authoritative: a table that differs is rewritten and the epoch reset.
verifyDelta(x) ==
  LET t == rows(x.state) IN
  IF ~delta \/ x.table = t THEN x
  ELSE [x EXCEPT !.table = t, !.mirror = t, !.alarm = TRUE]

checkpoint(x) ==
  verifyDelta([x EXCEPT !.since = 0, !.ckpts = Puts(@, [ord |-> x.ord, state |-> x.state])])

reduce(x, o) ==
  LET y == [x EXCEPT !.state = Append(@, o), !.ord = o, !.since = @ + 1]
  IN IF y.since >= CHECKPOINT_EVERY THEN checkpoint(y) ELSE y

\* The loops of refoldFrom and materialize; d: the delta goes to the table row by row.
FoldRows(x, s, d) ==
  FoldLeft(LAMBDA y, o : reduce(IF d THEN [y EXCEPT !.table = applyDelta(@, o)] ELSE y, o), x, s)
Fold(x, s) == FoldRows(x, s, FALSE)
FoldDelta(x, s) == FoldRows(x, s, delta)

schedule(i) == IF i.faulted THEN i ELSE [i EXCEPT !.scheduled = TRUE]
fault(i) == [i EXCEPT !.faulted = TRUE]

Becomes(x, i) ==
  /\ inst' = [i EXCEPT !.state = x.state, !.ord = x.ord, !.since = x.since]
  /\ ckpts' = x.ckpts /\ table' = x.table /\ mirror' = x.mirror /\ alarm' = x.alarm

\* rewriteTable and the reset event.
refolded(x) == [x EXCEPT !.table = rows(x.state), !.mirror = rows(x.state)]

\* Refold the hot log from checkpoint c, with cs stored, leaving instance i.  A
\* failure after n rows faults the view and leaves instance j; the rows that are
\* left are then kept from it.
refoldFrom(c, cs, i, j, ks) ==
  LET s == After(log, c.ord) IN
  \/ /\ Pay(ks)
     /\ Becomes(refolded(Fold(Start(c, cs), s)), i)
     /\ hidden' = hidden \cup Missed(c)
  \/ \E n \in 0..Len(s) :
       /\ Pay(ks \cup {"fault"})
       /\ Becomes(Fold(Start(c, cs), SubSeq(s, 1, n)), fault(j))
       /\ hidden' = hidden \cup Missed(c) \cup Range(SubSeq(s, n + 1, Len(s)))

--------------------------------------------------------------------------------
(* The instance's timer *)

\* The timer of schedule fires.  The loop is synchronous: nothing else runs
\* until it ends.
materialize ==
  /\ ~inst.running /\ inst.scheduled
  /\ inst' = [inst EXCEPT !.scheduled = FALSE, !.running = ~inst.faulted]
  /\ UNCHANGED <<log, next, cold, gone, cert, ckpts, table, mirror, delta, alarm, hidden, thin, spent>>

\* entriesForTopicFromRowid
Pending == {e \in log : e.r > inst.lastRowid}
Batch == {e \in Pending : Cardinality({f \in Pending : f.r < e.r}) < FOLD_BATCH}
BatchEnd == Max({e.r : e \in Batch})
First == Min({e.o : e \in Batch})

settled ==
  /\ inst.running /\ Batch = {}
  /\ inst' = [inst EXCEPT !.running = FALSE]
  /\ UNCHANGED <<log, next, cold, gone, cert, ckpts, table, mirror, delta, alarm, hidden, thin, spent>>

\* Mutant of Late: only the last row of a batch is looked at.
Late_Last == Max({e.o : e \in Batch}) <= inst.ord

Late == First <= inst.ord

\* Mutant of kept: checkpoints past the restore point survive.
kept_All(c) == ckpts

\* deleteCheckpoints, then the restore point is put back.
kept(c) == ckpts \cap {c}

\* A late arrival below the watermark.
recompute ==
  /\ inst.running /\ Batch # {} /\ Late
  /\ LET c == checkpointBefore(ckpts, First)
         i == [inst EXCEPT !.lastRowid = BatchEnd]
     IN refoldFrom(c, kept(c), i, i, {})
  /\ UNCHANGED <<log, next, cold, gone, cert, delta, thin>>

\* What a subscriber makes of the batch's aggregated change: upserts, then deletes.
Patched(x, s) ==
  LET put(k) == SelectLastInSeq(s, LAMBDA o : Effect[o].key = k /\ ~Effect[o].del)
      del(k) == \E o \in Range(s) : Effect[o].key = k /\ Effect[o].del
  IN IF delta
     THEN [k \in Key |-> IF del(k) THEN 0 ELSE IF put(k) = 0 THEN x.mirror[k] ELSE s[put(k)]]
     ELSE [k \in Key |-> IF rows(x.state)[k] = table[k] THEN x.mirror[k] ELSE rows(x.state)[k]]

\* Mutant of synced: the table only gains rows.
synced_Upserts(x) == IF delta THEN x.table ELSE [k \in Key |->
  IF rows(x.state)[k] = 0 THEN x.table[k] ELSE rows(x.state)[k]]

\* diffSyncTable
synced(x) == IF delta THEN x.table ELSE rows(x.state)

foldBatch ==
  /\ inst.running /\ Batch # {} /\ ~Late
  /\ LET s == Sorted({e.o : e \in Batch})
         x == FoldDelta(Current, s)
     IN Becomes([x EXCEPT !.table = synced(x), !.mirror = Patched(x, s)],
                [inst EXCEPT !.lastRowid = BatchEnd])
  /\ UNCHANGED <<log, next, cold, gone, cert, delta, hidden, thin, spent>>

\* The reducer, the delta or the table write throws: the transaction rolls
\* back, the instance in memory does not.
foldFails ==
  /\ inst.running /\ Batch # {} /\ ~Late /\ Pay({"fault"})
  /\ LET s == Sorted({e.o : e \in Batch})
     IN \E n \in 0..Len(s) :
          LET x == FoldDelta(Current, SubSeq(s, 1, n))
          IN Becomes([x EXCEPT !.ckpts = ckpts, !.table = table],
                     [inst EXCEPT !.faulted = TRUE, !.running = FALSE])
  /\ UNCHANGED <<log, next, cold, gone, cert, delta, hidden, thin>>

--------------------------------------------------------------------------------
(* The rest of the hub *)

rebuilt(i) == [i EXCEPT !.lastRowid = MaxRowid, !.faulted = FALSE]

rebuild ==
  /\ ~inst.running
  /\ LET c == earliestCheckpoint(ckpts)
     IN refoldFrom(c, kept(c), rebuilt(inst), rebuilt(inst), {"rebuild"})
  /\ UNCHANGED <<log, next, cold, gone, cert, delta, thin>>

Opened == [state |-> << >>, ord |-> 0, since |-> 0, lastRowid |-> MaxRowid,
           faulted |-> FALSE, scheduled |-> FALSE, running |-> FALSE]

\* The rows that were still to be folded and that a checkpoint of cs has passed.
Skipped(cs) == UNION {{o \in {e.o : e \in Pending} : o <= c.ord} \ Range(c.state) : c \in cs}

\* register and restore, with cs stored; the new instance schedules a pass
\* unless restoring it failed.  It starts at the newest rowid: a checkpoint that
\* a late row would have dropped stays.
Opens(cs, k) ==
  /\ refoldFrom(checkpointBefore(cs, MaxOrder + 1), cs, schedule(Opened), Opened, {k})
  /\ thin' = thin \cup Skipped(cs)
  /\ UNCHANGED <<log, next, cold, gone, cert, delta>>

\* The process ends, between two batches or elsewhere, and registers the view again.
restart == Opens(ckpts, "restart")
\* ... with a new version of the view: its checkpoints are dropped.
upgrade == Opens({}, "upgrade")
\* ... in recomputeFrom, between deleteCheckpoints and checkpointPut.
torn == inst.running /\ Batch # {} /\ Late /\ Opens({}, "torn")

--------------------------------------------------------------------------------
(* What happens to the log *)

Init ==
  /\ log = {} /\ next = 1 /\ cold = {} /\ gone = {} /\ cert = FALSE /\ ckpts = {}
  /\ inst = schedule([state |-> << >>, ord |-> 0, since |-> 0, lastRowid |-> 0,
                      faulted |-> FALSE, scheduled |-> FALSE, running |-> FALSE])
  /\ table = rows(<< >>) /\ mirror = table
  /\ delta \in Delta /\ alarm = FALSE /\ hidden = {} /\ thin = {}
  /\ spent = [k \in DOMAIN Bounds |-> 0]

\* A row is flushed; setOnApplied notifies the hub.
apply(o) ==
  /\ ~inst.running /\ o \notin Hot \cup cold \cup gone
  /\ cert => o > Cut \/ o \in Cover
  /\ log' = log \cup {[r |-> next, o |-> o]} /\ next' = next + 1
  /\ inst' = schedule(inst)
  /\ UNCHANGED <<cold, gone, cert, ckpts, table, mirror, delta, alarm, hidden, thin, spent>>

rebased(l) == {c \in Puts(ckpts, [ord |-> Cut, state |-> stateAt(l, Cut)]) : c.ord >= Cut}

\* The certificate is accepted: uncovered rows up to the cut are quarantined,
\* the hub is notified, and the view rebased unless it is faulted.
acceptCert ==
  /\ Cut > 0 /\ ~cert /\ ~inst.running
  /\ LET l == {e \in log : e.o <= Cut => e.o \in Cover} IN
     /\ cert' = TRUE /\ log' = l /\ gone' = {e.o : e \in log \ l}
     /\ inst' = schedule(inst)
     /\ IF inst.faulted THEN UNCHANGED <<ckpts, thin>>
        ELSE /\ ckpts' = rebased(l)
             /\ thin' = thin \cup (Cover \ Hot) \cup Missed(checkpointBefore(ckpts, Cut + 1))
  /\ UNCHANGED <<next, cold, table, mirror, delta, alarm, hidden, spent>>

\* Rebasing throws.
rebaseFails ==
  /\ Cut > 0 /\ ~cert /\ ~inst.running /\ ~inst.faulted /\ Pay({"fault"})
  /\ LET l == {e \in log : e.o <= Cut => e.o \in Cover} IN
     cert' = TRUE /\ log' = l /\ gone' = {e.o : e \in log \ l}
  /\ inst' = fault(schedule(inst))
  /\ UNCHANGED <<next, cold, ckpts, table, mirror, delta, alarm, hidden, thin>>

\* archiveNow moves the covered rows that every consumer has passed (rowid <= m).
archive(m) ==
  /\ cert /\ ~inst.running
  /\ LET moved == {e \in log : e.o \in Cover /\ e.r <= m} IN
     /\ moved # {} /\ Pay({"archive"})
     /\ log' = log \ moved /\ cold' = cold \cup {e.o : e \in moved}
     /\ hidden' = hidden \cup ({e.o : e \in {f \in moved : f.r > inst.lastRowid}}
                                 \ Range(inst.state))
  /\ UNCHANGED <<next, gone, cert, ckpts, inst, table, mirror, delta, alarm, thin>>

\* A snapshot is adopted, with this view's state at the cut or without it.
installState(has) ==
  /\ cert /\ ~inst.running /\ ~(Cover \subseteq Hot \cup cold) /\ Pay({"install"})
  /\ LET s == IF has THEN Sorted(Cover) ELSE << >> IN
     /\ ckpts' = Puts(ckpts, [ord |-> Cut, state |-> s])
     /\ inst' = [inst EXCEPT !.state = s, !.ord = Cut, !.since = 0, !.faulted = FALSE,
                             !.lastRowid = MaxRowid]
     /\ table' = rows(s) /\ mirror' = rows(s)
     /\ hidden' = hidden \cup {o \in Hot : o > Cut} \cup (Cover \ Range(s))
     /\ thin' = thin \cup UNION {(1..c.ord) \ Range(c.state) : c \in ckpts}
  /\ cold' = cold \cup (Cover \ Hot)
  /\ UNCHANGED <<log, next, gone, cert, delta, alarm>>

Next ==
  \/ materialize \/ settled \/ recompute \/ foldBatch \/ foldFails
  \/ rebuild \/ restart \/ upgrade \/ torn
  \/ \E o \in Row : apply(o)
  \/ acceptCert \/ rebaseFails
  \/ \E m \in 1..MaxRowid : archive(m)
  \/ \E has \in BOOLEAN : installState(has)

Spec == Init /\ [][Next]_vars

--------------------------------------------------------------------------------
(* Properties *)

Increasing(s) == \A i \in 1..Len(s), j \in 1..Len(s) : i < j => s[i] < s[j]

\* What the view has to show: the hot and the archived rows, less those kept from it.
Shown == (Hot \cup cold) \ hidden

\* The instance, its checkpoints and its table have their types, and a batch
\* never leaves CHECKPOINT_EVERY rows without a checkpoint.
TypeOK ==
  /\ \A e \in log : e.r \in 1..(next - 1) /\ e.o \in Row
  /\ cold \cup gone \cup hidden \subseteq Row
  /\ \A c \in ckpts : c.ord \in Row /\ c.state \in Seq(Row)
  /\ inst.state \in Seq(Row) /\ inst.ord \in 0..MaxOrder /\ inst.lastRowid \in 0..(next - 1)
  /\ inst.since \in 0..(CHECKPOINT_EVERY - 1)
  /\ table \in [Key -> 0..MaxOrder] /\ mirror \in [Key -> 0..MaxOrder]

\* views.ts 310-384: a row the view has not folded never waits without a timer.
NoLostWakeup == Pending # {} => inst.scheduled \/ inst.running \/ inst.faulted

\* views.ts 333-407: whatever order rows arrived in, a view at rest has folded
\* every row it has to show, once, in canonical order, and no other row but
\* ones since quarantined.
ViewIsFold ==
  /\ Increasing(inst.state)
  /\ Pending = {} /\ ~inst.running /\ ~inst.faulted =>
       Shown \subseteq Range(inst.state) /\ Range(inst.state) \subseteq Hot \cup cold \cup gone

\* views.ts 436-447: a stored checkpoint is the fold of the rows up to its
\* order that the view has seen; refolding from it loses and repeats nothing.
CheckpointsSound ==
  \A c \in ckpts :
    /\ Increasing(c.state) /\ \A o \in Range(c.state) : o <= c.ord
    /\ {o \in Shown \ thin : o <= c.ord /\ \A e \in Pending : e.o # o} \subseteq Range(c.state)

\* On a state of its type, no row waits without a timer and every checkpoint is the
\* fold it claims to be, through late rows, certificates, archiving and restarts.
FoldSound == TypeOK /\ NoLostWakeup /\ CheckpointsSound

\* views.ts 475-519: the table a query reads is rows() of the folded state.
TableIsRows == ~inst.faulted => table = rows(inst.state)

\* views.ts 575-578: change events keep a subscriber's copy equal to the table,
\* for a view without delta.
MirrorIsTable == ~delta /\ ~inst.faulted => mirror = table

\* views.ts 475-578: what queries and subscribers see is rows() of the folded state.
TablesAgree == TableIsRows /\ MirrorIsTable

(* What the comments and SPEC.md say, which ViewRestart.cfg and its siblings refute *)

\* views.ts 76-78: the fold a close or a crash deferred is recovered on the next open.
ViewComplete ==
  Pending = {} /\ ~inst.running /\ ~inst.faulted => Hot \cup cold \subseteq Range(inst.state)

\* node.ts 395: a view is recomputed when a certificate rewrote covered history.
ViewClean == Pending = {} /\ ~inst.running /\ ~inst.faulted => Range(inst.state) \cap gone = {}

\* SPEC.md 449-452: the deltas of a view with delta keep a subscriber's copy exact.
MirrorAlways == ~inst.faulted => mirror = table

\* views.ts 449: a delta that agrees with rows() is never reported.
NoFalseAlarm == ~alarm
================================================================================
