------------------------------ MODULE GroupCommit ------------------------------
(***************************************************************************)
(* Group commit (log.ts push, flush, close) of a writer's own register     *)
(* writes to one key, among entries of other writers: the queue, the       *)
(* transaction and its rollback, the promises, the hybrid clock (hlc.ts),  *)
(* and the causal edge that register.ts stamps inside the transaction.     *)
(*                                                                         *)
(* flush is one synchronous call; its parts are steps here, so that a      *)
(* crash or a storage failure can fall between any two of them, and step   *)
(* keeps everything else out while it runs.                                *)
(***************************************************************************)
EXTENDS Integers, Sequences

CONSTANTS
  MaxItems,      \* bound on the items queued
  MaxTime,       \* bound on the wall clock, which may run backwards
  HLC_C_LIMIT,
  Remote,        \* hybrid timestamps of other writers' entries
  HLC_EPSILON,
  Faults         \* the sets of faults a behaviour may have: "invalid" (validateEntry
                 \* rejects an own entry), "crash" (the process dies and opens the
                 \* store again)

ASSUME CommitAssumption ==
  /\ MaxItems \in Nat /\ MaxTime \in Nat /\ HLC_C_LIMIT \in Nat \ {0}
  /\ Remote \subseteq [l : Nat, c : Nat] /\ HLC_EPSILON \in Nat
  /\ Faults \subseteq SUBSET {"invalid", "crash"}

VARIABLES
  disk,      \* the committed store: own rows, own head, saved clock
  work,      \* the store as the running transaction sees it
  heads,     \* cached contigSeq of the own stream: {} or {n}
  hlcState,
  scopeTail, \* register.ts scopeTails for the key: {} or {seq}
  winner,    \* register.ts materialized winner of the key: {} or {seq}
  scheduled, \* a materialize pass is scheduled
  saved,     \* flush's snapshots: [hlc, tail]
  queue, flushTimer,
  pushed,    \* number of items pushed, which are their ids
  batch,     \* items of the running flush still to process
  flushing,  \* ids of the running flush
  staged,    \* its settle list: [id, ok, seq]; seq = 0 but for an append that resolves
  acked,     \* settlements of the promises resolved
  rejected,  \* ids of promises rejected
  step,      \* "idle", "running" or "committed"
  phase,     \* "open", "closing" (close awaits flushNow) or "closed"
  faults     \* the faults of this behaviour, chosen at the start

memory == <<heads, hlcState, scopeTail>>
promises == <<acked, rejected>>
flushVars == <<saved, batch, flushing, staged>>
vars == <<disk, work, memory, winner, scheduled, queue, flushTimer, pushed,
          flushVars, promises, step, phase, faults>>

Hlc == [l : Nat, c : Nat]
Row == [seq : Nat \ {0}, hlc : Hlc, causal : {{}} \cup {{n} : n \in 1..MaxItems}]
Item == [id : 1..MaxItems, kind : {"append", "external"}]
Settlement == [id : 1..MaxItems, ok : BOOLEAN, seq : 0..MaxItems]
Ids(items) == {items[k].id : k \in DOMAIN items}

TypeOK ==
  /\ \A s \in {disk, work} : s.rows \in Seq(Row) /\ s.head \in Nat /\ s.hlc \in Hlc
  /\ heads \in {{}, {work.head}} /\ (step # "running" => work = disk)
  /\ hlcState \in Hlc /\ saved.hlc \in Hlc
  /\ queue \in Seq(Item) /\ batch \in Seq(Item) /\ flushing \subseteq 1..pushed
  /\ flushTimer \in BOOLEAN /\ scheduled \in BOOLEAN /\ pushed \in 0..MaxItems
  /\ staged \subseteq Settlement /\ acked \subseteq Settlement /\ rejected \subseteq 1..pushed
  /\ step \in {"idle", "running", "committed"}
  /\ phase \in {"open", "closing", "closed"} /\ faults \in Faults

Zero == [l |-> 0, c |-> 0]

Init ==
  /\ disk = [rows |-> << >>, head |-> 0, hlc |-> Zero] /\ work = disk
  /\ heads = {} /\ hlcState = Zero /\ scopeTail = {} /\ winner = {}
  /\ scheduled = FALSE /\ saved = [hlc |-> Zero, tail |-> {}]
  /\ queue = << >> /\ flushTimer = FALSE /\ pushed = 0
  /\ batch = << >> /\ flushing = {} /\ staged = {}
  /\ acked = {} /\ rejected = {} /\ step = "idle" /\ phase = "open"
  /\ faults \in Faults

--------------------------------------------------------------------------------
(* The hybrid clock *)

\* stamp; a c that reaches HLC_C_LIMIT is an error.
stamp(state, pt) ==
  IF pt > state.l THEN [l |-> pt, c |-> 0] ELSE [l |-> state.l, c |-> state.c + 1]

hlcCompare(h, g) == h.l < g.l \/ (h.l = g.l /\ h.c < g.c)

\* merge: one more than the greatest c among the clocks at the greatest l, with
\* a carry into l.
merge(state, remote, pt) ==
  LET top == CHOOSE n \in {state.l, remote.l, pt} :
               \A m \in {state.l, remote.l, pt} : m <= n
      cs == {h.c + 1 : h \in {g \in {state, remote} : g.l = top}}
      c == IF cs = {} THEN 0 ELSE CHOOSE n \in cs : \A m \in cs : m <= n
  IN IF c >= HLC_C_LIMIT THEN [l |-> top + 1, c |-> 0] ELSE [l |-> top, c |-> c]

isOverEpsilon(remote, pt) == remote.l > pt + HLC_EPSILON

--------------------------------------------------------------------------------
(* The queue *)

\* append, applyExternal: push, and schedule a flush.
push(kind) ==
  /\ step = "idle" /\ phase # "closed" /\ pushed < MaxItems
  /\ pushed' = pushed + 1
  /\ queue' = Append(queue, [id |-> pushed + 1, kind |-> kind])
  /\ flushTimer' = TRUE
  /\ UNCHANGED <<disk, work, memory, winner, scheduled, flushVars, promises, step, phase>>

\* The start of flush: take the queue, snapshot the side state.
TakeBatch ==
  /\ flushTimer' = FALSE
  /\ IF queue = << >> THEN UNCHANGED <<queue, flushVars, step>>
     ELSE /\ queue' = << >> /\ batch' = queue /\ flushing' = Ids(queue)
          /\ staged' = {} /\ step' = "running"
          /\ saved' = [hlc |-> hlcState, tail |-> scopeTail]
  /\ UNCHANGED <<disk, work, memory, winner, scheduled, pushed, promises>>

flush == step = "idle" /\ flushTimer /\ phase # "closed" /\ TakeBatch /\ UNCHANGED phase

\* close: flushNow, then await.
close == step = "idle" /\ phase = "open" /\ phase' = "closing" /\ TakeBatch

\* Mutant of closeEnd: what was pushed during the await is left in the queue.
closeEnd_Forgets ==
  /\ step = "idle" /\ phase = "closing" /\ phase' = "closed"
  /\ flushTimer' = FALSE
  /\ UNCHANGED <<disk, work, memory, winner, scheduled, queue, pushed, flushVars,
                 promises, step>>

\* close after the await: cancel the flush timer, reject the stragglers; and
\* RegisterHub.close cancels the materialize pass.
closeEnd ==
  /\ step = "idle" /\ phase = "closing" /\ phase' = "closed"
  /\ flushTimer' = FALSE /\ queue' = << >> /\ scheduled' = FALSE
  /\ rejected' = rejected \cup Ids(queue)
  /\ UNCHANGED <<disk, work, memory, winner, pushed, flushVars, acked, step>>

--------------------------------------------------------------------------------
(* The transaction *)

\* getStream: the cached head, or the store's.
getStream == IF heads = {} THEN work.head ELSE CHOOSE n \in heads : TRUE

Settle(id, ok, seq) == staged' = staged \cup {[id |-> id, ok |-> ok, seq |-> seq]}

\* write's causalProvider: the own tail that is not yet materialized, or else
\* the materialized winner.
lastObserved == IF scopeTail # {} THEN scopeTail ELSE winner

\* processAppend.  The causal provider moves the scope tail before the entry is
\* validated.
processAppend(pt, valid) ==
  LET id == Head(batch).id
      seq == getStream + 1
      h == stamp(hlcState, pt)
      row == [seq |-> seq, hlc |-> h, causal |-> lastObserved]
  IN /\ step = "running" /\ batch # << >> /\ Head(batch).kind = "append"
     /\ batch' = Tail(batch)
     /\ \/ /\ h.c >= HLC_C_LIMIT
           /\ Settle(id, FALSE, 0) /\ heads' = {getStream}
           /\ UNCHANGED <<work, hlcState, scopeTail>>
        \/ /\ h.c < HLC_C_LIMIT /\ ~valid
           /\ Settle(id, FALSE, 0) /\ heads' = {getStream}
           /\ hlcState' = h /\ scopeTail' = {seq}
           /\ UNCHANGED work
        \/ /\ h.c < HLC_C_LIMIT /\ valid
           /\ Settle(id, TRUE, seq) /\ heads' = {seq}
           /\ hlcState' = h /\ scopeTail' = {seq}
           /\ work' = [work EXCEPT !.rows = Append(@, row), !.head = seq]
     /\ UNCHANGED <<disk, winner, scheduled, saved, queue, flushTimer, pushed,
                    flushing, promises, step, phase>>

\* processExternal, for an entry that applies: mergeClock, unless the entry is
\* over the epsilon.
processExternal(remote, pt) ==
  /\ step = "running" /\ batch # << >> /\ Head(batch).kind = "external"
  /\ batch' = Tail(batch) /\ Settle(Head(batch).id, TRUE, 0)
  /\ hlcState' = IF isOverEpsilon(remote, pt) THEN hlcState
                 ELSE merge(hlcState, remote, pt)
  /\ UNCHANGED <<disk, work, heads, scopeTail, winner, scheduled, saved, queue,
                 flushTimer, pushed, flushing, promises, step, phase>>

\* Mutant of commit: the clock is not saved with the rows.
commit_NoClock ==
  /\ step = "running" /\ batch = << >> /\ step' = "committed"
  /\ work' = work /\ disk' = work
  /\ UNCHANGED <<memory, winner, scheduled, queue, flushTimer, pushed, flushVars,
                 promises, phase>>

\* The transaction ends with metaSet(hlc) and commits.
commit ==
  /\ step = "running" /\ batch = << >> /\ step' = "committed"
  /\ work' = [work EXCEPT !.hlc = hlcState] /\ disk' = work'
  /\ UNCHANGED <<memory, winner, scheduled, queue, flushTimer, pushed, flushVars,
                 promises, phase>>

\* flush after the commit: settle the promises; onApplied schedules a
\* materialize pass.
settleAll ==
  /\ step = "committed" /\ step' = "idle"
  /\ acked' = acked \cup {s \in staged : s.ok}
  /\ rejected' = rejected \cup {s.id : s \in {r \in staged : ~r.ok}}
  /\ scheduled' = (scheduled \/ \E s \in staged : s.ok)
  /\ flushing' = {} /\ staged' = {}
  /\ UNCHANGED <<disk, work, memory, winner, saved, queue, flushTimer, pushed, batch, phase>>

\* Mutant of rollback: the scope tails are not restored.
rollback_KeepsTail ==
  /\ step = "running" /\ step' = "idle" /\ work' = disk
  /\ heads' = {} /\ hlcState' = saved.hlc /\ scopeTail' = scopeTail
  /\ rejected' = rejected \cup flushing
  /\ batch' = << >> /\ flushing' = {} /\ staged' = {}
  /\ UNCHANGED <<disk, winner, scheduled, saved, queue, flushTimer, pushed, acked, phase>>

\* Mutant of rollback: the settle list runs although nothing was committed.
rollback_Settles ==
  /\ step = "running" /\ step' = "idle" /\ work' = disk
  /\ heads' = {} /\ hlcState' = saved.hlc /\ scopeTail' = saved.tail
  /\ acked' = acked \cup {s \in staged : s.ok}
  /\ rejected' = rejected \cup (flushing \ {s.id : s \in {r \in staged : r.ok}})
  /\ batch' = << >> /\ flushing' = {} /\ staged' = {}
  /\ UNCHANGED <<disk, winner, scheduled, saved, queue, flushTimer, pushed, phase>>

\* The store fails: the transaction rolls back, the caches are dropped, the side
\* state restored and every item of the batch rejected.
rollback ==
  /\ step = "running" /\ step' = "idle" /\ work' = disk
  /\ heads' = {} /\ hlcState' = saved.hlc /\ scopeTail' = saved.tail
  /\ rejected' = rejected \cup flushing
  /\ batch' = << >> /\ flushing' = {} /\ staged' = {}
  /\ UNCHANGED <<disk, winner, scheduled, saved, queue, flushTimer, pushed, acked, phase>>

--------------------------------------------------------------------------------
(* Materialization and restart *)

\* materialize: fold the own rows; the tail shrinks as they materialize.
materialize ==
  /\ step = "idle" /\ scheduled /\ scheduled' = FALSE
  /\ winner' = IF disk.head = 0 THEN winner ELSE {disk.head}
  /\ scopeTail' = {t \in scopeTail : t > disk.head}
  /\ UNCHANGED <<disk, work, heads, hlcState, queue, flushTimer, pushed, flushVars,
                 promises, step, phase>>

\* The process ends, in the middle of anything or after close, and a new one
\* opens the store: the clock comes from the store, the rest starts empty.
Restart ==
  /\ "crash" \in faults /\ pushed < MaxItems
  /\ work' = disk /\ hlcState' = disk.hlc
  /\ heads' = {} /\ scopeTail' = {} /\ winner' = {} /\ scheduled' = FALSE
  /\ queue' = << >> /\ flushTimer' = FALSE
  /\ saved' = [hlc |-> Zero, tail |-> {}] /\ batch' = << >>
  /\ flushing' = {} /\ staged' = {} /\ step' = "idle" /\ phase' = "open"
  /\ UNCHANGED <<disk, pushed, promises>>

\* The next item of the transaction, at any reading of the wall clock.
Process ==
  \E pt \in 0..MaxTime :
    \/ \E valid \in {TRUE, "invalid" \notin faults} : processAppend(pt, valid)
    \/ \E remote \in Remote : processExternal(remote, pt)

Next ==
  /\ \/ \E kind \in {"append", "external"} : push(kind)
     \/ flush \/ close \/ closeEnd \/ Process
     \/ commit \/ settleAll \/ rollback \/ materialize \/ Restart
  /\ UNCHANGED faults

Spec == Init /\ [][Next]_vars

\* Timers fire and a synchronous flush runs to its end.
FairSpec ==
  /\ Spec
  /\ WF_vars(flush /\ UNCHANGED faults) /\ WF_vars(closeEnd /\ UNCHANGED faults)
  /\ WF_vars(Process /\ UNCHANGED faults)
  /\ WF_vars((commit \/ settleAll) /\ UNCHANGED faults)

--------------------------------------------------------------------------------
(* Properties *)

\* The state has its type; the rows committed are numbered 1..head without a gap
\* or a repeat, though flush caches the head across transactions that roll back;
\* and their timestamps grow strictly with seq whatever the wall clock does,
\* through rollbacks and restarts (flush saves the clock with the rows).
StreamSound ==
  /\ TypeOK
  /\ disk.head = Len(disk.rows)
  /\ \A k \in DOMAIN disk.rows : disk.rows[k].seq = k
  /\ \A k \in 2..Len(disk.rows) : hlcCompare(disk.rows[k - 1].hlc, disk.rows[k].hlc)

\* A causal edge names an earlier committed entry (flush restores scopeTails on
\* a rollback, so that no write stamps an edge to itself).
CausalEarlier == \A k \in DOMAIN disk.rows : \A t \in disk.rows[k].causal : t < k

\* Without a crash or an invalid entry, the causal edge names the author's
\* previous write to the key (SPEC.md 11.2: last observed is the later of the
\* materialized winner and the own tail), through rollbacks.
CausalIsLast ==
  faults = {} =>
    \A k \in DOMAIN disk.rows :
      disk.rows[k].causal = IF k = 1 THEN {} ELSE {k - 1}

\* An append that resolved is durable under its own seq, and no promise both
\* resolves and rejects (flush settles only after the transaction).
AckedDurable ==
  /\ \A s \in acked : s.seq <= disk.head
  /\ \A s, t \in acked : s.id = t.id \/ (s.seq = t.seq /\ s.seq # 0) => s = t
  /\ \A s \in acked : s.id \notin rejected

\* Every promise settles, through failures and close, unless the process dies
\* (closeEnd rejects what was pushed while close awaited).
EverySettles ==
  \A i \in 1..MaxItems :
    ("crash" \notin faults /\ pushed >= i) ~> (i \in rejected \/ \E s \in acked : s.id = i)
================================================================================
