-------------------------------- MODULE Consumer --------------------------------
(***************************************************************************)
(* A durable onEntry consumer (consume.ts) of one topic, with the cold     *)
(* archiver that its cursor gates (archive.ts).                            *)
(*                                                                         *)
(* The topic's rows are rowids of sq_log.  Every onEntry call makes a      *)
(* Consumer object regs[i]; reg is the one the hub's map holds.  An object *)
(* outlives its registration while its drain is suspended in a callback.   *)
(* An action is a stretch of code between two awaits.                      *)
(***************************************************************************)
EXTENDS Integers, FiniteSets

CONSTANTS
  MaxRow,      \* bound on the rows appended
  MaxRegs,     \* bound on the onEntry calls
  BATCH,       \* rows a drain reads at a time
  Covers,      \* the sets of rows that a certificate may add to the cut
  Hazards      \* the sets of hazards a behaviour may meet: "rewind" (a rewind or an
               \* adopted floor deletes rows of the hot log), "age" (a cursor row goes
               \* FINALITY_WINDOW_MS without a write), "unsub_twice" (the host calls
               \* an unsubscribe function again)

ASSUME ConsumerAssumption ==
  /\ MaxRow \in Nat \ {0} /\ MaxRegs \in Nat \ {0} /\ BATCH \in Nat \ {0}
  /\ Covers \subseteq SUBSET (1..MaxRow)
  /\ Hazards \subseteq SUBSET {"rewind", "age", "unsub_twice"}

VARIABLES
  log,        \* rowids in sq_log
  top,        \* the last rowid given out (AUTOINCREMENT)
  archived,   \* rowids moved to sq_archive
  cursor,     \* the row of sq_cursors: {last_rowid}, or {} without a row
  stale,      \* is its updated_at older than FINALITY_WINDOW_MS?
  cut,        \* rows the topic's certificate covers; {} without a certificate
  rebasing,   \* onCertAccepted is awaiting registers.rebaseAtCut
  regs, reg, used,
  open,       \* the node is not closed
  hazards,    \* the hazards of this behaviour, chosen at the start
  completed   \* ghost: rows whose callback completed, or the host waived, since
              \* the cursor was last reset or deleted

durable == <<log, archived, cursor, stale>>
vars == <<durable, top, cut, rebasing, regs, reg, used, open, hazards, completed>>

Rows == 1..MaxRow
Ids == 1..MaxRegs

\* pc: "idle" (not running), "calling" (awaiting the callback of the least row of
\* batch), "advance" (drain's finally, before onAdvance), "finish" (before pump's
\* finally), "none" (not made yet).
Registration ==
  [pc : {"none", "idle", "calling", "advance", "finish"}, gone : BOOLEAN,
   rerun : BOOLEAN, timer : BOOLEAN, advanced : BOOLEAN, old : BOOLEAN,
   batch : SUBSET Rows, waiters : SUBSET Rows]

Unmade ==
  [pc |-> "none", gone |-> FALSE, rerun |-> FALSE, timer |-> FALSE,
   advanced |-> FALSE, old |-> FALSE, batch |-> {}, waiters |-> {}]

TypeOK ==
  /\ log \subseteq 1..top /\ top \in 0..MaxRow /\ archived \subseteq 1..top
  /\ log \cap archived = {}
  /\ cursor \in {{}} \cup {{n} : n \in 0..top} /\ stale \in BOOLEAN
  /\ cut \subseteq Rows /\ rebasing \in BOOLEAN
  /\ regs \in [Ids -> Registration] /\ used \in 0..MaxRegs /\ reg \in 0..used
  /\ open \in BOOLEAN /\ hazards \in Hazards /\ completed \subseteq 1..top
  /\ \A i \in Ids : (regs[i].pc = "calling") = (regs[i].batch # {})

Init ==
  /\ log = {} /\ top = 0 /\ archived = {} /\ cursor = {} /\ stale = FALSE
  /\ cut = {} /\ rebasing = FALSE
  /\ regs = [i \in Ids |-> Unmade] /\ reg = 0 /\ used = 0
  /\ open = TRUE /\ completed = {} /\ hazards \in Hazards

--------------------------------------------------------------------------------
(* Store reads and the drain *)

cursorGet(cur) == IF cur = {} THEN 0 ELSE CHOOSE n \in cur : TRUE

maxRowid == IF log = {} THEN 0 ELSE CHOOSE n \in log : \A r \in log : r <= n

\* The first BATCH held rows after a rowid.
entriesForTopicFromRowid(held, after) ==
  LET rows == {r \in held : r > after}
  IN {r \in rows : Cardinality({q \in rows : q <= r}) <= BATCH}

\* drainInner returns.
Return(c) ==
  [c EXCEPT !.pc = IF c.advanced THEN "advance" ELSE "finish", !.batch = {}]

\* The head of drainInner's loop: read a batch and call the callback, or return.
drainInner(c, at, held) ==
  LET rows == entriesForTopicFromRowid(held, at)
  IN IF rows = {} THEN Return(c)
     ELSE [c EXCEPT !.pc = "calling", !.batch = rows]

\* Mutant of pump: a drain that is running is not told to run again.
pump_NoRerun(c, at, held) ==
  IF c.pc # "idle" \/ c.gone THEN c
  ELSE drainInner([c EXCEPT !.advanced = FALSE], at, held)

\* pump: start a drain, or have the running one followed by another.
pump(c, at, held) ==
  IF c.pc # "idle" \/ c.gone THEN [c EXCEPT !.rerun = c.pc # "idle"]
  ELSE drainInner([c EXCEPT !.advanced = FALSE], at, held)

\* cursorSet: a write makes the row fresh.
cursorSet(n) == cursor' = {n} /\ stale' = FALSE

--------------------------------------------------------------------------------
(* Archiving *)

\* archiveNow with cursor row cur: drop the row if it is stale, then move the
\* covered rows that the remaining cursor has passed.
archiveNow(cur) ==
  IF cut = {} THEN cursor' = cur /\ UNCHANGED <<log, archived, stale>>
  ELSE LET gate == IF stale THEN {} ELSE cur
           moved == {r \in log \cap cut : \A n \in gate : r <= n}
       IN /\ cursor' = gate /\ stale' = FALSE
          /\ log' = log \ moved /\ archived' = archived \cup moved

\* A certificate that covers more is accepted; onCertAccepted rebases views and
\* awaits the registers before it archives.
CertAccepted(covers) ==
  /\ open /\ ~rebasing /\ cut' = cut \cup covers /\ cut' # cut
  /\ rebasing' = TRUE
  /\ UNCHANGED <<durable, top, regs, reg, used, open, completed>>

\* onCertAccepted resumes: tryArchive.
Rebased ==
  /\ rebasing /\ rebasing' = FALSE
  /\ archiveNow(cursor)
  /\ UNCHANGED <<top, cut, regs, reg, used, open, completed>>

--------------------------------------------------------------------------------
(* The drain *)

\* Mutant of Unreached: the comparison is the wrong way round.
Unreached_Reversed(waiters, row) == {t \in waiters : row > t}

\* The waiters whose head the cursor has not reached at row.
Unreached(waiters, row) == {t \in waiters : row < t}

\* The callback's promise resolves: advance the cursor, resolve the waiters it
\* reached, go on to the next row or the next batch.
CallbackResolves(i) ==
  /\ regs[i].pc = "calling"
  /\ IF regs[i].gone
     THEN /\ regs' = [regs EXCEPT ![i] = Return(@)]
          /\ UNCHANGED <<cursor, stale, completed>>
     ELSE LET c == regs[i]
              row == CHOOSE r \in c.batch : \A q \in c.batch : r <= q
              next == [c EXCEPT !.advanced = TRUE, !.batch = @ \ {row},
                                !.waiters = Unreached(@, row)]
          IN /\ cursorSet(row) /\ completed' = completed \cup {row}
             /\ regs' = [regs EXCEPT ![i] = IF next.batch # {} THEN next
                                            ELSE drainInner(next, row, log)]
  /\ UNCHANGED <<log, top, archived, cut, rebasing, reg, used, open>>

\* Mutant of CallbackFails: no retry timer.
CallbackFails_NoRetry(i) ==
  /\ regs[i].pc = "calling"
  /\ IF regs[i].gone
     THEN regs' = [regs EXCEPT ![i] = Return(@)] /\ UNCHANGED <<cursor, stale>>
     ELSE cursorSet(cursorGet(cursor)) /\ regs' = [regs EXCEPT ![i] = Return(@)]
  /\ UNCHANGED <<log, top, archived, cut, rebasing, reg, used, open, completed>>

\* The callback throws: touch the cursor row, schedule the retry, return.
CallbackFails(i) ==
  /\ regs[i].pc = "calling"
  /\ IF regs[i].gone
     THEN regs' = [regs EXCEPT ![i] = Return(@)] /\ UNCHANGED <<cursor, stale>>
     ELSE /\ cursorSet(cursorGet(cursor))
          /\ regs' = [regs EXCEPT ![i] = [Return(@) EXCEPT !.timer = TRUE]]
  /\ UNCHANGED <<log, top, archived, cut, rebasing, reg, used, open, completed>>

\* drain's finally after progress: onAdvance, that is tryArchive.
Advance(i) ==
  /\ regs[i].pc = "advance"
  /\ archiveNow(cursor)
  /\ regs' = [regs EXCEPT ![i].pc = "finish"]
  /\ UNCHANGED <<top, cut, rebasing, reg, used, open, completed>>

\* pump's finally: not running any more, unless it has to run again.
Finish(i) ==
  /\ regs[i].pc = "finish"
  /\ LET c == [regs[i] EXCEPT !.pc = "idle"]
     IN regs' = [regs EXCEPT ![i] =
                   IF c.rerun /\ ~c.gone
                   THEN pump([c EXCEPT !.rerun = FALSE], cursorGet(cursor), log)
                   ELSE c]
  /\ UNCHANGED <<durable, top, cut, rebasing, reg, used, open, completed>>

RetryTimer(i) ==
  /\ regs[i].timer
  /\ regs' = [regs EXCEPT ![i] =
                pump([@ EXCEPT !.timer = FALSE], cursorGet(cursor), log)]
  /\ UNCHANGED <<durable, top, cut, rebasing, reg, used, open, completed>>

--------------------------------------------------------------------------------
(* The host's calls *)

\* Mutant of Register: no cursor row until the first delivery.
Register_NoCursor ==
  /\ open /\ reg = 0 /\ used < MaxRegs
  /\ used' = used + 1 /\ reg' = used + 1
  /\ UNCHANGED <<cursor, stale>>
  /\ regs' = [regs EXCEPT ![used + 1] =
                pump([Unmade EXCEPT !.pc = "idle"], cursorGet(cursor), log)]
  /\ UNCHANGED <<log, top, archived, cut, rebasing, open, completed>>

\* onEntry: a name without a cursor row gets one at 0.
Register ==
  /\ open /\ reg = 0 /\ used < MaxRegs
  /\ used' = used + 1 /\ reg' = used + 1
  /\ IF cursor = {} THEN cursorSet(0) ELSE UNCHANGED <<cursor, stale>>
  /\ regs' = [regs EXCEPT ![used + 1] =
                pump([Unmade EXCEPT !.pc = "idle"], cursorGet(cursor), log)]
  /\ UNCHANGED <<log, top, archived, cut, rebasing, open, completed>>

\* The function onEntry returned: it deletes the map's entry for the name,
\* whichever object holds it.
Unsubscribe(i) ==
  /\ regs[i].pc # "none" /\ (regs[i].gone => "unsub_twice" \in hazards)
  /\ regs' = [regs EXCEPT ![i].gone = TRUE, ![i].timer = FALSE, ![i].waiters = {}]
  /\ reg' = IF regs[i].old THEN reg ELSE 0
  /\ UNCHANGED <<durable, top, cut, rebasing, used, open, completed>>

\* caughtUp short of the head: a waiter.  At the head it resolves at once.
CaughtUp ==
  /\ open /\ reg # 0 /\ cursorGet(cursor) < maxRowid
  /\ regs' = [regs EXCEPT ![reg].waiters = @ \cup {maxRowid}]
  /\ UNCHANGED <<durable, top, cut, rebasing, reg, used, open, completed>>

resetConsumer(from) ==
  /\ open /\ reg = 0
  /\ IF from = "head"
     THEN cursorSet(maxRowid) /\ completed' = log
     ELSE cursorSet(0) /\ completed' = {}
  /\ UNCHANGED <<log, top, archived, cut, rebasing, regs, reg, used, open>>

\* deleteConsumer, and pruneConsumers of this name.
deleteConsumer ==
  /\ open /\ reg = 0 /\ cursor # {}
  /\ archiveNow({}) /\ completed' = {}
  /\ UNCHANGED <<top, cut, rebasing, regs, reg, used, open>>

--------------------------------------------------------------------------------
(* The rest of the node *)

\* Mutant of RowApplied: SQLite reuses the rowids of deleted rows.
RowApplied_Reuse ==
  /\ open /\ maxRowid < MaxRow
  /\ log' = log \cup {maxRowid + 1} /\ top' = IF maxRowid + 1 > top THEN maxRowid + 1 ELSE top
  /\ archived' = archived \ {maxRowid + 1} /\ completed' = completed \ {maxRowid + 1}
  /\ regs' = IF reg = 0 THEN regs
             ELSE [regs EXCEPT ![reg] = pump(@, cursorGet(cursor), log')]
  /\ UNCHANGED <<cursor, stale, cut, rebasing, reg, used, open>>

\* An entry commits; onApplied notifies the registered consumer.
RowApplied ==
  /\ open /\ top < MaxRow
  /\ top' = top + 1 /\ log' = log \cup {top + 1}
  /\ regs' = IF reg = 0 THEN regs
             ELSE [regs EXCEPT ![reg] = pump(@, cursorGet(cursor), log')]
  /\ UNCHANGED <<archived, cursor, stale, cut, rebasing, reg, used, open, completed>>

\* pruneTopic, pruneSuperseded, pruneAcked: rows no cursor still has to pass.
Prune(rows) ==
  /\ open /\ rows # {} /\ rows \subseteq log
  /\ \A n \in cursor : \A r \in rows : r <= n
  /\ log' = log \ rows
  /\ UNCHANGED <<archived, cursor, stale, top, cut, rebasing, regs, reg, used, open, completed>>

\* A rewind or an adopted floor deletes a row of the hot log.
RowDeleted(r) ==
  /\ "rewind" \in hazards /\ open /\ r \in log
  /\ log' = log \ {r}
  /\ UNCHANGED <<archived, cursor, stale, top, cut, rebasing, regs, reg, used, open, completed>>

\* FINALITY_WINDOW_MS pass without a write to the cursor row.
Age ==
  /\ "age" \in hazards /\ cursor # {} /\ ~stale /\ stale' = TRUE
  /\ UNCHANGED <<log, archived, cursor, top, cut, rebasing, regs, reg, used, open, completed>>

\* node.close: ConsumerHub.close marks the registered consumer gone, clears its
\* timer and rejects its waiters; then the owner lock is released.
Close ==
  /\ open /\ open' = FALSE /\ reg' = 0
  /\ regs' = [i \in Ids |->
                IF i = reg
                THEN [regs[i] EXCEPT !.gone = TRUE, !.timer = FALSE, !.waiters = {}, !.old = TRUE]
                ELSE [regs[i] EXCEPT !.old = TRUE]]
  /\ UNCHANGED <<durable, top, cut, rebasing, used, completed>>

\* A new node on the same store, in the same process.
Reopen ==
  /\ ~open /\ used < MaxRegs /\ open' = TRUE
  /\ UNCHANGED <<durable, top, cut, rebasing, regs, reg, used, completed>>

\* The process dies and a new one opens the store: objects and timers are gone.
Crash ==
  /\ used < MaxRegs /\ \E i \in Ids : regs[i].pc # "none"
  /\ open' = TRUE /\ reg' = 0 /\ rebasing' = FALSE
  /\ regs' = [i \in Ids |-> Unmade]
  /\ UNCHANGED <<durable, top, cut, used, completed>>

Drain(i) ==
  \/ CallbackResolves(i) \/ CallbackFails(i)
  \/ Advance(i) \/ Finish(i) \/ RetryTimer(i)

Next ==
  /\ \/ RowApplied \/ Register \/ CaughtUp \/ deleteConsumer
     \/ Rebased \/ Age \/ Close \/ Reopen \/ Crash
     \/ \E from \in {"earliest-retained", "head"} : resetConsumer(from)
     \/ \E covers \in Covers : CertAccepted(covers)
     \/ \E rows \in SUBSET Rows : Prune(rows)
     \/ \E r \in Rows : RowDeleted(r)
     \/ \E i \in Ids : Drain(i) \/ Unsubscribe(i)
  /\ UNCHANGED hazards

Spec == Init /\ [][Next]_vars

\* Promise jobs and timers run, and a callback that is called again and again
\* succeeds in the end (at-least-once delivery is the host's to complete).
FairSpec ==
  /\ Spec
  /\ \A i \in Ids : /\ WF_vars(Drain(i) /\ UNCHANGED hazards)
                    /\ SF_vars(CallbackResolves(i) /\ UNCHANGED hazards)

--------------------------------------------------------------------------------
(* Properties *)

\* The state has its type, and the durable cursor never passes a row the consumer
\* still has to see: every row of the hot log at or below it has completed its
\* callback, through failures, re-registrations, crashes, rewinds, archiving and
\* abandonment (drainInner advances the cursor only after the callback resolves).
CursorSound ==
  /\ TypeOK
  /\ \A r \in log : r <= cursorGet(cursor) => r \in completed

\* caughtUp does not lie: when drainInner resolves a waiter, every held row
\* through the head it was given has completed its callback.
CaughtUpTruthful ==
  [][\A i \in Ids : \A t \in regs[i].waiters :
       t \notin regs'[i].waiters /\ ~regs'[i].gone /\ regs'[i].pc # "none"
       => \A r \in log : r <= t => r \in completed']_vars

\* archiveNow waits for the consumer: while its cursor row is fresh, a row moves
\* to the archive only after its callback completed; and a registered consumer
\* has such a row from the moment onEntry returns, until archiveNow drops it for
\* its age.
ArchiveWaits ==
  [][~stale /\ (cursor' # {} \/ (reg # 0 /\ "age" \notin hazards))
     => archived' \ archived \subseteq completed]_vars

\* No lost wakeup: a registered consumer catches up with the rows held, unless it
\* goes away (pump's rerun flag, the retry timer).
EventuallyDelivered ==
  (hazards = {} /\ reg # 0 /\ ~(log \subseteq completed))
    ~> (reg = 0 \/ log \subseteq completed)

\* Every caughtUp promise settles: drainInner resolves it, or unsubscribe or
\* close rejects it.
WaiterSettles ==
  \A i \in Ids : (hazards = {} /\ regs[i].waiters # {}) ~> (regs[i].waiters = {})

\* The same through rewinds: consume.ts 204, resolves once the cursor reaches the
\* head it was given.
WaiterAlwaysSettles ==
  \A i \in Ids : (regs[i].waiters # {}) ~> (regs[i].waiters = {})

\* Callbacks of a consumer run one at a time (SPEC.md, onEntry).
SerialCallbacks ==
  \A i, j \in Ids : regs[i].pc = "calling" /\ regs[j].pc = "calling" => i = j

\* Once the owner lock is released nothing writes the store (node.ts, close).
QuietAfterClose == [][~open /\ ~open' => UNCHANGED <<log, archived, cursor>>]_vars
================================================================================
