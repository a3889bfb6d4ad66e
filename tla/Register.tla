------------------------------- MODULE Register -------------------------------
(***************************************************************************)
(* Registers (register.ts): one key of one register topic on one node: the *)
(* fold of its entries, the materialize pass that awaits between two       *)
(* entries, the base a certificate's rebase leaves behind, causal          *)
(* stamping, and the conflict and request callbacks.                       *)
(*                                                                         *)
(* An id is <<writer, seq, l>>: the writers are numbers and an entry's     *)
(* order is (l, writer), l standing for the whole HLC.  A value is the id  *)
(* of the entry that wrote it.  Annotations, the superseded lists, which   *)
(* no fold reads, and request expiry are left out.                         *)
(***************************************************************************)
EXTENDS Integers, Sequences, FiniteSets, SequencesExt, FiniteSetsExt

CONSTANTS
  Self,              \* this node's writer, a number
  Member,            \* members of the key
  Script,            \* what may happen to the key: a set of [policy, remote, writes, own]:
                     \* its conflict policy ("lww", "fww", "owned"), entries other writers may
                     \* have written, the host's writes ([kind, arg]), and how many own entries
  Cut,               \* the certificate's l; 0 when there is none
  FOLD_BATCH, ANCESTOR_WALK_CAP,
  Budget             \* restarts and certificates

ASSUME Sizes == FOLD_BATCH > 0 /\ ANCESTOR_WALK_CAP > 0 /\ Self > 0

VARIABLES
  log,       \* sq_log of the topic: a set of [r, e], rowid and entry
  next,      \* its next rowid
  cold,      \* entries archived
  cert,      \* "none", "rebasing" or "based"
  script,
  base,      \* the fold floor: [ks, ord]; ord 0 when there is none
  st,        \* TopicState: [ks, ord, lastRowid]
  pass,      \* the materialize pass: [step, rest, end]
  events,    \* its events: sequence of [what, of, frozen]
  scheduled,
  rebase,    \* the stateAt in flight: [ks, ord, rest, ids]
  tails,     \* scopeTails: a set of [scope, id]
  surfaced, handled,
  table,     \* the register table's row
  told,      \* conflicts handed to the host: [unit, heads]
  folded,    \* history: ids folded into st.ks,
  under,     \* and into base.ks
  missed,    \* history: ids the fold can no longer reach
  restarts

policy == script.policy
keyVars == <<log, next, cold, cert, script>>
passVars == <<st, pass, events, scheduled>>
hostVars == <<surfaced, handled, told>>
vars == <<keyVars, base, passVars, rebase, tails, hostVars, table, folded, under, missed, restarts>>

--------------------------------------------------------------------------------
(* Entries and order *)

NoId == <<0, 0, 0>>
Id(e) == <<e.w, e.s, e.l>>
Less(i, j) == i[3] < j[3] \/ (i[3] = j[3] /\ i[1] < j[1])
Sorted(S) == SetToSortSeq(S, LAMBDA e, f : Less(Id(e), Id(f)))

Hot == {x.e : x \in log}
MaxRowid == Max({x.r : x \in log} \cup {0})
After(o) == {e \in Hot : Less(o, Id(e))}          \* entriesAfterOrder
FirstOf(s) == SubSeq(s, 1, Min({FOLD_BATCH, Len(s)}))   \* its LIMIT
UpToCut(i) == i[3] <= Cut

\* store.getEntry's causal, among the entries S.
causal(S, i) == UNION {{e.causal} : e \in {f \in S : Id(f) = i}}

\* Walk e's causal chain, as far as S holds it, looking for a.
isAncestor(S, a, e) ==
  LET hop[n \in 0..ANCESTOR_WALK_CAP - 1] ==
        IF n = 0 THEN {e.causal} ELSE UNION {causal(S, i) : i \in hop[n - 1]}
  IN a # NoId /\ \E n \in 0..ANCESTOR_WALK_CAP - 1 : a \in hop[n]

--------------------------------------------------------------------------------
(* The fold.  x = [ks, ev]: the key's state and the events pushed *)

NoMember == [present |-> FALSE, entry |-> NoId, frontier |-> {}]
NoKey == [value |-> NoId, scalar |-> TRUE, winner |-> NoId, owner |-> 0, resetGen |-> 0,
          members |-> [m \in Member |-> NoMember], frontier |-> {}, requests |-> {}]

Live == << >>      \* the event reads the key state of the pass
Conflict(u) == [what |-> "conflict", of |-> u, frozen |-> Live]
Ask(i) == [what |-> "ask", of |-> i, frozen |-> Live]

Adopts(S, w, e) ==
  IF policy = "fww" THEN isAncestor(S, w, e) ELSE Less(w, Id(e))

Heads(S, f, e) == {h \in f : ~isAncestor(S, h, e)} \cup {Id(e)}

\* set, del and resolve.
foldKeyWrite(S, x, e) ==
  LET k == x.ks
      adopt == k.winner = NoId \/ Adopts(S, k.winner, e)
      f == Heads(S, k.frontier, e)
      clash == k.winner # NoId /\ Cardinality(f) > 1 /\ ~isAncestor(S, k.winner, e)
  IN [ks |-> [k EXCEPT !.frontier = f,
                       !.winner = IF adopt THEN Id(e) ELSE @,
                       !.value = IF ~adopt THEN @ ELSE IF e.kind = "del" THEN NoId ELSE Id(e)],
      ev |-> IF clash THEN Append(x.ev, Conflict("key")) ELSE x.ev]

\* add, remove and resolve-member.
foldMemberOp(S, x, e, present) ==
  LET k == [x.ks EXCEPT !.winner = IF @ = NoId \/ Less(@, Id(e)) THEN Id(e) ELSE @]
      ms == k.members[e.arg]
      adopt == ms.entry = NoId \/ Adopts(S, ms.entry, e)
      f == Heads(S, ms.frontier, e)
      clash == ms.entry # NoId /\ Cardinality(f) > 1 /\ ~isAncestor(S, ms.entry, e)
  IN [ks |-> [k EXCEPT !.members[e.arg] =
                [present |-> IF adopt THEN present ELSE ms.present,
                 entry |-> IF adopt THEN Id(e) ELSE ms.entry, frontier |-> f]],
      ev |-> IF clash THEN Append(x.ev, Conflict(e.arg)) ELSE x.ev]

\* Mutant of cleared: a del leaves the members it resets.
cleared_Keeps(k) == [k EXCEPT !.resetGen = @ + 1, !.scalar = TRUE]

\* A reset epoch begins.
cleared(k) ==
  [k EXCEPT !.members = [m \in Member |-> NoMember], !.resetGen = @ + 1, !.scalar = TRUE]

scalarCleared(k) ==
  IF k.scalar /\ k.value # NoId
  THEN [k EXCEPT !.value = NoId, !.resetGen = @ + 1, !.scalar = FALSE]
  ELSE [k EXCEPT !.scalar = FALSE]

ownedWriteAllowed(k, e) == policy # "owned" \/ k.owner \in {0, e.w}

Claimed(k, e) == IF policy = "owned" /\ k.owner = 0 THEN [k EXCEPT !.owner = e.w] ELSE k

markApproved(k, e) ==
  [k EXCEPT !.requests =
     {IF e.kind = "set" /\ r.entry = e.ref THEN [r EXCEPT !.by = Id(e)] ELSE r : r \in @}]

applySupersedes(f, e) == f \ e.sup

\* Fold e into x, reading the entries S.
fold(S, x, e) ==
  LET k == x.ks
      on(kk) == [x EXCEPT !.ks = kk]
      write(y) == [y EXCEPT !.ks = Claimed(markApproved(@, e), e)]
  IN CASE e.kind = "request" ->
            [ks |-> [k EXCEPT !.requests = @ \cup {[entry |-> Id(e), by |-> NoId]}],
             ev |-> Append(x.ev, Ask(Id(e)))]
       [] e.kind = "chown" -> IF k.owner \in {0, e.w} THEN on([k EXCEPT !.owner = e.arg]) ELSE x
       [] e.kind = "chown-takeover" -> IF e.sig THEN on([k EXCEPT !.owner = e.arg]) ELSE x
       [] e.kind \in {"set", "del"} ->
            IF ~ownedWriteAllowed(k, e) THEN x
            ELSE write(foldKeyWrite(S, on(IF e.kind = "del" \/ ~k.scalar THEN cleared(k) ELSE k), e))
       [] e.kind = "resolve" ->
            foldKeyWrite(S, on([k EXCEPT !.frontier = applySupersedes(@, e)]), e)
       [] e.kind \in {"add", "remove"} ->
            IF ~ownedWriteAllowed(k, e) THEN x
            ELSE write(foldMemberOp(S, on(scalarCleared(k)), e, e.kind = "add"))
       [] e.kind = "resolve-member" ->
            foldMemberOp(S, on([k EXCEPT !.members[e.arg].frontier = applySupersedes(@, e)]),
                         e, e.sig)
       [] OTHER -> x

FoldAll(S, k, s) == FoldLeft(LAMBDA x, e : fold(S, x, e), [ks |-> k, ev |-> << >>], s).ks

\* snapshotOf and keysFromSnapshot: a key without a winner is not kept, nor is
\* a value beside members, nor are requests.
snapshotOf(k) ==
  IF k.winner = NoId THEN NoKey
  ELSE [k EXCEPT !.scalar = \A m \in Member : k.members[m].entry = NoId,
                 !.value = IF k.scalar THEN @ ELSE NoId, !.requests = {}]

--------------------------------------------------------------------------------
(* Applied entries *)

\* Mutant of Applied: no pass is scheduled while one runs.
Applied_Once(e) ==
  /\ log' = log \cup {[r |-> next, e |-> e]} /\ next' = next + 1
  /\ scheduled' = (scheduled \/ pass.step = "idle")

\* setOnApplied: e gets a rowid and notifyApplied schedules a pass.
Applied(e) ==
  /\ log' = log \cup {[r |-> next, e |-> e]} /\ next' = next + 1
  /\ scheduled' = TRUE

\* How far the refold in flight has read.
Read(p, o) == IF p.rest = << >> THEN o ELSE Id(Last(p.rest))

\* A row that arrives behind the refold in flight is not folded by it.
Behind(i) == pass.step = "refold" /\ Less(i, Read(pass, st.ord))

\* A causal pointer names the entry its author had seen.
Names(c, f) == <<c[1], c[2]>> = <<f.w, f.s>> => c = Id(f)
Authored(e) ==
  /\ \A f \in Hot \cup cold : Names(e.causal, f) /\ Names(f.causal, e)
  /\ e.causal[1] = Self => e.causal \in {Id(f) : f \in Hot \cup cold}

receive(e) ==
  /\ Authored(e)
  /\ e.s = 1 + Cardinality({f \in Hot \cup cold : f.w = e.w})
  /\ Applied(e)
  /\ missed' = missed \cup (IF Behind(Id(e)) THEN {Id(e)} ELSE {})
  /\ UNCHANGED <<cold, cert, script, base, st, pass, events, rebase, tails, hostVars, table,
                 folded, under, restarts>>

scopeKey(w) == IF w.arg \in Member THEN <<w.arg, st.ks.resetGen>> ELSE <<"key">>

materializedLastObserved(w) ==
  IF w.arg \in Member THEN st.ks.members[w.arg].entry ELSE st.ks.winner

lastObserved(w) ==
  LET own == {t \in tails : t.scope = scopeKey(w)} IN
  IF own = {} THEN materializedLastObserved(w) ELSE (CHOOSE t \in own : TRUE).id

Own == {e \in Hot \cup cold : e.w = Self}

\* append and its commit: the entry is stamped in the flush.
Appends(w) ==
  LET e == [w |-> Self, s |-> Cardinality(Own) + 1,
            l |-> 1 + Max({f.l : f \in Hot \cup cold} \cup {0}),
            kind |-> w.kind, arg |-> w.arg, causal |-> lastObserved(w),
            sup |-> w.sup, sig |-> w.sig, ref |-> w.ref]
  IN /\ Cardinality(Own) < script.own
     /\ Applied(e)
     /\ tails' = {t \in tails : t.scope # scopeKey(w)} \cup {[scope |-> scopeKey(w), id |-> Id(e)]}

Plain(w) == [kind |-> w.kind, arg |-> w.arg, sup |-> {}, sig |-> TRUE, ref |-> NoId]

write(w) ==
  /\ Appends(Plain(w))
  /\ UNCHANGED <<cold, cert, script, base, st, pass, events, rebase, hostVars, table, folded, under,
                 missed, restarts>>

\* The host resolves a conflict it was told of.
resolve(c, present) ==
  /\ c.unit = "key" => present
  /\ Appends([kind |-> IF c.unit = "key" THEN "resolve" ELSE "resolve-member", arg |-> c.unit,
             sup |-> c.heads, sig |-> present, ref |-> NoId])
  /\ UNCHANGED <<cold, cert, script, base, st, pass, events, rebase, hostVars, table, folded, under,
                 missed, restarts>>

--------------------------------------------------------------------------------
(* The materialize pass *)

Idle == [step |-> "idle", rest |-> << >>, end |-> 0]

\* entriesForTopicFromRowid
Pending == {x \in log : x.r > st.lastRowid}
Batch == {x \in Pending : Cardinality({y \in Pending : y.r < x.r}) < FOLD_BATCH}
BatchEnd == Max({x.r : x \in Batch})
First == Sorted({x.e : x \in Batch})[1]

\* Fold the head of s in the pass p, starting from key state k; evs are the
\* events so far.
Folds(k, evs, s, p, o) ==
  LET e == Head(s)
      x == fold(Hot, [ks |-> k, ev |-> evs], e)
  IN /\ st' = [st EXCEPT !.ks = x.ks, !.ord = Id(e),
                           !.lastRowid = IF Tail(s) = << >> /\ p.step = "scan" THEN p.end ELSE @]
     /\ events' = x.ev
     /\ pass' = [p EXCEPT !.rest = Tail(s)]
     /\ tails' = IF e.w = Self THEN {t \in tails : t.id[2] > e.s} ELSE tails
     /\ folded' = o \cup {Id(e)}

\* Mutant of Late: only a whole batch behind the watermark counts.
Late_All == \A x \in Batch : ~Less(st.ord, Id(x.e))

Late == ~Less(st.ord, Id(First))

\* The timer fires; while a pass runs, it only sets itself again.
materialize ==
  /\ scheduled /\ pass.step = "idle"
  /\ scheduled' = FALSE /\ pass' = [Idle EXCEPT !.step = "scan"]
  /\ UNCHANGED <<keyVars, base, st, events, rebase, tails, hostVars, table, folded, under, missed,
                 restarts>>

\* The pass has folded what it read.
Between(step) == pass.step = step /\ pass.rest = << >>

\* It reads rows that follow its watermark and folds the first.
scan ==
  /\ Between("scan") /\ Batch # {} /\ ~Late
  /\ Folds(st.ks, events, Sorted({x.e : x \in Batch}),
           [step |-> "scan", rest |-> << >>, end |-> BatchEnd], folded)
  /\ UNCHANGED <<keyVars, scheduled, base, rebase, hostVars, table, under, missed, restarts>>

foldNext ==
  /\ pass.rest # << >>
  /\ Folds(st.ks, events, pass.rest, pass, folded)
  /\ UNCHANGED <<keyVars, scheduled, base, rebase, hostVars, table, under, missed, restarts>>

\* The refold starts over from the base; the events so far keep the old state.
Frozen == [i \in DOMAIN events |->
  IF events[i].frozen = Live THEN [events[i] EXCEPT !.frozen = <<st.ks>>] ELSE events[i]]

\* The register table's row, empty when the key is deleted.
Shown(k) ==
  LET on == {m \in Member : k.members[m].present}
      scalar == k.scalar /\ k.value # NoId
  IN IF ~scalar /\ on = {} /\ k.requests = {} THEN << >>
     ELSE <<IF scalar THEN k.value ELSE NoId, k.owner, k.resetGen, on,
            Cardinality(k.frontier) > 1 \/ \E m \in Member : Cardinality(k.members[m].frontier) > 1>>

\* The fold is done: the table is rewritten and the events run.
Ends(s, evs) ==
  /\ st' = s /\ table' = Shown(s.ks)
  /\ events' = evs /\ pass' = [Idle EXCEPT !.step = "events"]

Refolding == [step |-> "refold", rest |-> << >>, end |-> 0]
Known == {Id(e) : e \in Hot \cup cold}

\* A late arrival: refold in canonical order from the base.
refold ==
  /\ Between("scan") /\ Batch # {} /\ Late
  /\ surfaced' = {}
  /\ missed' = {i \in Known \ under : i \notin {Id(e) : e \in After(base.ord)}}
  /\ IF After(base.ord) = {}
     THEN /\ Ends([ks |-> base.ks, ord |-> base.ord, lastRowid |-> MaxRowid], Frozen)
          /\ folded' = under /\ UNCHANGED tails
     ELSE /\ Folds(base.ks, Frozen, FirstOf(Sorted(After(base.ord))), Refolding, under)
          /\ UNCHANGED table
  /\ UNCHANGED <<keyVars, scheduled, base, rebase, handled, told, under, restarts>>

refoldMore ==
  /\ Between("refold") /\ After(st.ord) # {}
  /\ Folds(st.ks, events, FirstOf(Sorted(After(st.ord))), Refolding, folded)
  /\ UNCHANGED <<keyVars, scheduled, base, rebase, hostVars, table, under, missed, restarts>>

refoldEnd ==
  /\ Between("refold") /\ After(st.ord) = {}
  /\ Ends([st EXCEPT !.lastRowid = MaxRowid], events)
  /\ UNCHANGED <<keyVars, scheduled, base, rebase, tails, hostVars, folded, under, missed, restarts>>

scanEnd ==
  /\ Between("scan") /\ Batch = {}
  /\ Ends(st, events)
  /\ UNCHANGED <<keyVars, scheduled, base, rebase, tails, hostVars, folded, under, missed, restarts>>

--------------------------------------------------------------------------------
(* Events *)

\* The key state an event was pushed with.
Of(v) == IF v.frozen = Live THEN st.ks ELSE v.frozen[1]

FrontierOf(k, u) == IF u = "key" THEN k.frontier ELSE k.members[u].frontier
WinnerOf(k, u) == IF u = "key" THEN k.winner ELSE k.members[u].entry

Due(what) == pass.step = "events" /\ events # << >> /\ Head(events).what = what

surfaceConflict ==
  /\ Due("conflict")
  /\ LET k == Of(Head(events))
         u == Head(events).of
         c == [unit |-> u, heads |-> FrontierOf(k, u)]
         new == Cardinality(c.heads) > 1 /\ c \notin surfaced
     IN /\ surfaced' = IF new THEN surfaced \cup {c} ELSE surfaced
        /\ told' = IF new /\ WinnerOf(k, u) \in {Id(e) : e \in Hot} THEN told \cup {c} ELSE told
  /\ events' = Tail(events)
  /\ UNCHANGED <<keyVars, base, st, pass, scheduled, rebase, tails, handled, table, folded, under,
                 missed, restarts>>

\* The owner's host approves or denies a request.
maybeAskOwner(approve) ==
  /\ Due("ask")
  /\ LET i == Head(events).of
         asks == Of(Head(events)).owner = Self /\ i \notin handled
     IN /\ handled' = IF asks THEN handled \cup {i} ELSE handled
        /\ IF asks /\ approve
           THEN /\ Appends([kind |-> "set", arg |-> NoId, sup |-> {}, sig |-> TRUE, ref |-> i])
           ELSE UNCHANGED <<log, next, scheduled, tails>>
  /\ events' = Tail(events)
  /\ UNCHANGED <<cold, cert, script, base, st, pass, rebase, surfaced, told, table, folded, under,
                 missed, restarts>>

endPass ==
  /\ pass.step = "events" /\ events = << >>
  /\ pass' = Idle
  /\ UNCHANGED <<keyVars, base, st, events, scheduled, rebase, tails, hostVars, table, folded,
                 under, missed, restarts>>

--------------------------------------------------------------------------------
(* Rebase, archive and restart *)

CutOrd == <<1 + Max({Self} \cup {e.w : e \in script.remote}), 0, Cut>>
NoRebase == [ks |-> NoKey, ord |-> NoId, rest |-> << >>, ids |-> {}]

acceptCert ==
  /\ Cut > 0 /\ cert = "none" /\ restarts < Budget
  /\ cert' = "rebasing" /\ rebase' = NoRebase
  /\ UNCHANGED <<log, next, cold, script, base, passVars, tails, hostVars, table, folded, under,
                 missed, restarts>>

\* stateAt reads the next rows in canonical order.
stateAtReads ==
  /\ cert = "rebasing" /\ rebase.rest = << >> /\ After(rebase.ord) # {}
  /\ rebase' = [rebase EXCEPT !.rest = FirstOf(Sorted(After(rebase.ord)))]
  /\ UNCHANGED <<keyVars, base, passVars, tails, hostVars, table, folded, under, missed, restarts>>

stateAtFolds ==
  /\ cert = "rebasing" /\ rebase.rest # << >> /\ Head(rebase.rest).l <= Cut
  /\ LET e == Head(rebase.rest) IN
     rebase' = [ks |-> fold(Hot, [ks |-> rebase.ks, ev |-> << >>], e).ks, ord |-> Id(e),
                rest |-> Tail(rebase.rest), ids |-> rebase.ids \cup {Id(e)}]
  /\ UNCHANGED <<keyVars, base, passVars, tails, hostVars, table, folded, under, missed, restarts>>

\* The cut state becomes the permanent fold floor.
rebaseAtCut ==
  /\ cert = "rebasing"
  /\ IF rebase.rest = << >> THEN After(rebase.ord) = {} ELSE Head(rebase.rest).l > Cut
  /\ base' = [ks |-> snapshotOf(rebase.ks), ord |-> CutOrd]
  /\ under' = rebase.ids
  /\ cert' = "based" /\ rebase' = NoRebase
  /\ UNCHANGED <<log, next, cold, script, passVars, tails, hostVars, table, folded, missed, restarts>>

\* archiveNow, after the rebase or when a consumer advances to rowid m.
archive(m) ==
  /\ cert # "none"
  /\ LET moved == {x \in log : x.e.l <= Cut /\ x.r <= m}
         reading == {Id(e) : e \in Range(pass.rest)}
     IN /\ moved # {}
        /\ log' = log \ moved /\ cold' = cold \cup {x.e : x \in moved}
        /\ missed' = missed \cup ({Id(x.e) : x \in moved} \ (folded \cup reading))
  /\ UNCHANGED <<next, cert, script, base, passVars, rebase, tails, hostVars, table, folded, under,
                 restarts>>

\* The process ends and opens the store again: topicState restores the base,
\* and no pass is scheduled until a row is applied.
restart ==
  /\ restarts + (IF cert = "none" THEN 0 ELSE 1) < Budget
  /\ restarts' = restarts + 1
  /\ st' = [ks |-> base.ks, ord |-> base.ord, lastRowid |-> 0]
  /\ pass' = Idle /\ events' = << >> /\ scheduled' = FALSE
  /\ tails' = {} /\ surfaced' = {} /\ handled' = {}
  /\ cert' = (IF cert = "rebasing" THEN "based" ELSE cert)
  /\ rebase' = NoRebase
  /\ folded' = under /\ missed' = {Id(e) : e \in cold} \ under
  /\ UNCHANGED <<log, next, cold, script, base, told, table, under>>

Init ==
  /\ log = {} /\ next = 1 /\ cold = {} /\ cert = "none" /\ script \in Script
  /\ base = [ks |-> NoKey, ord |-> NoId]
  /\ st = [ks |-> NoKey, ord |-> NoId, lastRowid |-> 0]
  /\ pass = Idle /\ events = << >> /\ scheduled = FALSE /\ rebase = NoRebase
  /\ tails = {} /\ surfaced = {} /\ handled = {} /\ told = {} /\ table = << >>
  /\ folded = {} /\ under = {} /\ missed = {} /\ restarts = 0

Next ==
  \/ \E e \in script.remote : receive(e)
  \/ \E w \in script.writes : write(w)
  \/ \E c \in told, present \in BOOLEAN : resolve(c, present)
  \/ materialize \/ scan \/ foldNext \/ scanEnd \/ refold \/ refoldMore \/ refoldEnd
  \/ surfaceConflict \/ endPass
  \/ \E approve \in BOOLEAN : maybeAskOwner(approve)
  \/ acceptCert \/ stateAtReads \/ stateAtFolds \/ rebaseAtCut
  \/ \E m \in 1..MaxRowid : archive(m)
  \/ restart

Spec == Init /\ [][Next]_vars

--------------------------------------------------------------------------------
(* Properties *)

IdSet == {Id(e) : e \in Hot \cup cold}
KeyOK(k) ==
  /\ {k.value, k.winner} \cup k.frontier \subseteq IdSet \cup {NoId}
  /\ k.scalar \in BOOLEAN /\ k.resetGen \in Nat /\ k.owner \in Nat
  /\ \A m \in Member : /\ k.members[m].present \in BOOLEAN
                       /\ {k.members[m].entry} \cup k.members[m].frontier \subseteq IdSet \cup {NoId}
                       /\ k.members[m].entry # NoId => k.members[m].frontier # {}
  /\ \A r \in k.requests : r.entry \in IdSet /\ r.by \in IdSet \cup {NoId}

\* The key states name entries this node has, own tails name own entries that
\* no pass has folded yet, and a pass holds rows only while it folds.
TypeOK ==
  /\ KeyOK(st.ks) /\ KeyOK(base.ks) /\ KeyOK(rebase.ks)
  /\ st.lastRowid \in 0..MaxRowid + Cardinality(cold)
  /\ pass.step \in {"idle", "scan", "refold", "events"}
  /\ pass.step \in {"idle", "events"} => pass.rest = << >>
  /\ \A t \in tails : t.id[1] = Self /\ t.id \in IdSet

EntriesOf(ids) == {e \in Hot \cup cold : Id(e) \in ids}
Reference(ids) == FoldAll(Hot \cup cold, NoKey, Sorted(EntriesOf(ids)))
Same(k, j) == snapshotOf(k) = snapshotOf(j)

AtRest == pass.step = "idle" /\ ~scheduled
Fresh == st.lastRowid = 0 /\ restarts > 0
Settled == AtRest /\ ~Fresh /\ missed = {}

\* Nothing applied is left out once no pass is due, but for entries that came
\* behind a refold in flight, behind the base or were archived first, and
\* except after a restart, until a row is applied (notifyApplied, materialize).
Complete ==
  AtRest => Fresh \/ (IdSet \ missed \subseteq folded /\ table = Shown(st.ks))

\* An entry points to an archived one that is itself no key write that counts:
\* what lies behind it is out of isAncestor's reach.
Bridged == \E e \in Hot, f \in cold :
  e.causal = Id(f) /\ (f.kind \in {"request", "chown", "chown-takeover"} \/ policy = "owned")

\* The base dropped a key that had an owner and no winner yet.
Disowned == under # {} /\ base.ks.winner = NoId /\ Reference(under).owner # 0

\* Convergence: a settled register is the fold, in canonical order, of all the
\* entries this node ever had, whatever order they came in, however often the
\* fold was restarted from the base and whatever was archived under it, unless an
\* archived entry bridges a causal chain or the base dropped an owner; and so is
\* the base of the entries up to the cut (materialize, fold, rebaseAtCut).
StateIsFold ==
  /\ Settled /\ ~Bridged /\ ~Disowned => Same(st.ks, Reference(IdSet))
  /\ under # {} /\ under = {i \in IdSet : i[3] <= Cut} => Same(base.ks, Reference(under))

\* A conflict is never silent: on a key with writes only (and, under fww, none of
\* them a resolve) every head but the winner was in a conflict the host was told
\* of, as long as nothing is archived and no base has taken it in (foldKeyWrite,
\* surfaceConflict).
ConflictTold ==
  /\ pass.step = "idle" /\ cold = {} /\ Cardinality(st.ks.frontier) > 1
  /\ \A e \in Hot : e.arg \notin Member /\ (policy = "fww" => e.kind # "resolve")
  => st.ks.frontier \ (under \cup {st.ks.winner}) \subseteq UNION {c.heads : c \in told}

\* The heads are the key writes that no other key write descends from or supersedes.
KeyWrites == {e \in EntriesOf(folded) : e.kind \in {"set", "del", "resolve"}}
FrontierIsMaximal ==
  Settled /\ ~Bridged /\ policy # "owned" =>
    st.ks.frontier = {Id(e) : e \in {h \in KeyWrites : \A f \in KeyWrites :
      Less(Id(h), Id(f)) => ~isAncestor(Hot \cup cold, Id(h), f) /\ Id(h) \notin f.sup}}

\* A member op from before a reset by canonical order never resurrects
\* (fold's del and set cases).
NoResurrection ==
  AtRest /\ policy # "owned" =>
    \A m \in Member, e \in EntriesOf(folded) :
      e.kind = "del" /\ st.ks.members[m].entry # NoId => Less(Id(e), st.ks.members[m].entry)

\* Well typed, and no applied row is forgotten (see Complete).
Sound == TypeOK /\ Complete

\* What the fold says of conflicts and resets is right (see its conjuncts).
Judgement == ConflictTold /\ FrontierIsMaximal /\ NoResurrection

\* "winner/owner/frontier preserved" (SPEC.md 11.6): a settled register knows
\* the owner its entries give the key (snapshotOf).
OwnerKept == Settled => st.ks.owner = Reference(IdSet).owner

\* Convergence without the exceptions of StateIsFold: archived entries take
\* nothing from a register (isAncestor, rebaseAtCut).
ArchiveKeeps == Settled => Same(st.ks, Reference(IdSet))

\* One writer's successive writes, with no other writer about, are never a
\* conflict (materializedLastObserved, foldKeyWrite).
OwnSequence == \A i, j \in st.ks.frontier : i[1] = j[1] => i = j

\* "only the owner's writes materialize" (SPEC.md 11.4): the value of an owned
\* key was written by its owner (fold's resolve case).
OnlyOwnerWrites ==
  policy = "owned" /\ Settled /\ st.ks.value # NoId
    => LET e == CHOOSE f \in Hot \cup cold : Id(f) = st.ks.value
           before == Reference({i \in IdSet : Less(i, Id(e))})
       IN before.owner \in {0, e.w}

================================================================================
