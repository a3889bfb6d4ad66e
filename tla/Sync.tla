--------------------------------- MODULE Sync ---------------------------------
(***************************************************************************)
(* Tier-1 synchronisation of one topic (sync.ts) between replicas joined   *)
(* by sessions: HAVE rounds answered with captured pages, WANT slots,      *)
(* ENTRIES, TRUNCATED, knowledge-based push and relay, certificate repair, *)
(* fork detection by HAVE contradiction and PROBE evidence.                *)
(*                                                                         *)
(* A session's control lane loses and reorders messages; a request is sent *)
(* again until satisfied (session.ts request).  Its data lane is what      *)
(* FifoLane promises: in order, once, refusing a message when it is full.  *)
(* A stream is the sequence of its entries' contents and stands for its    *)
(* own chain hash.  An entry travels as its chain.                         *)
(*                                                                         *)
(* Not here: recovery toward a canonical branch and seals (StreamLog), the *)
(* snapshot path (Snapshot), grants (Handshake; the topic is mutual full). *)
(***************************************************************************)
EXTENDS Integers, Sequences, FiniteSets, SequencesExt, FiniteSetsExt, Functions

CONSTANTS
  Node, Link,      \* <<n, p>> \in Link: n has a session with p; symmetric
  Stream, Author,  \* [Stream -> Node]
  Starts,          \* [log, floor, cert, proto, faults]: replicas, pruned prefixes, certificate
                   \* holders, the protocol version the sessions negotiate, and what may
                   \* happen: append, prune, tick, loss, race, reopen,
  Budget,          \* as often as this in all
  Refused,         \* <<stream, seq>>: at or before P outside the certificate's cover
  MaxSeq,          \* bound: entries of a stream
  MAX_WANT_CONCURRENT, ENTRIES_BATCH_MAX, PENDING_CAP,
  LaneCap          \* INFLIGHT_CREDITS + SEND_QUEUE_CAP: messages a lane holds

Content == {"x", "y"}
Chains == UNION {[1..k -> Content] : k \in 0..MaxSeq}

ASSUME Topology ==
  /\ Link \subseteq Node \X Node /\ IsFiniteSet(Stream)
  /\ \A l \in Link : l[1] # l[2] /\ <<l[2], l[1]>> \in Link

ASSUME Sizes ==
  /\ {MaxSeq, MAX_WANT_CONCURRENT, ENTRIES_BATCH_MAX, PENDING_CAP, LaneCap} \subseteq Nat
  /\ ENTRIES_BATCH_MAX > 0

ASSUME StartStates == \A c \in Starts :
  /\ c.log \in [Node -> [Stream -> Chains]] /\ c.floor \in [Node -> [Stream -> 0..MaxSeq]]
  /\ \A n \in Node, s \in Stream : c.floor[n][s] <= Len(c.log[n][s])
  /\ c.cert \subseteq Node

VARIABLES
  log, floor, pending, sealed, cert,  \* LogCore's view of the topic, per node
  queue,       \* [Node -> Seq]: operations waiting for the next flush
  settled,     \* [Node -> Seq]: operations done whose then-callback has not run
  ps,          \* [Link -> PeerState]
  ctl, lane,   \* [Link -> ...]: control messages and data frames in flight from n to p
  evidence,    \* fork_evidence:* in sq_meta
  faults,      \* what may still happen: [kinds, left]
  fruitless,   \* history: WANT rounds completed since a HAVE round while nothing grew,
  left         \* and [s, chain]: what a replica held when it adopted a floor over it

logVars == <<log, floor, pending, sealed, cert, left>>
netVars == <<ctl, lane>>
vars == <<logVars, queue, settled, ps, netVars, evidence, faults, fruitless>>

None == -1
Chain(n, s, i) == SubSeq(log[n][s], 1, i)
Contig(n, s) == Len(log[n][s])
HasRow(n, s, i) == floor[n][s] < i /\ i <= Contig(n, s)
Back(l) == <<l[2], l[1]>>

\* What attach puts in the peers map. `pump` stands for pumpTimer and for an
\* acknowledgement that freed the lane while something was dirty (onCapacity).
\* `reqs` are the session's unsatisfied requests, as the messages they send.
NewPeer(proto) ==
  [expected |-> 0, pages |-> {}, captured |-> {}, active |-> {}, wantQueue |-> << >>,
   wanted |-> {}, progress |-> [s \in Stream |-> None], stalled |-> {},
   known |-> [s \in Stream |-> 0], dirty |-> {}, pump |-> FALSE, reqs |-> {},
   proto |-> proto]

--------------------------------------------------------------------------------
(* PeerState's operations, as functions of one peer state x of link l *)

\* ++haveReq, ++wantReq: a number nothing of the session bears any more.
FreshReq(l, x) ==
  LET bearers == x.reqs \cup x.active \cup ctl[l] \cup ctl[Back(l)] \cup ToSet(lane[Back(l)])
                 \cup ps[Back(l)].captured \cup ToSet(queue[l[1]] \o settled[l[1]])
      used == {m.req : m \in {m \in bearers : "req" \in DOMAIN m}}
  IN CHOOSE r \in 1..Cardinality(used) + 1 :
       r \notin used /\ \A k \in 1..r - 1 : k \in used

startHaveRound(l, x) ==
  LET r == FreshReq(l, x)
  IN [x EXCEPT !.expected = r, !.pages = {},
               !.reqs = @ \cup {[t |-> "HAVE_GET", req |-> r]}]

\* One turn of pumpWants: the stream is requested, skipped or left queued.
wantNext(l, x, s) ==
  IF Cardinality(x.active) >= MAX_WANT_CONCURRENT THEN [x EXCEPT !.wantQueue = Append(@, s)]
  ELSE IF s \in sealed[l[1]] THEN [x EXCEPT !.wanted = @ \ {s}]
  ELSE LET w == [t |-> "WANT", req |-> FreshReq(l, x), s |-> s, from |-> Contig(l[1], s) + 1]
       IN [x EXCEPT !.active = @ \cup {w}, !.reqs = @ \cup {w}]

pumpWants(l, x) ==
  FoldLeft(LAMBDA y, s : wantNext(l, y, s), [x EXCEPT !.wantQueue = << >>], x.wantQueue)

queueWant(l, x, s) ==
  IF s \in x.wanted THEN x
  ELSE pumpWants(l, [x EXCEPT !.wanted = @ \cup {s}, !.wantQueue = Append(@, s)])

\* Mutant of finishWant: the stream stays in wantedStreams.
finishWant_Wanted(l, x, r) ==
  IF \A w \in x.active : w.req # r THEN x
  ELSE LET w == CHOOSE w \in x.active : w.req = r
       IN pumpWants(l, [x EXCEPT !.active = @ \ {w}, !.reqs = @ \ {w}])

finishWant(l, x, r) ==
  IF \A w \in x.active : w.req # r THEN x
  ELSE LET w == CHOOSE w \in x.active : w.req = r
       IN pumpWants(l, [x EXCEPT !.active = @ \ {w}, !.reqs = @ \ {w},
                                 !.wanted = @ \ {w.s}])

markDirty(x, s) == [x EXCEPT !.dirty = @ \cup {s}, !.pump = TRUE]

\* locateFork's log-spaced sweep below upTo.
locateFork(x, s, upTo) ==
  LET seqs == {upTo - d : d \in {0} \cup {2^i : i \in 0..MaxSeq}} \cap 1..upTo
  IN [x EXCEPT !.reqs = {r \in @ : r.t # "PROBE" \/ r.s # s}
                         \cup {[t |-> "PROBE", s |-> s, seqs |-> seqs, upTo |-> upTo]}]

\* The frames a lane takes of fs before it refuses.
sendData(l, fs) == lane[l] \o SubSeq(fs, 1, Min({Len(fs), LaneCap - Len(lane[l])}))

\* Rows i of a stream as an ENTRIES frame answering request r (0: a push).
Entries(n, s, r, from, to, ids) ==
  [req |-> r, s |-> s, from |-> from, to |-> to,
   entries |-> [i \in 1..Cardinality(ids) |-> Chain(n, s, Min(ids) + i - 1)],
   done |-> ids = {} \/ Max(ids) >= to]

--------------------------------------------------------------------------------
(* The log: what applyExternal and its siblings do to one stream *)

\* drainPending: head h and pending chains P, at most one of each length.
drain(h, P) ==
  LET runs == {c \in P : /\ IsPrefix(h, c)
                         /\ \A k \in Len(h) + 1..Len(c) : SubSeq(c, 1, k) \in P}
      top == CHOOSE c \in runs \cup {h} : \A d \in runs : Len(d) <= Len(c)
      bad == {c \in P : Len(c) = Len(top) + 1}
  IN [head |-> top, pending |-> {c \in P : Len(c) > Len(top)} \ bad, seal |-> bad # {}]

\* Mutant of applyExternal: the next seq is taken without its chain check.
applyExternal_Unchained(n, s, v, e) ==
  IF Len(e) = Len(v.head) + 1 THEN drain(e, v.pending) ELSE v

\* processExternal of entry e on v = [head, pending, seal], stream s of node n.
applyExternal(n, s, v, e) ==
  LET same == {c \in v.pending : Len(c) = Len(e)}
      fork == [v EXCEPT !.seal = TRUE]
  IN IF v.seal \/ (n \in cert /\ <<s, Len(e)>> \in Refused) THEN v
     ELSE IF Len(e) <= Len(v.head)
     THEN IF Len(e) > floor[n][s] /\ ~IsPrefix(e, v.head) THEN fork ELSE v
     ELSE IF Len(e) = Len(v.head) + 1
     THEN IF IsPrefix(v.head, e) THEN drain(e, v.pending) ELSE fork
     ELSE IF same # {} THEN IF e \in same THEN v ELSE fork
     ELSE IF Cardinality(v.pending) >= PENDING_CAP THEN v
     ELSE [v EXCEPT !.pending = @ \cup {e}]

View(n, s) == [head |-> log[n][s], pending |-> pending[n][s], seal |-> s \in sealed[n]]

\* Stream s of n becomes v.
SetStream(n, s, v) ==
  /\ log' = [log EXCEPT ![n][s] = v.head]
  /\ pending' = [pending EXCEPT ![n][s] = v.pending]
  /\ sealed' = [sealed EXCEPT ![n] = IF v.seal THEN @ \cup {s} ELSE @]

\* handleApplied: an own append goes to the peers, an entry received from
\* `via` to every other peer.
handleApplied(n, s, via) ==
  ps' = [l \in Link |-> IF l[1] = n /\ l[2] # via THEN markDirty(ps[l], s) ELSE ps[l]]

\* History: with a stream that has grown the count of fruitless rounds is at 0 again.
Recount(n, s, h) ==
  fruitless' = [l \in Link |-> IF l[1] = n /\ h # log[n][s]
                               THEN [fruitless[l] EXCEPT ![s] = 0] ELSE fruitless[l]]

--------------------------------------------------------------------------------
(* Steps.  A handler runs when no promise callback is due at its node. *)

Idle(n) == settled[n] = << >>

Spend(k) ==
  /\ k \in faults.kinds /\ faults.left > 0
  /\ faults' = [faults EXCEPT !.left = @ - 1]

\* attach and onReady: a fresh peer state whose first round has started.
Ready(proto) ==
  [NewPeer(proto) EXCEPT !.expected = 1, !.reqs = {[t |-> "HAVE_GET", req |-> 1]}]

Init ==
  /\ \E c \in Starts :   \* onReady has started a round at both ends
       /\ log = c.log /\ floor = c.floor /\ cert = c.cert
       /\ ps = [l \in Link |-> Ready(c.proto)]
       /\ faults = [kinds |-> c.faults, left |-> Budget]
  /\ pending = [n \in Node |-> [s \in Stream |-> {}]]
  /\ sealed = [n \in Node |-> {}]
  /\ queue = [n \in Node |-> << >>] /\ settled = [n \in Node |-> << >>]
  /\ ctl = [l \in Link |-> ps[l].reqs] /\ lane = [l \in Link |-> << >>]
  /\ evidence = {} /\ left = {}
  /\ fruitless = [l \in Link |-> [s \in Stream |-> 0]]

\* The host appends to its own stream.
append(n, s, b) ==
  /\ Idle(n) /\ Author[s] = n /\ s \notin sealed[n]
  /\ Contig(n, s) < MaxSeq /\ Spend("append")
  /\ log' = [log EXCEPT ![n][s] = Append(@, b)]
  /\ handleApplied(n, s, n) /\ Recount(n, s, Append(log[n][s], b))
  /\ UNCHANGED <<floor, pending, sealed, cert, left, queue, settled, netVars, evidence>>

\* Retention raises a floor; the head row of a live stream stays.
prune(n, s) ==
  /\ Idle(n) /\ s \notin sealed[n] /\ floor[n][s] + 1 < Contig(n, s) /\ Spend("prune")
  /\ floor' = [floor EXCEPT ![n][s] = @ + 1]
  /\ UNCHANGED <<log, pending, sealed, cert, left, queue, settled, ps, netVars, evidence,
                 fruitless>>

\* session.ts request: a new request is sent at once.
SendRequests == ctl' = [k \in Link |-> ctl[k] \cup (ps'[k].reqs \ ps[k].reqs)]

\* Nothing of l's session is under way.
Quiet(l) ==
  /\ ctl[l] = {} /\ ctl[Back(l)] = {} /\ lane[l] = << >> /\ lane[Back(l)] = << >>
  /\ \A n \in {l[1], l[2]} : queue[n] = << >> /\ settled[n] = << >>

\* onReady's tick in a session at rest,
antiEntropy(l) ==
  /\ Quiet(l)
  /\ ps' = [ps EXCEPT ![l] = startHaveRound(l, @)]
  /\ SendRequests
  /\ UNCHANGED <<logVars, queue, settled, lane, evidence, faults, fruitless>>

\* and one that comes among other work, as a grant update does.
tick(l) ==
  /\ Idle(l[1]) /\ ~Quiet(l) /\ Spend("tick")
  /\ ps' = [ps EXCEPT ![l] = startHaveRound(l, @)]
  /\ SendRequests
  /\ UNCHANGED <<logVars, queue, settled, lane, evidence, fruitless>>

\* session.ts request: in the silence every unsatisfied request's timer fires.
retry(l) ==
  /\ Quiet(l) /\ ps[l].reqs # {}
  /\ ctl' = [ctl EXCEPT ![l] = ps[l].reqs]
  /\ UNCHANGED <<logVars, queue, settled, ps, lane, evidence, faults, fruitless>>

\* A retry that races a late answer.
race(l, r) ==
  /\ ~Quiet(l) /\ r \in ps[l].reqs \ ctl[l] /\ Spend("race")
  /\ ctl' = [ctl EXCEPT ![l] = @ \cup {r}]
  /\ UNCHANGED <<logVars, queue, settled, ps, lane, evidence, fruitless>>

lose(l, m) ==
  /\ m \in ctl[l] /\ Spend("loss")
  /\ ctl' = [ctl EXCEPT ![l] = @ \ {m}]
  /\ UNCHANGED <<logVars, queue, settled, ps, lane, evidence, fruitless>>

\* m, sent over Back(l), is taken by l's node.
Takes(l, m, kind) == Idle(l[1]) /\ m \in ctl[Back(l)] /\ m.t = kind

\* It answers with `answers`; requests it has made are sent at once.
Answer(l, m, answers) ==
  ctl' = [k \in Link |-> (ctl[k] \ (IF k = Back(l) THEN {m} ELSE {}))
                            \cup (IF k = l THEN answers ELSE {})
                            \cup (ps'[k].reqs \ ps[k].reqs)]

\* paginateHave: one stream to a page, and at least one page.
paginateHave(n, r) ==
  LET heads == SetToSeq({s \in Stream : Contig(n, s) > 0})
      of == IF heads = << >> THEN 1 ELSE Len(heads)
  IN {[t |-> "HAVE", req |-> r, page |-> i, of |-> of, fgen |-> n \in cert,
       census |-> [s \in Stream |-> Contig(n, s)],   \* history: the moment of the capture
       vector |-> IF heads = << >> THEN {}
                  ELSE {[s |-> heads[i], chain |-> log[n][heads[i]]]}] : i \in 1..of}

capture(l, r) ==
  IF \E c \in ps[l].captured : c.req = r THEN ps[l].captured
  ELSE {[req |-> r, pages |-> paginateHave(l[1], r)]}

serveHave(l, m) ==
  LET c == capture(l, m.req)
  IN /\ Takes(l, m, "HAVE_GET")
     /\ ps' = [ps EXCEPT ![l].captured = c]
     /\ Answer(l, m, UNION {k.pages : k \in c})
     /\ UNCHANGED <<logVars, queue, settled, lane, evidence, faults, fruitless>>

\* The part of processPeerVectors about one stream: a = [x, seals].
comparePeer(l, a, w) ==
  LET n == l[1]
      x == [a.x EXCEPT !.known[w.s] = Len(w.chain)]
      at == Len(w.chain)
      mine == Contig(n, w.s)
      forked == (at = mine \/ HasRow(n, w.s, at)) /\ Chain(n, w.s, at) # w.chain
  IN IF w.s \in sealed[n] THEN [a EXCEPT !.x = x]
     ELSE IF forked THEN [x |-> locateFork(x, w.s, at), seals |-> a.seals \cup {w.s}]
     ELSE [a EXCEPT !.x = CASE at > mine -> queueWant(l, x, w.s)
                            [] at < mine -> markDirty(x, w.s)
                            [] at = mine -> x]

SealItem(l, s) == [t |-> "seal", link |-> l, req |-> 0, s |-> s]

\* processPeerVectors over the vectors ws of a whole round.
compareAll(l, x, ws) ==
  FoldSet(LAMBDA w, b : comparePeer(l, b, w), [x |-> x, seals |-> {}], ws)

\* onHavePage: a page of another round is dropped; the last one completes it.
HavePage(l, m) ==
  LET n == l[1]
      x == ps[l]
      got == {q \in x.pages : q.page # m.page} \cup {m}
      whole == [x EXCEPT !.expected = 0, !.pages = {},
                         !.reqs = @ \ {[t |-> "HAVE_GET", req |-> m.req]}]
      held == n \notin cert /\ m.fgen   \* wait for the certificate
      a == compareAll(l, whole, IF held THEN {} ELSE UNION {q.vector : q \in got})
  IN /\ Takes(l, m, "HAVE")
     /\ IF m.req # x.expected THEN UNCHANGED <<ps, queue, fruitless>>
        ELSE IF Cardinality(got) < m.of
        THEN ps' = [ps EXCEPT ![l].pages = got] /\ UNCHANGED <<queue, fruitless>>
        ELSE /\ ps' = [ps EXCEPT ![l] = a.x]
             /\ queue' = [queue EXCEPT ![n] = @ \o SetToSeq({SealItem(l, s) : s \in a.seals})]
             /\ fruitless' = [fruitless EXCEPT ![l] = [s \in Stream |-> 0]]
     /\ Answer(l, m, IF /\ m.req = x.expected /\ Cardinality(got) >= m.of
                        /\ n \in cert /\ ~m.fgen
                     THEN {[t |-> "FINALITY"]} ELSE {})
     /\ UNCHANGED <<logVars, settled, lane, evidence, faults>>

\* FINALITY: the certificate is ingested, and every session starts a round.
Finality(l, m) ==
  /\ Takes(l, m, "FINALITY")
  /\ cert' = cert \cup {l[1]}
  /\ ps' = [k \in Link |-> IF k[1] = l[1] /\ l[1] \notin cert
                           THEN startHaveRound(k, ps[k]) ELSE ps[k]]
  /\ Answer(l, m, {})
  /\ UNCHANGED <<log, floor, pending, sealed, left, queue, settled, lane, evidence, faults,
                 fruitless>>

\* serveWant's batches: rows from `from` up to the captured head.
Batches(n, s, r, to) ==
  LET f[from \in 1..MaxSeq + 1] ==
        LET ids == {i \in from..from + ENTRIES_BATCH_MAX - 1 : i <= to /\ HasRow(n, s, i)}
        IN IF from > to \/ ids = {} THEN << >>
           ELSE <<Entries(n, s, r, from, to, ids)>> \o f[Max(ids) + 1]
  IN f

\* serveWant.  A tail-dropped batch is left to the requester's retry.
Want(l, m) ==
  LET n == l[1]
      to == Contig(n, m.s)
      empty == Entries(n, m.s, m.req, m.from, to, {})
      below == floor[n][m.s] > 0 /\ m.from <= floor[n][m.s]
  IN /\ Takes(l, m, "WANT") /\ UNCHANGED ps
     /\ Answer(l, m, IF below /\ ps[l].proto >= 3
                     THEN {[t |-> "TRUNCATED", req |-> m.req, s |-> m.s,
                            chain |-> Chain(n, m.s, floor[n][m.s])]}
                     ELSE {})
     /\ lane' = [lane EXCEPT ![l] =
                   IF below THEN IF ps[l].proto >= 3 THEN @ ELSE sendData(l, <<empty>>)
                   ELSE sendData(l, IF m.from > to THEN <<empty>>
                                    ELSE Batches(n, m.s, m.req, to)[m.from])]
     /\ UNCHANGED <<logVars, queue, settled, evidence, faults, fruitless>>

\* Mutant of floorFits: a floor at the very seq asked for is taken as too low.
floorFits_Above(x, w, at) == w.from < at /\ at <= x.known[w.s]

\* onTruncated: the floor is not below what was asked nor beyond the peer's head.
floorFits(x, w, at) == w.from <= at /\ at <= x.known[w.s]

\* onTruncated: the answer to an active WANT; a floor that does not fit only
\* completes it, else adoptFloor is queued.
Truncated(l, m) ==
  LET n == l[1]
      x == ps[l]
  IN /\ Takes(l, m, "TRUNCATED")
     /\ IF \A w \in x.active : w.req # m.req \/ w.s # m.s
        THEN UNCHANGED <<ps, queue>>
        ELSE LET w == CHOOSE w \in x.active : w.req = m.req
             IN IF ~floorFits(x, w, Len(m.chain))
                THEN /\ ps' = [ps EXCEPT ![l] = finishWant(l, x, m.req)]
                     /\ UNCHANGED queue
                ELSE /\ ps' = [ps EXCEPT ![l].reqs = @ \ {w}]
                     /\ queue' = [queue EXCEPT ![n] = Append(@,
                          [t |-> "floor", link |-> l, req |-> m.req, s |-> m.s,
                           chain |-> m.chain, peerHead |-> x.known[m.s], refused |-> FALSE])]
     /\ Answer(l, m, {})
     /\ UNCHANGED <<logVars, settled, lane, evidence, faults, fruitless>>

\* onEntries: the entries go to the commit queue; with none, Promise.all of
\* nothing is already settled.
onEntries(l) ==
  LET n == l[1]
      k == Back(l)
      m == Head(lane[k])
      item == [t |-> "entries", link |-> l, req |-> m.req, s |-> m.s, to |-> m.to,
               entries |-> m.entries, done |-> m.done]
  IN /\ Idle(n) /\ lane[k] # << >>
     /\ lane' = [lane EXCEPT ![k] = Tail(@)]
     /\ ps' = [ps EXCEPT ![l].known[m.s] = IF m.to > @ THEN m.to ELSE @,
                         ![k].pump = @ \/ ps[k].dirty # {}]
     /\ IF m.entries = << >>
        THEN settled' = [settled EXCEPT ![n] = Append(@, item)] /\ UNCHANGED queue
        ELSE queue' = [queue EXCEPT ![n] = Append(@, item)] /\ UNCHANGED settled
     /\ UNCHANGED <<logVars, ctl, evidence, faults, fruitless>>

applyAll(n, s, es) == FoldLeft(LAMBDA u, e : applyExternal(n, s, u, e), View(n, s), es)

\* flush: the next operation is applied; several may be before a callback runs.
FlushEntries(n) ==
  LET q == Head(queue[n])
      v == applyAll(n, q.s, q.entries)
  IN /\ queue[n] # << >> /\ q.t = "entries"
     /\ queue' = [queue EXCEPT ![n] = Tail(@)]
     /\ settled' = [settled EXCEPT ![n] = Append(@, q)]
     /\ SetStream(n, q.s, v) /\ Recount(n, q.s, v.head)
     /\ IF v.head = log[n][q.s] THEN UNCHANGED ps ELSE handleApplied(n, q.s, q.link[2])
     /\ UNCHANGED <<floor, cert, left, netVars, evidence, faults>>

FlushSeal(n) ==
  LET q == Head(queue[n])
  IN /\ queue[n] # << >> /\ q.t = "seal"
     /\ queue' = [queue EXCEPT ![n] = Tail(@)]
     /\ sealed' = [sealed EXCEPT ![n] = @ \cup {q.s}]
     /\ UNCHANGED <<log, floor, pending, cert, left, settled, ps, netVars, evidence, faults,
                    fruitless>>

\* processAdoptFloor: never moves a head back, refused on a sealed stream.  The
\* entries it drains have no `via` and are not relayed.
FlushFloor(n) ==
  LET q == Head(queue[n])
      at == Len(q.chain)
      ok == q.s \notin sealed[n]
      adopts == ok /\ Contig(n, q.s) < at
      v == drain(q.chain, {c \in pending[n][q.s] : Len(c) > at})
  IN /\ queue[n] # << >> /\ q.t = "floor"
     /\ queue' = [queue EXCEPT ![n] = Tail(@)]
     /\ settled' = [settled EXCEPT ![n] =
                      Append(@, [q EXCEPT !.refused = ~ok /\ Contig(n, q.s) < at])]
     /\ IF adopts
        THEN /\ SetStream(n, q.s, v) /\ Recount(n, q.s, v.head)
             /\ floor' = [floor EXCEPT ![n][q.s] = at]
             /\ left' = IF IsPrefix(log[n][q.s], q.chain) THEN left
                        ELSE left \cup {[s |-> q.s, chain |-> log[n][q.s]]}
        ELSE UNCHANGED <<log, pending, sealed, floor, left, fruitless>>
     /\ UNCHANGED <<cert, ps, netVars, evidence, faults>>

\* The non-progress test of a completed round.
Stuck(l, s) == ps[l].progress[s] # None /\ ps[l].progress[s] >= Contig(l[1], s)

\* onEntries' then-callback after a frame with done (others end nothing).
CompleteEntries(n) ==
  LET q == Head(settled[n])
      l == q.link
      x == ps[l]
      mine == q.done /\ \E w \in x.active : w.req = q.req
      y == finishWant(l, x, q.req)
      seen == [y EXCEPT !.progress[q.s] = Contig(n, q.s)]
  IN /\ settled[n] # << >> /\ q.t = "entries"
     /\ settled' = [settled EXCEPT ![n] = Tail(@)]
     /\ ps' = [ps EXCEPT ![l] =
                 IF ~mine THEN x
                 ELSE IF q.s \in sealed[n] \/ q.to <= Contig(n, q.s)
                 THEN [y EXCEPT !.progress[q.s] = None, !.stalled = @ \ {q.s}]
                 ELSE IF Stuck(l, q.s) THEN [seen EXCEPT !.stalled = @ \cup {q.s}]
                 ELSE queueWant(l, [seen EXCEPT !.stalled = @ \ {q.s}], q.s)]
     /\ fruitless' = [fruitless EXCEPT ![l][q.s] =
                        IF ~mine \/ q.to <= Contig(n, q.s) THEN @
                        ELSE IF \E w \in x.active : w.req = q.req /\ w.from <= Contig(n, q.s)
                        THEN 0 ELSE @ + 1]
     /\ SendRequests
     /\ UNCHANGED <<logVars, queue, lane, evidence, faults>>

\* onTruncated's then-callback.
CompleteFloor(n) ==
  LET q == Head(settled[n])
      l == q.link
      y == finishWant(l, ps[l], q.req)
  IN /\ settled[n] # << >> /\ q.t = "floor"
     /\ settled' = [settled EXCEPT ![n] = Tail(@)]
     /\ ps' = [ps EXCEPT ![l] = IF q.refused \/ Contig(n, q.s) >= q.peerHead \/ q.req = 0
                                THEN y ELSE queueWant(l, y, q.s)]
     /\ SendRequests
     /\ UNCHANGED <<logVars, queue, lane, evidence, faults, fruitless>>

\* Mutant of pumpStream: the whole stream is taken as known after one batch.
pumpStream_Head(l, a, s) ==
  LET n == l[1]
      to == Contig(n, s)
      ids == {i \in a.x.known[s] + 1..a.x.known[s] + ENTRIES_BATCH_MAX : HasRow(n, s, i)}
  IN IF a.stop \/ Len(lane[l]) + Len(a.out) >= LaneCap THEN [a EXCEPT !.stop = TRUE]
     ELSE IF ids = {} THEN [a EXCEPT !.x.dirty = @ \ {s}]
     ELSE [a EXCEPT !.out = Append(@, Entries(n, s, 0, Min(ids), to, ids)),
                    !.x.known[s] = to, !.x.dirty = @ \ {s}]

\* One stream's turn in pumpDirty: a = [x, out, stop].
pumpStream(l, a, s) ==
  LET n == l[1]
      at == a.x.known[s]
      to == Contig(n, s)
      clean == [a EXCEPT !.x.dirty = @ \ {s}]
      ids == {i \in at + 1..at + ENTRIES_BATCH_MAX : HasRow(n, s, i)}
      full == Len(lane[l]) + Len(a.out) >= LaneCap
      sent == [a EXCEPT !.out = Append(@, Entries(n, s, 0, Min(ids), to, ids)),
                        !.x.known[s] = Max(ids)]
  IN IF a.stop \/ full THEN [a EXCEPT !.stop = TRUE]
     ELSE IF at >= to \/ at < floor[n][s] THEN clean
     ELSE IF Max(ids) >= to THEN [sent EXCEPT !.x.dirty = @ \ {s}] ELSE sent

pumpAll(l) ==
  FoldSet(LAMBDA s, b : pumpStream(l, b, s),
          [x |-> [ps[l] EXCEPT !.pump = FALSE], out |-> << >>, stop |-> FALSE], ps[l].dirty)

\* pumpDirty; what is left dirty waits for an acknowledgement to free the lane.
pumpDirty(l) ==
  LET a == pumpAll(l)
  IN /\ Idle(l[1]) /\ ps[l].pump
     /\ ps' = [ps EXCEPT ![l] = a.x]
     /\ lane' = [lane EXCEPT ![l] = @ \o a.out]
     /\ UNCHANGED <<logVars, queue, settled, ctl, evidence, faults, fruitless>>

serveProbe(l, m) ==
  /\ Takes(l, m, "PROBE") /\ UNCHANGED ps
  /\ Answer(l, m,
       {[t |-> "PROBE_RES", s |-> m.s,
         points |-> {Chain(l[1], m.s, i) : i \in {i \in m.seqs : HasRow(l[1], m.s, i)}}]})
  /\ UNCHANGED <<logVars, queue, settled, lane, evidence, faults, fruitless>>

\* The points at which the peer's chain is the one held here.
Common(n, s, points) ==
  {Len(c) : c \in {c \in points : HasRow(n, s, Len(c)) /\ Chain(n, s, Len(c)) = c}}

\* locateFork's callback: the evidence for the host's adjudication.
ProbeRes(l, m) ==
  LET mine == {r \in ps[l].reqs : r.t = "PROBE" /\ r.s = m.s}
  IN /\ Takes(l, m, "PROBE_RES")
     /\ ps' = [ps EXCEPT ![l].reqs = @ \ mine]
     /\ Answer(l, m, {})
     /\ evidence' = IF mine = {} THEN evidence
                    ELSE {v \in evidence : v.link # l \/ v.s # m.s} \cup
                         {[link |-> l, s |-> m.s, upTo |-> r.upTo,
                           lastCommon |-> Max({0} \cup Common(l[1], m.s, m.points))] : r \in mine}
     /\ UNCHANGED <<logVars, queue, settled, lane, faults, fruitless>>

\* The channel fails and the peers dial again: new sessions, new peer states;
\* what the old ones had queued in the log is applied with nobody waiting.  If
\* n's process went down its queue is lost too.
reopen(l, down) ==
  /\ Spend("reopen")
  /\ LET both == IF down THEN {k \in Link : l[1] \in {k[1], k[2]}} ELSE {l, Back(l)}
         dead(seq) == [i \in DOMAIN seq |-> IF seq[i].link \in both
                         THEN [seq[i] EXCEPT !.req = 0] ELSE seq[i]]
     IN /\ ps' = [k \in Link |-> IF k \in both THEN Ready(ps[k].proto) ELSE ps[k]]
        /\ ctl' = [k \in Link |-> IF k \in both THEN ps'[k].reqs ELSE ctl[k]]
        /\ lane' = [k \in Link |-> IF k \in both THEN << >> ELSE lane[k]]
        /\ queue' = [n \in Node |-> IF down /\ n = l[1] THEN << >> ELSE dead(queue[n])]
        /\ settled' = [n \in Node |-> IF down /\ n = l[1] THEN << >> ELSE dead(settled[n])]
        /\ fruitless' = [k \in Link |-> IF k \in both THEN [s \in Stream |-> 0]
                                        ELSE fruitless[k]]
  /\ UNCHANGED <<logVars, evidence>>

Next ==
  \/ \E n \in Node, s \in Stream : append(n, s, "x")
  \/ \E n \in Node, s \in Stream : prune(n, s)
  \/ \E l \in Link : antiEntropy(l)
  \/ \E l \in Link : tick(l)
  \/ \E l \in Link : retry(l)
  \/ \E l \in Link : \E r \in ps[l].reqs : race(l, r)
  \/ \E l \in Link : \E m \in ctl[l] : lose(l, m)
  \/ \E l \in Link : \E m \in ctl[Back(l)] : serveHave(l, m)
  \/ \E l \in Link : \E m \in ctl[Back(l)] : HavePage(l, m)
  \/ \E l \in Link : \E m \in ctl[Back(l)] : Finality(l, m)
  \/ \E l \in Link : \E m \in ctl[Back(l)] : Want(l, m)
  \/ \E l \in Link : \E m \in ctl[Back(l)] : Truncated(l, m)
  \/ \E l \in Link : \E m \in ctl[Back(l)] : serveProbe(l, m)
  \/ \E l \in Link : \E m \in ctl[Back(l)] : ProbeRes(l, m)
  \/ \E l \in Link : onEntries(l)
  \/ \E n \in Node : FlushEntries(n)
  \/ \E n \in Node : FlushSeal(n)
  \/ \E n \in Node : FlushFloor(n)
  \/ \E n \in Node : CompleteEntries(n)
  \/ \E n \in Node : CompleteFloor(n)
  \/ \E l \in Link : pumpDirty(l)
  \/ \E l \in Link, down \in BOOLEAN : reopen(l, down)

Spec == Init /\ [][Next]_vars

\* The host runs its callbacks and timers and a channel that is up delivers.
Control(l) ==
  \E m \in ctl[Back(l)] :
    \/ serveHave(l, m) \/ HavePage(l, m) \/ Finality(l, m) \/ Want(l, m)
    \/ Truncated(l, m) \/ serveProbe(l, m) \/ ProbeRes(l, m)

Commits(n) ==
  FlushEntries(n) \/ FlushSeal(n) \/ FlushFloor(n) \/ CompleteEntries(n) \/ CompleteFloor(n)

FairSpec ==
  /\ Spec
  /\ \A l \in Link : /\ WF_vars(Control(l)) /\ WF_vars(onEntries(l))
                     /\ WF_vars(pumpDirty(l)) /\ SF_vars(retry(l)) /\ SF_vars(antiEntropy(l))
  /\ \A n \in Node : WF_vars(Commits(n))

--------------------------------------------------------------------------------
(* Properties *)

TypeOK ==
  /\ log \in [Node -> [Stream -> Chains]] /\ floor \in [Node -> [Stream -> 0..MaxSeq]]
  /\ pending \in [Node -> [Stream -> SUBSET Chains]]
  /\ sealed \in [Node -> SUBSET Stream] /\ cert \subseteq Node
  /\ \A n \in Node, s \in Stream :
       floor[n][s] <= Contig(n, s) /\ Cardinality(pending[n][s]) <= PENDING_CAP
  /\ \A l \in Link : Len(lane[l]) <= LaneCap /\ Cardinality(ps[l].active) <= MAX_WANT_CONCURRENT

\* The dedupe set, the queue and the slots agree (queueWant, pumpWants,
\* finishWant): a wanted stream waits in the queue or holds one slot, the queue
\* waits only on full slots, and a slot is either asked for again or has its
\* adopted floor on the way through the commit queue.  Otherwise the stream
\* would never be requested from that peer again.
NoOrphanWant ==
  \A l \in Link :
    LET x == ps[l]
    IN /\ x.wanted = ToSet(x.wantQueue) \cup {w.s : w \in x.active}
       /\ Cardinality(x.wanted) = Len(x.wantQueue) + Cardinality(x.active)
       /\ x.wantQueue # << >> => Cardinality(x.active) = MAX_WANT_CONCURRENT
       /\ \A w \in x.active \ x.reqs :
            \E q \in ToSet(queue[l[1]] \o settled[l[1]]) : q.link = l /\ q.req = w.req

\* pumpDirty raises `known` when it sends: what a node takes the peer to hold is
\* held, or on its way to be applied.  An entry neither held nor on its way would
\* not be pushed before the next HAVE round.
KnownBacked ==
  \A l \in Link, s \in Stream :
    LET p == l[2]
        coming == UNION {ToSet(f.entries) : f \in {g \in ToSet(lane[l]) : g.s = s}}
                  \cup UNION {ToSet(q.entries) : q \in {g \in ToSet(queue[p]) :
                                                       g.t = "entries" /\ g.s = s}}
                  \cup pending[p][s]
    IN \/ s \in sealed[p] \/ \E i \in 1..MaxSeq : p \in cert /\ <<s, i>> \in Refused
       \/ \A i \in Contig(p, s) + 1..ps[l].known[s] : \E e \in coming : Len(e) = i

\* P22: between two HAVE rounds, and while the stream does not grow, at most two
\* completed WANT rounds of it bring nothing (onEntries' non-progress rule),
\* whether the peer's entries are refused, are below its floor or end at a stale
\* toSeq.
NoSpin == \A l \in Link, s \in Stream : fruitless[l][s] <= 2

\* locateFork's evidence names a point up to which the two replicas really agree:
\* the host's adjudication keeps everything up to it.
EvidenceSound ==
  \A v \in evidence : Chain(v.link[1], v.s, v.lastCommon) = Chain(v.link[2], v.s, v.lastCommon)

\* The want lane of a link works, on a state of its type: nothing is orphaned and
\* nothing is asked for again and again in vain, whatever is refused, pruned, lost
\* or resent.
WantsSound == TypeOK /\ NoOrphanWant /\ NoSpin

\* What a node believes of its peer is true: `known` and the fork evidence.
ExchangeSound == KnownBacked /\ EvidenceSound

\* A captured HAVE round is one moment of the responder: pages of one request,
\* resent or not, never mix two (serveHave's captured round).
RoundOfOneMoment ==
  \A l \in Link :
    LET have == {m \in ctl[Back(l)] : m.t = "HAVE"} \cup ps[l].pages
    IN \A p, q \in have : p.req = q.req => p.census = q.census

\* sync.ts, log.ts 1335-1380: whatever is lost, resent, refused or contradicted, the
\* logs only ever do what Replicas allows.
R == INSTANCE Replicas
RefinesReplicas == R!ReplicasSpec

\* Replicas that disagree on nothing end equal; a stream on which two differ ends
\* sealed somewhere.  A stream the certificate refuses is left out, and one a
\* protocol-2 peer has pruned.
Settled(l, s) ==
  \/ \E i \in 1..MaxSeq : <<s, i>> \in Refused
  \/ s \in sealed[l[1]] \cup sealed[l[2]]
  \/ log[l[1]][s] = log[l[2]][s]
  \/ ps[l].proto < 3 /\ floor[l[1]][s] + floor[l[2]][s] > 0

Converges == <>[](\A l \in Link, s \in Stream : Settled(l, s))

\* Every WANT is answered to the end in a session that stays up: slots come back
\* (serveWant: "the requester's WANT retry recovers").
WantSettles == []<>(\A l \in Link : ps[l].active = {})
================================================================================
