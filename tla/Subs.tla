--------------------------------- MODULE Subs ---------------------------------
(***************************************************************************)
(* Tier-2 subscriptions (subs.ts): one served group (a view, a register or *)
(* a tail), one subscribing host and the session between them.             *)
(*                                                                         *)
(* The server keeps a delta journal, a cursor <<epoch, deltaSeq>> and, per *)
(* subscription, whether a coalesced SNAP is due or being paced out.  The  *)
(* host mirrors the table: SNAP(reset) replaces it, DELTA patches it, and  *)
(* a new subscription carries the cursor of the last one.                  *)
(*                                                                         *)
(* The data lane is FifoLane's, bounded.  The control lane loses, delays   *)
(* and repeats.  A row is a key with the number of the change that wrote   *)
(* it last; a SNAP body is the table.  Encoding, view families and         *)
(* MAX_REASSEMBLY_BYTES are left out.                                      *)
(***************************************************************************)
EXTENDS Integers, Sequences, FiniteSets, SequencesExt, FiniteSetsExt, Functions

CONSTANTS
  Key, SubId,
  SnapChunks,        \* chunks of a SNAP body
  SUB_DELTA_RETAIN,  \* journal bound
  LaneCap,           \* frames the lane takes (hasSendCapacity)
  Window,            \* snapWindow: SNAP chunks go out below this many
  MaxChange,         \* bound: changes of the table
  Big,               \* whether a DELTA may exceed MAX_FRAME_BYTES
  Bounds,            \* [reset, loss, race, redial, throw, close, deny]: how often each may happen,
  Budget             \* and how often all of them together

ASSUME LaneBounds == Window \in 1..LaneCap /\ SnapChunks > 0 /\ SUB_DELTA_RETAIN > 0

VARIABLES
  group,    \* [epoch, seq, journal, table, cache]
  serve,    \* [SubId -> Serve]
  client,   \* the host's ClientSub and mirror
  ctl,      \* control messages in flight, both ways
  lane,     \* data frames in flight to the client
  acked,    \* an ACK is due to call handleCapacity
  spent

vars == <<group, serve, client, ctl, lane, acked, spent>>

Nil == << >>
NoServe == [on |-> FALSE, pending |-> FALSE, snap |-> Nil, timer |-> FALSE]
Live(s) == s.on /\ ~s.pending /\ s.snap = Nil
Cursor(g) == <<g.epoch, g.seq>>
Spend(k) ==
  /\ spent[k] < Bounds[k] /\ SumFunction(spent) < Budget
  /\ spent' = [spent EXCEPT ![k] = @ + 1]

--------------------------------------------------------------------------------
(* The server's operations on x = [sv, lane, cache, errs], serve id of group g *)

Now(errs) == [sv |-> serve, lane |-> lane, cache |-> group.cache, errs |-> errs]
snapWindow == Window
hasRoom(x) == Len(x.lane) < snapWindow
schedule(x, id) == [x EXCEPT !.sv[id].timer = TRUE]

\* Mutant of enterResync: left to the next acknowledgement.
enterResync_Waits(x, id) == [x EXCEPT !.sv[id].pending = TRUE]

enterResync(x, id) == schedule([x EXCEPT !.sv[id].pending = TRUE], id)

deliverDelta(g, x, id, j) ==
  CASE ~Live(x.sv[id]) -> x   \* the SNAP will cover it
    [] Live(x.sv[id]) /\ (j.big \/ Len(x.lane) >= LaneCap) -> enterResync(x, id)
    [] OTHER -> [x EXCEPT !.lane = Append(@, [t |-> "DELTA", id |-> id, key |-> j.key,
                                              val |-> j.val, cursor |-> <<g.epoch, j.seq>>])]

\* The journal entries after seq d, in order.
replay(g, x, id, d) ==
  FoldLeft(LAMBDA y, j : IF j.seq > d THEN deliverDelta(g, y, id, j) ELSE y, x, g.journal)

\* The journal still holds every change after seq d.
reaches(g, d) == d + 1 >= (IF g.journal = << >> THEN g.seq + 1 ELSE g.journal[1].seq)

\* Mutant of catchUp: what changed while the SNAP was paced out is forgotten.
catchUp_Nothing(g, x, id, s) == x

\* After the last chunk: what the body does not reflect, from the journal.
catchUp(g, x, id, s) ==
  CASE s.cursor[1] # g.epoch -> enterResync(x, id)
    [] s.cursor = Cursor(g) -> x
    [] s.cursor[1] = g.epoch /\ ~reaches(g, s.cursor[2]) -> enterResync(x, id)
    [] OTHER -> replay(g, x, id, s.cursor[2])

pumpSnap(g, x, id) ==
  LET s == x.sv[id].snap
      n == Min({SnapChunks - s.next + 1, Max({0, snapWindow - Len(x.lane)})})
      out == [i \in 1..n |-> [t |-> "SNAP", id |-> id, chunk |-> s.next + i - 1,
                              body |-> s.body, cursor |-> s.cursor]]
      y == [x EXCEPT !.lane = @ \o out, !.sv[id].snap.next = @ + n]
  IN IF s.next + n <= SnapChunks THEN schedule(y, id)
     ELSE catchUp(g, [y EXCEPT !.sv[id].snap = Nil], id, s)

cached(g, c) == c # Nil /\ c.cursor = Cursor(g)

\* `fails`: the rows provider throws.
tryStartSnap(g, x, id, fails) ==
  LET body == IF cached(g, x.cache) THEN x.cache.body ELSE g.table
      y == [x EXCEPT !.sv[id] = [@ EXCEPT !.pending = FALSE, !.timer = FALSE]]
  IN CASE ~x.sv[id].on \/ ~x.sv[id].pending \/ x.sv[id].snap # Nil -> x
       [] x.sv[id].on /\ x.sv[id].pending /\ x.sv[id].snap = Nil /\ ~hasRoom(x) -> schedule(x, id)
       [] OTHER ->
            IF ~cached(g, x.cache) /\ fails
            THEN [y EXCEPT !.errs = @ \cup {[t |-> "SUB_ERR", id |-> id, code |-> "ERR_STORAGE"]}]
            ELSE pumpSnap(g, [y EXCEPT !.cache = [cursor |-> Cursor(g), body |-> body],
                                       !.sv[id].snap = [next |-> 1, cursor |-> Cursor(g),
                                                        body |-> body]], id)

\* What handleCapacity and the timer do for one serve.
resume(g, x, id, fails) ==
  IF x.sv[id].snap # Nil THEN pumpSnap(g, x, id) ELSE tryStartSnap(g, x, id, fails)

\* The rows provider throws or not.
Throws(fails) == IF fails THEN Spend("throw") ELSE UNCHANGED spent

Becomes(g, x) ==
  /\ group' = [g EXCEPT !.cache = x.cache]
  /\ serve' = x.sv /\ lane' = x.lane

--------------------------------------------------------------------------------
(* Server steps *)

Init ==
  /\ group = [epoch |-> 1, seq |-> 0, journal |-> << >>, table |-> [k \in Key |-> 0],
              cache |-> Nil]
  /\ serve = [id \in SubId |-> NoServe]
  /\ client = [id |-> 0, next |-> 1, asked |-> FALSE, cursor |-> Nil, chunks |-> {},
               table |-> [k \in Key |-> 0]]
  /\ ctl = {} /\ lane = << >> /\ acked = FALSE
  /\ spent = [k \in DOMAIN Bounds |-> 0]

Changes == group.table[CHOOSE k \in Key : \A m \in Key : group.table[m] <= group.table[k]]

\* publish's change of the group.
nextGroup(k, big) ==
  LET j == [seq |-> group.seq + 1, key |-> k, val |-> Changes + 1, big |-> big]
      all == Append(group.journal, j)
  IN [group EXCEPT !.seq = j.seq, !.table[k] = j.val, !.cache = Nil,
                   !.journal = IF Len(all) > SUB_DELTA_RETAIN THEN Tail(all) ELSE all]

\* A view's batch or a tail's entry.  `big`: its DELTA exceeds MAX_FRAME_BYTES.
publish(k, big) ==
  LET g == nextGroup(k, big)
      x == [Now({}) EXCEPT !.cache = g.cache]
      y == FoldSet(LAMBDA id, z : deliverDelta(g, z, id, Last(g.journal)), x,
                   {id \in SubId : serve[id].on})
  IN /\ Changes < MaxChange
     /\ Becomes(g, y)
     /\ UNCHANGED <<client, ctl, acked, spent>>

\* A view's reset or a register's change: a new epoch, and a SNAP for everyone.
resetGroup(k, fails) ==
  LET g == [group EXCEPT !.epoch = @ + 1, !.seq = 0, !.journal = << >>, !.cache = Nil,
                         !.table[k] = Changes + 1]
      ons == {id \in SubId : serve[id].on}
      x == [Now({}) EXCEPT !.cache = Nil,
              !.sv = [id \in SubId |-> IF serve[id].on
                        THEN [serve[id] EXCEPT !.snap = Nil, !.pending = TRUE] ELSE serve[id]]]
      y == FoldSet(LAMBDA id, z : tryStartSnap(g, z, id, fails), x, ons)
  IN /\ Changes < MaxChange
     /\ fails => y.errs # {}
     /\ Spend("reset") /\ (fails => spent.throw < Bounds.throw)
     /\ Becomes(g, y) /\ ctl' = ctl \cup y.errs
     /\ UNCHANGED <<client, acked>>

\* resolveGroup throws or the peer may not subscribe: whatever is served under
\* the id is left alone.
denySub(m) ==
  /\ m \in ctl /\ m.t = "SUB" /\ Spend("deny")
  /\ ctl' = (ctl \ {m}) \cup {[t |-> "SUB_ERR", id |-> m.id, code |-> "ERR_ACL_DENIED"]}
  /\ UNCHANGED <<group, serve, client, lane, acked>>

handleSub(m, fails) ==
  LET g == group
      d == m.cursor
      s == serve[m.id]
      x == [Now({}) EXCEPT !.sv[m.id].on = TRUE]
      y == IF d # Nil /\ d[1] = g.epoch /\ d[2] <= g.seq /\ reaches(g, d[2])
           THEN replay(g, x, m.id, d[2])
           ELSE tryStartSnap(g, [x EXCEPT !.sv[m.id].pending = TRUE], m.id, fails)
      future == d # Nil /\ d[1] = g.epoch /\ d[2] > g.seq
  IN /\ m \in ctl /\ m.t = "SUB"
     /\ IF s.on /\ ~Live(s) THEN UNCHANGED <<group, serve, lane>> /\ ctl' = ctl \ {m} /\ ~fails
        ELSE IF future
        THEN /\ UNCHANGED <<group, serve, lane>> /\ ~fails
             /\ ctl' = (ctl \ {m}) \cup {[t |-> "SUB_ERR", id |-> m.id,
                                          code |-> "ERR_FUTURE_CURSOR"]}
        ELSE /\ Becomes(g, y) /\ ctl' = (ctl \ {m}) \cup y.errs
             /\ fails => y.errs # {}
     /\ Throws(fails)
     /\ UNCHANGED <<client, acked>>

\* The last subscriber's removal drops the shared body.
removeServe(ids) ==
  /\ serve' = [id \in SubId |-> IF id \in ids THEN NoServe ELSE serve[id]]
  /\ group' = [group EXCEPT !.cache =
                 IF \A id \in SubId \ ids : ~serve[id].on THEN Nil ELSE @]

handleUnsub(m) ==
  /\ m \in ctl /\ m.t = "UNSUB"
  /\ removeServe({m.id}) /\ ctl' = ctl \ {m}
  /\ UNCHANGED <<client, lane, acked, spent>>

\* A serve's timer: schedule(0) or backoff.
timer(id, fails) ==
  LET x == [Now({}) EXCEPT !.sv[id].timer = FALSE]
      y == resume(group, x, id, fails)
  IN /\ serve[id].on /\ serve[id].timer
     /\ fails => y.errs # {}
     /\ Becomes(group, y) /\ ctl' = ctl \cup y.errs /\ Throws(fails)
     /\ UNCHANGED <<client, acked>>

\* An ACK freed the lane.
handleCapacity(fails) ==
  LET y == FoldSet(LAMBDA id, z : IF z.sv[id].on THEN resume(group, z, id, fails) ELSE z,
                   Now({}), SubId)
  IN /\ acked /\ acked' = FALSE
     /\ fails => y.errs # {}
     /\ Becomes(group, y) /\ ctl' = ctl \cup y.errs /\ Throws(fails)
     /\ UNCHANGED client

--------------------------------------------------------------------------------
(* Client steps *)

SubMsg(c) == [t |-> "SUB", id |-> c.id, cursor |-> c.cursor]

\* The host subscribes, with the cursor it has reached.
subscribe ==
  /\ client.id = 0 /\ client.next \in SubId
  /\ client' = [client EXCEPT !.id = client.next, !.next = @ + 1, !.asked = TRUE, !.chunks = {}]
  /\ ctl' = ctl \cup {SubMsg(client')}
  /\ UNCHANGED <<group, serve, lane, acked, spent>>

\* session.ts request: in the silence,
retry ==
  /\ client.asked /\ ctl = {} /\ lane = << >> /\ ~acked
  /\ ctl' = {SubMsg(client)}
  /\ UNCHANGED <<group, serve, client, lane, acked, spent>>

\* or racing a late answer.
race ==
  /\ client.asked /\ ~(ctl = {} /\ lane = << >> /\ ~acked) /\ SubMsg(client) \notin ctl /\ Spend("race")
  /\ ctl' = ctl \cup {SubMsg(client)}
  /\ UNCHANGED <<group, serve, client, lane, acked>>

lose(m) ==
  /\ m \in ctl /\ Spend("loss") /\ ctl' = ctl \ {m}
  /\ UNCHANGED <<group, serve, client, lane, acked>>

\* Subscription.close: UNSUB is sent once.
close ==
  /\ client.id # 0 /\ Spend("close")
  /\ client' = [client EXCEPT !.id = 0, !.asked = FALSE]
  /\ ctl' = ctl \cup {[t |-> "UNSUB", id |-> client.id]}
  /\ UNCHANGED <<group, serve, lane, acked>>

\* A SNAP chunk on c: another cursor starts the assembly again.
handleSnap(c, m) ==
  LET got == {q \in c.chunks : q.cursor = m.cursor /\ q.chunk # m.chunk} \cup {m}
  IN IF Cardinality(got) < SnapChunks THEN [c EXCEPT !.chunks = got]
     ELSE [c EXCEPT !.chunks = {}, !.cursor = m.cursor, !.table = m.body]

handleDelta(c, m) == [c EXCEPT !.cursor = m.cursor, !.table[m.key] = m.val]

\* A frame for a subscription the client no longer has is dropped.
handleFrame(c, m) ==
  IF m.id # c.id THEN c
  ELSE [(IF m.t = "SNAP" THEN handleSnap(c, m) ELSE handleDelta(c, m)) EXCEPT !.asked = FALSE]

onData ==
  /\ lane # << >>
  /\ lane' = Tail(lane) /\ acked' = TRUE
  /\ client' = handleFrame(client, Head(lane))
  /\ UNCHANGED <<group, serve, ctl, spent>>

handleSubErr(m) ==
  LET c == [client EXCEPT !.cursor = Nil, !.asked = TRUE]
  IN /\ m \in ctl /\ m.t = "SUB_ERR"
     /\ IF m.id # client.id THEN client' = client /\ ctl' = ctl \ {m}
        ELSE IF m.code = "ERR_FUTURE_CURSOR"
        THEN client' = c /\ ctl' = (ctl \ {m}) \cup {SubMsg(c)}
        ELSE client' = [client EXCEPT !.asked = FALSE] /\ ctl' = ctl \ {m}
     /\ UNCHANGED <<group, serve, lane, acked, spent>>

\* The session closes (handleSessionClosed); `restart`: the server's process did,
\* and every epoch is minted anew.
redial(restart) ==
  /\ Spend("redial")
  /\ serve' = [id \in SubId |-> NoServe]
  /\ group' = IF restart THEN [group EXCEPT !.epoch = @ + 1, !.seq = 0, !.journal = << >>,
                                            !.cache = Nil]
              ELSE [group EXCEPT !.cache = Nil]
  /\ client' = [client EXCEPT !.id = 0, !.asked = FALSE, !.chunks = {}]
  /\ ctl' = {} /\ lane' = << >> /\ acked' = FALSE

Next ==
  \/ \E k \in Key, big \in Big : publish(k, big)
  \/ \E k \in Key, fails \in BOOLEAN : resetGroup(k, fails)
  \/ \E m \in ctl, fails \in BOOLEAN : handleSub(m, fails)
  \/ \E m \in ctl : denySub(m)
  \/ \E m \in ctl : handleUnsub(m)
  \/ \E m \in ctl : handleSubErr(m)
  \/ \E m \in ctl : lose(m)
  \/ \E id \in SubId, fails \in BOOLEAN : timer(id, fails)
  \/ \E fails \in BOOLEAN : handleCapacity(fails)
  \/ \E restart \in BOOLEAN : redial(restart)
  \/ subscribe \/ retry \/ race \/ close \/ onData

Spec == Init /\ [][Next]_vars

\* Timers fire, messages in a session that is up arrive, the host subscribes.
FairSpec ==
  /\ Spec
  /\ WF_vars(onData) /\ WF_vars(\E f \in BOOLEAN : handleCapacity(f)) /\ WF_vars(retry)
  /\ WF_vars(subscribe)
  /\ WF_vars(\E m \in ctl : (\E f \in BOOLEAN : handleSub(m, f)) \/ handleUnsub(m) \/ handleSubErr(m))
  /\ \A id \in SubId : WF_vars(\E f \in BOOLEAN : timer(id, f))

--------------------------------------------------------------------------------
(* Properties *)

TypeOK ==
  /\ group.table \in [Key -> 0..MaxChange] /\ client.table \in [Key -> 0..MaxChange]
  /\ Len(group.journal) <= SUB_DELTA_RETAIN /\ Len(lane) <= LaneCap
  /\ client.id \in {0} \cup SubId /\ client.asked \in BOOLEAN
  /\ \A id \in SubId : \/ serve[id].snap = Nil
                       \/ ~serve[id].pending /\ serve[id].snap.next \in 1..SnapChunks

\* The frames on the way bring a live subscriber to the server's table, whatever
\* resyncs, paced SNAPs, shared bodies, journal replays, repeated SUBs and earlier
\* subscriptions came before (deliverDelta, catchUp, handleSub).
MirrorFollows ==
  client.id # 0 /\ Live(serve[client.id]) =>
    FoldLeft(handleFrame, client, lane).table = group.table

\* A cursor of the current epoch never claims a change the mirror lacks: a re-SUB
\* with it resumes without loss.
CursorHonest ==
  client.cursor # Nil /\ client.cursor[1] = group.epoch =>
    \A i \in DOMAIN group.journal :
      LET j == group.journal[i]
      IN j.seq <= client.cursor[2] => client.table[j.key] >= j.val

\* A resync that is due is being worked on: a SNAP not finished has a timer or an
\* acknowledgement coming (enterResync, backoff, handleCapacity).
ResyncDriven ==
  \A id \in SubId : serve[id].on /\ ~Live(serve[id]) => serve[id].timer

\* On a state of its type, the three together: the subscriber is on its way to the
\* server's table, and can resume from its cursor.
SubsSound == TypeOK /\ MirrorFollows /\ CursorHonest /\ ResyncDriven

\* A subscriber that was not denied, of a session that stays up, ends with the
\* server's table (handleSub, enterResync, pumpSnap, catchUp, handleCapacity).
CatchesUp == <>[](client.id # 0 /\ spent.deny = 0 => client.table = group.table)
================================================================================
