------------------------------- MODULE Snapshot -------------------------------
(***************************************************************************)
(* Snapshot bootstrap (snapshot.ts): one node whose log is behind the      *)
(* certificate it holds, the peers that answer its WANT with an offer, and *)
(* the transfer, verification and adoption of the body.                    *)
(*                                                                         *)
(* A body, its id, its certificate and its cut are named by the            *)
(* certificate's generation: the id is the hash of the canonical body.     *)
(* The data lane is FifoLane's, bounded, and refuses what does not fit;    *)
(* the control lane loses, delays and repeats.  Directives in the body     *)
(* verify; a body that does not hash to its id does not occur.             *)
(***************************************************************************)
EXTENDS Integers, Sequences, FiniteSets, SequencesExt, FiniteSetsExt, Functions

CONSTANTS
  Peer,
  Chunks,     \* chunks of a body
  LaneCap,    \* frames the data lane takes
  MaxGen,     \* bound: certificates,
  Reach,      \* [Peer -> the last one the peer gets to hold]
  MaxRow,     \* bound: rows above every cut
  MaxTask,    \* bound: adoptions under way at once
  Bounds,     \* [loss, slow, close, overflow]: how often each may happen,
  Budget      \* and how often all of them together

ASSUME Sizes == /\ {Chunks, LaneCap, MaxGen, MaxRow, MaxTask} \subseteq Nat
                 /\ Chunks > 0 /\ LaneCap >= Chunks /\ MaxGen > 0
                 /\ Reach \in [Peer -> 1..MaxGen]

VARIABLES
  gen,        \* [Peer -> generation of the certificate the peer holds]
  body,       \* [Peer -> generation of its stored snapshot, 0: none]
  builds,     \* [Peer -> generations whose build, then offer, is under way]
  link,       \* [Peer -> [up, ctl, lane, ask]]: session, frames in flight, SNAPGET requests
  cert, have, \* the node's certificate, and the cut its log covers
  requested,  \* ids the node has asked for
  asm,        \* [Peer -> [id, got]]: assemblies
  tasks,      \* adoptions under way: a sequence of [id, at]
  rows, view, \* rows above the cuts in the log; [base, from]: the cut the view
              \* was installed at and how many of the rows it then passed over
  burned,     \* history: ids asked for in a session that closed for another reason
  spent

vars == <<gen, body, builds, link, cert, have, requested, asm, tasks, rows, view, burned, spent>>
peers == <<gen, body, builds>>
node == <<cert, have, requested, asm, tasks, rows, view, burned>>

Gen == 1..MaxGen
Msg(t, g) == [t |-> t, gen |-> g]
NoAsm == [id |-> 0, got |-> {}]
Spend(k) ==
  /\ spent[k] < Bounds[k] /\ SumFunction(spent) < Budget
  /\ spent' = [spent EXCEPT ![k] = @ + 1]

\* sendControl; a message being sent again is the same message.
Sends(l, p, m) == IF l[p].up THEN [l EXCEPT ![p].ctl = @ \cup {m}] ELSE l

Init ==
  /\ gen = [p \in Peer |-> 1] /\ body = [p \in Peer |-> 0] /\ builds = [p \in Peer |-> {}]
  /\ link = [p \in Peer |-> [up |-> TRUE, ctl |-> {}, lane |-> << >>, ask |-> {}]]
  /\ cert = 0 /\ have = 0 /\ requested = {} /\ asm = [p \in Peer |-> NoAsm] /\ tasks = << >>
  /\ rows = 0 /\ view = [base |-> 0, from |-> 0] /\ burned = {}
  /\ spent = [k \in DOMAIN Bounds |-> 0]

--------------------------------------------------------------------------------
(* Certificates and rows: what the rest of the node does *)

\* The peer accepts the next certificate.
accepts(p) ==
  /\ gen[p] < Reach[p] /\ gen' = [gen EXCEPT ![p] = @ + 1]
  /\ UNCHANGED <<body, builds, link, node, spent>>

\* The node accepts a certificate the peer pushes.
finality(p) ==
  /\ link[p].up /\ gen[p] > cert /\ cert' = gen[p]
  /\ UNCHANGED <<peers, link, have, requested, asm, tasks, rows, view, burned, spent>>

\* A row above the cuts is applied.
row ==
  /\ rows < MaxRow /\ rows' = rows + 1
  /\ UNCHANGED <<peers, link, cert, have, requested, asm, tasks, view, burned, spent>>

Takes(p, m) == m \in link[p].ctl
Taken(p, m) == [link EXCEPT ![p].ctl = @ \ {m}]

--------------------------------------------------------------------------------
(* The responder *)

\* A WANT below the cut, first sent or a retry, is served: serveWant calls
\* maybeOffer, and the build starts with the certificate the peer holds now.
maybeOffer(p) ==
  /\ link[p].up /\ cert > have
  /\ gen[p] \notin builds[p] /\ Msg("OFFER", gen[p]) \notin link[p].ctl
  /\ builds' = [builds EXCEPT ![p] = @ \cup {gen[p]}]
  /\ UNCHANGED <<gen, body, link, node, spent>>

\* buildIfStale ends, the body is stored and offered.
buildIfStale(p, g) ==
  /\ g \in builds[p] /\ builds' = [builds EXCEPT ![p] = @ \ {g}]
  /\ body' = [body EXCEPT ![p] = g]
  /\ link' = Sends(link, p, Msg("OFFER", g))
  /\ UNCHANGED <<gen, node, spent>>

Stored(p, g) == body[p] = g

room(p) == LaneCap - Len(link[p].lane)

\* The body's chunks, as many as the lane still takes.
handleGet(p, g) ==
  /\ Takes(p, Msg("GET", g))
  /\ LET out == [i \in 1..Min({Chunks, room(p)}) |-> [id |-> body[p], chunk |-> i]]
     IN link' = IF Stored(p, g) THEN [Taken(p, Msg("GET", g)) EXCEPT ![p].lane = @ \o out]
                ELSE Taken(p, Msg("GET", g))
  /\ UNCHANGED <<peers, node, spent>>

--------------------------------------------------------------------------------
(* The node *)

\* Mutant of certified: an offer or a body is taken as it comes.
certified_Any(g) == TRUE

\* The certificate held is the one the offer or the body names.
certified(g) == cert = g

asked(g) == requested \cup {g}

handleOffer(p, g) ==
  /\ Takes(p, Msg("OFFER", g))
  /\ IF certified(g) /\ have < g /\ g \notin requested
     THEN /\ requested' = asked(g)
          /\ link' = [Taken(p, Msg("OFFER", g)) EXCEPT ![p].ask = @ \cup {g},
                                                      ![p].ctl = @ \cup {Msg("GET", g)}]
     ELSE link' = Taken(p, Msg("OFFER", g)) /\ UNCHANGED requested
  /\ UNCHANGED <<peers, cert, have, asm, tasks, rows, view, burned, spent>>

\* CONTROL_RETRY_MS of an unsatisfied SNAPSHOT_GET, with nothing in flight
\* from the peer, or (slow) while a body is still on its way.
retry(p, g) ==
  /\ g \in link[p].ask /\ Msg("GET", g) \notin link[p].ctl
  /\ link[p].lane = << >> /\ UNCHANGED spent
  /\ link' = Sends(link, p, Msg("GET", g))
  /\ UNCHANGED <<peers, node>>

slow(p, g) ==
  /\ g \in link[p].ask /\ Msg("GET", g) \notin link[p].ctl
  /\ link[p].lane # << >> /\ Spend("slow")
  /\ link' = Sends(link, p, Msg("GET", g))
  /\ UNCHANGED <<peers, node>>

\* A chunk joins the peer's assembly, or starts a new one.
assembled(a, c) ==
  [id |-> c.id, got |-> (IF a.id = c.id THEN a.got ELSE {}) \cup {c.chunk}]

\* The last chunk satisfies the request and starts adopt, whose first check
\* is of the certificate held now.
handleChunk(p) ==
  /\ link[p].lane # << >> /\ Len(tasks) < MaxTask
  /\ LET c == Head(link[p].lane)
         a == assembled(asm[p], c)
         whole == a.got = 1..Chunks
     IN /\ asm' = [asm EXCEPT ![p] = IF whole THEN NoAsm ELSE a]
        /\ link' = [link EXCEPT ![p].lane = Tail(@),
                                ![p].ask = IF whole THEN @ \ {c.id} ELSE @]
        /\ tasks' = IF whole /\ certified(c.id) THEN Append(tasks, [id |-> c.id, at |-> "verify"])
                    ELSE tasks
  /\ UNCHANGED <<peers, cert, have, requested, rows, view, burned, spent>>

\* Mutant of released: the id stays marked.
released_Not(id) == requested

released(id) == requested \ {id}

\* The chunks exceed MAX_REASSEMBLY_BYTES: the id is released and the session closed.
overflow(p) ==
  /\ link[p].lane # << >> /\ Spend("overflow")
  /\ asm' = [asm EXCEPT ![p] = NoAsm]
  /\ requested' = released(Head(link[p].lane).id)
  /\ link' = [link EXCEPT ![p] = [up |-> FALSE, ctl |-> {}, lane |-> << >>, ask |-> {}]]
  /\ burned' = burned \cup (link[p].ask \ {Head(link[p].lane).id})
  /\ UNCHANGED <<peers, cert, have, tasks, rows, view>>

\* The directives are verified and the cut is adopted through the append queue.
adoptCut(i) ==
  /\ i \in 1..Len(tasks) /\ tasks[i].at = "verify"
  /\ have' = Max({have, tasks[i].id})
  /\ tasks' = [tasks EXCEPT ![i].at = "install"]
  /\ UNCHANGED <<peers, link, cert, requested, asm, rows, view, burned, spent>>

\* The directives are applied; the register and the views are installed.
adopted(i) ==
  /\ i \in 1..Len(tasks) /\ tasks[i].at = "install"
  /\ view' = [base |-> tasks[i].id, from |-> rows]
  /\ tasks' = RemoveAt(tasks, i)
  /\ UNCHANGED <<peers, link, cert, have, requested, asm, rows, burned, spent>>

--------------------------------------------------------------------------------
(* Transport *)

lose(p) ==
  /\ Spend("loss") /\ \E m \in link[p].ctl : link' = Taken(p, m)
  /\ UNCHANGED <<peers, node>>

\* A closed session drops its frames and requests; assemblies and requested stay.
close(p) ==
  /\ link[p].up /\ Spend("close")
  /\ link' = [link EXCEPT ![p] = [up |-> FALSE, ctl |-> {}, lane |-> << >>, ask |-> {}]]
  /\ burned' = burned \cup link[p].ask
  /\ UNCHANGED <<peers, cert, have, requested, asm, tasks, rows, view>>

redial(p) ==
  /\ ~link[p].up /\ link' = [link EXCEPT ![p].up = TRUE]
  /\ UNCHANGED <<peers, node, spent>>

Control(p) == \E g \in Gen : handleGet(p, g) \/ handleOffer(p, g)
Retries(p) == maybeOffer(p) \/ \E g \in Gen : retry(p, g)
Adopts == \E i \in 1..MaxTask : adoptCut(i) \/ adopted(i)

Next ==
  \/ row \/ Adopts
  \/ \E p \in Peer :
       \/ accepts(p) \/ finality(p) \/ Control(p) \/ Retries(p) \/ handleChunk(p) \/ redial(p)
       \/ overflow(p) \/ lose(p) \/ close(p)
       \/ \E g \in Gen : buildIfStale(p, g) \/ slow(p, g)

\* Messages are handled, requests retried, builds and adoptions end and
\* sessions are dialled again; new certificates and rows need not come.
Fairness ==
  /\ WF_vars(Adopts)
  /\ \A p \in Peer :
       /\ WF_vars(finality(p)) /\ WF_vars(maybeOffer(p)) /\ WF_vars(handleChunk(p)) /\ WF_vars(redial(p))
       /\ \A g \in Gen : /\ WF_vars(handleGet(p, g)) /\ WF_vars(handleOffer(p, g))
                         /\ WF_vars(retry(p, g)) /\ WF_vars(buildIfStale(p, g))

Spec == Init /\ [][Next]_vars
FairSpec == Spec /\ Fairness

--------------------------------------------------------------------------------
(* Properties *)

TypeOK ==
  /\ \A p \in Peer : /\ body[p] <= gen[p] /\ builds[p] \subseteq 1..gen[p]
                     /\ Len(link[p].lane) <= LaneCap /\ link[p].ask \subseteq Gen
                     /\ ~link[p].up => link[p].ctl = {} /\ link[p].lane = << >>
                     /\ asm[p].id \in 0..MaxGen /\ asm[p].got \subseteq 1..Chunks
                     /\ asm[p].got # 1..Chunks
  /\ cert \in 0..MaxGen /\ have \in 0..MaxGen /\ requested \subseteq Gen
  /\ Len(tasks) <= MaxTask /\ rows \in 0..MaxRow /\ view.from <= rows

\* snapshot.ts 150-171, 220-258: only a body whose certificate the node holds
\* is adopted, and a view is never installed at a cut the log does not cover.
CoverIsCertified == have <= cert /\ view.base <= have

\* snapshot.ts 161-162: two peers offering the same body do not both send it.
AskedOnce == \A p, q \in Peer : p # q => link[p].ask \cap link[q].ask = {}

\* On a state of its type, a transfer is asked for once and adopted only under a
\* certificate, however the offers of two peers cross.
TransferSound == TypeOK /\ CoverIsCertified /\ AskedOnce

\* snapshot.ts 69-113, 150-218: a node behind its certificate gets the body,
\* whatever offers, requests and rebuilds cross, unless a session
\* closed with the request for it open.
Bootstraps == cert > have ~> (cert = have \/ cert \in burned)

(* What the comments and SPEC.md say, which SnapshotBurned.cfg and its siblings refute *)

\* SPEC.md 250: after an abandoned assembly the id can be served after a redial.
BootstrapsAlways == cert > have ~> cert = have

\* SPEC.md 224-226: chunks are deduplicated; a body is adopted once, so the
\* view keeps the rows replayed since.
AdoptedOnce == [][view'.base = view.base => view'.from = view.from]_vars

\* SPEC.md 361: the view starts at the cut the log was adopted at.
ViewAtCut == tasks = << >> => view.base = have
================================================================================
