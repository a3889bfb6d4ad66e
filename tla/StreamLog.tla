------------------------------- MODULE StreamLog -------------------------------
(***************************************************************************)
(* One stream (topic, writer) of one node: the part of LogCore (log.ts)    *)
(* that owns the stream's head, its sq_log rows, sq_pending, sq_quarantine *)
(* and sq_floors, and every queue item that changes them.                  *)
(*                                                                         *)
(* flush() runs a whole batch in one store transaction on one thread, so   *)
(* every queue item is one atomic action here; a failed transaction is a   *)
(* step that changes nothing.  Outcomes that change no modelled state      *)
(* ("duplicate", "sealed", "rejected_finality", "dropped_overflow",        *)
(* "stale" for a stored directive, "noop", "refused") are stuttering.      *)
(*                                                                         *)
(* The topic is full-sync, retention "full", append-kind.  A hash is the   *)
(* history it covers (no collisions).  A hybrid clock value is its rank in *)
(* the total order of clock values; the watermark P of a certificate is    *)
(* given as this stream sees it: the last seq that precedes P among the    *)
(* entries stamped exactly P.hlc depends on the tie-break and is P.tie.    *)
(***************************************************************************)
EXTENDS Integers, Sequences, FiniteSets

CONSTANTS
  Own,           \* is the stream's writer this very node (may it append)?
  Outliers,      \* may an entry arrive stamped more than epsilon ahead?
  Body,          \* kinds and payloads of entries
  MaxSeq,        \* bound on sequence numbers
  MaxHlc,        \* bound on stamps of local appends
  PendingCap,    \* PENDING_CAP
  Entries,       \* entries a peer may send
  Certs,         \* finality certificates the authority has signed
  Directives,    \* writer directives the authority has signed
  SnapshotCuts,  \* cut points of canonical snapshots
  PeerFloors     \* floors a peer may answer with (TRUNCATED)

Link == [seq : Nat, hlc : Nat, body : Body]
Chain == Seq(Link)
Seed == << >>
Entry == [seq : Nat \ {0}, hlc : Nat, body : Body, chain : Chain]
Point == [seq : Nat, chain : Chain]
Cert == [generation : Nat, hlc : Nat, tie : Nat, cut : Point]
Directive == [rgen : Nat \ {0}, state : {"live", "retired"},
              finalSeq : Nat, finalChain : Chain]

ASSUME BoundsAssumption == MaxSeq \in Nat /\ MaxHlc \in Nat /\ PendingCap \in Nat
ASSUME FlagsAssumption == Own \in BOOLEAN /\ Outliers \in BOOLEAN
ASSUME InputsAssumption ==
  /\ Entries \subseteq Entry /\ \A e \in Entries : e.seq <= MaxSeq
  /\ Certs \subseteq Cert
  /\ Directives \subseteq Directive
  /\ SnapshotCuts \subseteq Point
  /\ PeerFloors \subseteq Point /\ \A f \in PeerFloors : f.seq <= MaxSeq

VARIABLES
  contig, chain,   \* sq_writers.contig_seq, contig_chain
  seal,            \* seal_reason: "none", "fork" or "retired"
  rgen, final,     \* rgen; the set holding <<final_seq, final_chain>>, if any
  rows,            \* sq_log
  pending,         \* sq_pending
  quarantine,      \* sq_quarantine
  floor,           \* sq_floors (seq 0: none)
  directives,      \* sq_directives
  cert,            \* sq_finality: the set holding the current certificate, if any
  classified,      \* certificates that passed verifyAndClassify and wait in the queue
  recovery,        \* recoveries (volatile): the set holding the target directive
  clock            \* hlcState, saved with every commit

headVars == <<contig, chain, seal, rgen, final>>
vars == <<headVars, rows, pending, quarantine, floor, directives, cert,
          classified, recovery, clock>>

TypeOK ==
  /\ contig \in Nat /\ chain \in Chain
  /\ seal \in {"none", "fork", "retired"}
  /\ rgen \in Nat /\ final \subseteq Point
  /\ rows \subseteq Entry /\ pending \subseteq Entry /\ quarantine \subseteq Entry
  /\ floor \in Point
  /\ directives \subseteq Directives
  /\ cert \subseteq Certs /\ classified \subseteq Certs
  /\ recovery \subseteq Directives
  /\ clock \in Nat

Init ==
  /\ contig = 0 /\ chain = Seed /\ seal = "none" /\ rgen = 0 /\ final = {}
  /\ rows = {} /\ pending = {} /\ quarantine = {}
  /\ floor = [seq |-> 0, chain |-> Seed]
  /\ directives = {} /\ cert = {} /\ classified = {} /\ recovery = {}
  /\ clock = 0

--------------------------------------------------------------------------------
(* Helpers *)

\* encoding.ts chainOf: the hash covers the predecessor's hash and the content.
chainOf(prev, e) == Append(prev, [seq |-> e.seq, hlc |-> e.hlc, body |-> e.body])

\* hlc.ts orderCompare(orderOf(e), P) <= 0, for entries of this stream.
AtOrBefore(e, c) == e.hlc < c.hlc \/ (e.hlc = c.hlc /\ e.seq <= c.tie)

\* The rows of rs with sequence number s (getEntry): none or one.
At(rs, s) == {r \in rs : r.seq = s}

\* Mutant of quarantinePut: the rows are deleted without being kept.
quarantinePut_Forgets(doomed) == quarantine

\* INSERT OR REPLACE INTO sq_quarantine, whose key is (topic, writer, seq).
quarantinePut(doomed) ==
  {q \in quarantine : At(doomed, q.seq) = {}} \cup doomed

\* verifyAndApply's two checks of e against its predecessor's chain ch and,
\* when the predecessor's row is held (prev), its stamp.
Verifies(e, ch, prev) == chainOf(ch, e) = e.chain /\ \A p \in prev : p.hlc <= e.hlc

\* Mutant of Follows: pending entries are drained without verification.
Follows_Unverified(p, c, ch, rs, ps) == TRUE

\* Pending entry p verifies in its turn when the head is (c, ch) over rows rs.
Follows(p, c, ch, rs, ps) ==
  IF p.seq = c + 1 THEN Verifies(p, ch, At(rs, c))
  ELSE \E q \in ps : p.seq = q.seq + 1 /\ Verifies(p, q.chain, {q})

\* drainPending from head (c, ch) over rows rs and sq_pending ps: the longest
\* run c+1..n of pending entries that verify is applied; a pending entry n+1
\* that does not verify is dropped and seals the stream.
drainPending(c, ch, rs, ps) ==
  \E n \in c..MaxSeq :
    LET run == {p \in ps : c < p.seq /\ p.seq <= n}
        bad == At(ps, n + 1)
    IN /\ \A s \in (c + 1)..n : \E p \in run : p.seq = s
       /\ \A p \in run : Follows(p, c, ch, rs, ps)
       /\ \A p \in bad : ~Follows(p, c, ch, rs, ps)
       /\ contig' = n
       /\ \/ n = c /\ chain' = ch
          \/ \E p \in run : p.seq = n /\ chain' = p.chain
       /\ rows' = rs \cup run
       /\ pending' = ps \ (run \cup bad)
       /\ seal' = IF bad = {} THEN seal ELSE "fork"

\* mergeClock: an over-epsilon stamp is annotated and not merged.
mergeClock(e) ==
  \/ clock' = IF e.hlc > clock THEN e.hlc ELSE clock
  \/ Outliers /\ clock' = clock

--------------------------------------------------------------------------------
(* Queue items *)

\* processAppend: the stamp is above every stamp and merge before it.
processAppend(b, h) ==
  /\ Own /\ seal = "none" /\ contig < MaxSeq /\ h > clock
  /\ LET prev == IF contig = 0 THEN Seed ELSE chain
         new == [seq |-> contig + 1, hlc |-> h, body |-> b]
         e == [seq |-> contig + 1, hlc |-> h, body |-> b, chain |-> chainOf(prev, new)]
     IN /\ rows' = rows \cup {e}
        /\ contig' = e.seq
        /\ chain' = e.chain
  /\ clock' = h
  /\ UNCHANGED <<seal, rgen, final, pending, quarantine, floor, directives,
                 cert, classified, recovery>>

\* validateEntry refuses the stamped entry: only the clock has moved.
AppendInvalid(h) ==
  /\ Own /\ seal = "none" /\ h > clock
  /\ clock' = h
  /\ UNCHANGED <<headVars, rows, pending, quarantine, floor, directives, cert,
                 classified, recovery>>

\* The finality check of processExternal.
OutsideCover(e) == \E c \in cert : AtOrBefore(e, c) /\ e.seq > c.cut.seq

\* processExternal, next in sequence and verified: apply, merge, drain.
ExternalApply(e) ==
  /\ seal = "none" /\ ~OutsideCover(e)
  /\ e.seq = contig + 1
  /\ Verifies(e, IF contig = 0 THEN Seed ELSE chain, At(rows, contig))
  /\ drainPending(e.seq, e.chain, rows \cup {e}, pending)
  /\ mergeClock(e)
  /\ UNCHANGED <<rgen, final, quarantine, floor, directives, cert, classified, recovery>>

\* processExternal's three fork paths: another row or another pending entry
\* already holds e.seq, or e does not verify on the head.
ExternalFork(e) ==
  /\ seal = "none" /\ ~OutsideCover(e)
  /\ \/ e.seq <= contig /\ \E r \in At(rows, e.seq) : r.chain # e.chain
     \/ /\ e.seq = contig + 1
        /\ ~Verifies(e, IF contig = 0 THEN Seed ELSE chain, At(rows, contig))
     \/ e.seq > contig + 1 /\ \E p \in At(pending, e.seq) : p.chain # e.chain
  /\ seal' = "fork"
  /\ UNCHANGED <<contig, chain, rgen, final, rows, pending, quarantine, floor,
                 directives, cert, classified, recovery, clock>>

\* processExternal, ahead of the head.
ExternalPending(e) ==
  /\ seal = "none" /\ ~OutsideCover(e)
  /\ e.seq > contig + 1 /\ At(pending, e.seq) = {}
  /\ Cardinality(pending) < PendingCap
  /\ pending' = pending \cup {e}
  /\ mergeClock(e)
  /\ UNCHANGED <<headVars, rows, quarantine, floor, directives, cert, classified, recovery>>

\* processSeal: a HAVE contradiction (section 6.4 path 2) seals a live stream.
processSeal ==
  /\ seal = "none"
  /\ seal' = "fork"
  /\ UNCHANGED <<contig, chain, rgen, final, rows, pending, quarantine, floor,
                 directives, cert, classified, recovery, clock>>

\* FinalityHub.verifyAndClassify returns "accept": judged after an await,
\* against the committed certificate, before the certificate is queued.
verifyAndClassify(c) ==
  /\ \A old \in cert : /\ c.generation > old.generation
                       /\ \/ c.hlc > old.hlc
                          \/ c.hlc = old.hlc /\ c.tie >= old.tie
  /\ classified' = classified \cup {c}
  /\ UNCHANGED <<headVars, rows, pending, quarantine, floor, directives, cert,
                 recovery, clock>>

\* Mutant of CertRewind: the rewound stream is left live.
CertRewind_Unsealed(c) ==
  /\ c \in classified
  /\ \E r \in rows : AtOrBefore(r, c) /\ r.seq > c.cut.seq
  /\ LET doomed == {r \in rows : r.seq > c.cut.seq}
     IN /\ quarantine' = quarantinePut(doomed)
        /\ rows' = rows \ doomed
  /\ contig' = c.cut.seq
  /\ chain' = IF c.cut.seq = 0 THEN Seed ELSE c.cut.chain
  /\ cert' = {c} /\ classified' = classified \ {c}
  /\ UNCHANGED <<seal, rgen, final, pending, floor, directives, recovery, clock>>

\* processCert, rows at or before P beyond the cut: quarantine, rewind, seal.
CertRewind(c) ==
  /\ c \in classified
  /\ \E r \in rows : AtOrBefore(r, c) /\ r.seq > c.cut.seq
  /\ LET doomed == {r \in rows : r.seq > c.cut.seq}
     IN /\ quarantine' = quarantinePut(doomed)
        /\ rows' = rows \ doomed
  /\ contig' = c.cut.seq
  /\ \/ c.cut.seq = 0 /\ chain' = Seed
     \/ c.cut.seq # 0 /\ \E r \in At(rows, c.cut.seq) : chain' = r.chain
     \/ c.cut.seq # 0 /\ At(rows, c.cut.seq) = {} /\ chain' = c.cut.chain
  /\ seal' = IF seal = "none" THEN "fork" ELSE seal
  /\ cert' = {c} /\ classified' = classified \ {c}
  /\ UNCHANGED <<rgen, final, pending, floor, directives, recovery, clock>>

\* processCert, nothing beyond the cut: verify the chain at the cut.
CertVerify(c) ==
  /\ c \in classified
  /\ \A r \in rows : AtOrBefore(r, c) => r.seq <= c.cut.seq
  /\ seal' = IF /\ seal = "none" /\ c.cut.seq > 0 /\ contig >= c.cut.seq
                /\ \E r \in At(rows, c.cut.seq) : r.chain # c.cut.chain
             THEN "fork" ELSE seal
  /\ cert' = {c} /\ classified' = classified \ {c}
  /\ UNCHANGED <<contig, chain, rgen, final, rows, pending, quarantine, floor,
                 directives, recovery, clock>>

\* processDirective's guards: equal rgen with other content is refused, an
\* rgen not above the head's is only stored (unless the stream is forked).
Acceptable(d) == \A s \in directives : s.rgen = d.rgen => s = d
\* Mutant of TakesEffect: the generation is not compared.
TakesEffect_AnyRgen(d) == Acceptable(d)
TakesEffect(d) == Acceptable(d) /\ (d.rgen > rgen \/ seal = "fork")

DirectiveStale(d) ==
  /\ Acceptable(d) /\ ~TakesEffect(d)
  /\ directives' = directives \cup {d}
  /\ UNCHANGED <<headVars, rows, pending, quarantine, floor, cert, classified,
                 recovery, clock>>

\* Mutant of DirectiveLive: an unretire also lifts a fork seal.
DirectiveLive_Unforks(d) ==
  /\ d.state = "live" /\ TakesEffect(d)
  /\ directives' = directives \cup {d}
  /\ seal' = "none" /\ rgen' = d.rgen /\ final' = {} /\ recovery' = {}
  /\ UNCHANGED <<contig, chain, rows, pending, quarantine, floor, cert, classified, clock>>

\* An unretire; refused, but stored, on an unresolved fork.
DirectiveLive(d) ==
  /\ d.state = "live" /\ TakesEffect(d)
  /\ directives' = directives \cup {d}
  /\ IF seal = "fork"
     THEN UNCHANGED <<seal, rgen, final, recovery>>
     ELSE /\ seal' = "none" /\ rgen' = d.rgen /\ final' = {} /\ recovery' = {}
  /\ UNCHANGED <<contig, chain, rows, pending, quarantine, floor, cert, classified, clock>>

\* localChainAtFinal === finalChain
AgreesAt(d) ==
  CASE d.finalSeq = 0 -> d.finalChain = Seed
    [] d.finalSeq # 0 /\ d.finalSeq = contig -> d.finalChain = chain
    [] OTHER -> \E r \in At(rows, d.finalSeq) : r.chain = d.finalChain

\* A retirement the local prefix agrees with.
DirectiveRetire(d) ==
  /\ d.state = "retired" /\ TakesEffect(d)
  /\ contig >= d.finalSeq /\ AgreesAt(d)
  /\ LET doomed == {r \in rows : r.seq > d.finalSeq}
     IN /\ quarantine' = quarantinePut(doomed)
        /\ rows' = rows \ doomed
  /\ contig' = d.finalSeq /\ chain' = d.finalChain
  /\ seal' = "retired" /\ rgen' = d.rgen
  /\ final' = {[seq |-> d.finalSeq, chain |-> d.finalChain]}
  /\ recovery' = {}
  /\ directives' = directives \cup {d}
  /\ UNCHANGED <<pending, floor, cert, classified, clock>>

\* Mutant of DirectiveRecover: the stream is not sealed on entering recovery.
DirectiveRecover_Unsealed(d) ==
  /\ d.state = "retired" /\ TakesEffect(d)
  /\ ~(contig >= d.finalSeq /\ AgreesAt(d))
  /\ recovery' = {d}
  /\ directives' = directives \cup {d}
  /\ UNCHANGED <<headVars, rows, pending, quarantine, floor, cert, classified, clock>>

\* A retirement the local prefix contradicts or does not reach yet.
DirectiveRecover(d) ==
  /\ d.state = "retired" /\ TakesEffect(d)
  /\ ~(contig >= d.finalSeq /\ AgreesAt(d))
  /\ seal' = IF seal = "none" THEN "fork" ELSE seal
  /\ recovery' = {d}
  /\ directives' = directives \cup {d}
  /\ UNCHANGED <<contig, chain, rgen, final, rows, pending, quarantine, floor,
                 cert, classified, clock>>

\* Mutant of Complete: final_chain is not recorded.
Complete_NoChain(t) ==
  /\ seal' = "retired" /\ rgen' = t.rgen
  /\ final' = {[seq |-> t.finalSeq]}
  /\ recovery' = {}

\* The stream retires when canonical ingest or a floor reaches the target t.
Complete(t) ==
  /\ seal' = "retired" /\ rgen' = t.rgen
  /\ final' = {[seq |-> t.finalSeq, chain |-> t.finalChain]}
  /\ recovery' = {}

\* recoveryIngest: the divergent suffix from e.seq on is quarantined, then e is
\* applied when it extends what is left, else ("forked") nothing more happens.
\* When the predecessor's row is not held the head keeps its old chain.
recoveryIngest(e, t) ==
  /\ seal # "none" /\ t \in recovery /\ e.seq <= t.finalSeq
  /\ e.seq <= contig + 1
  /\ \A r \in At(rows, e.seq) : r.chain # e.chain
  /\ LET doomed == {r \in rows : r.seq >= e.seq}
         held == At(rows, e.seq - 1)
         base == IF e.seq = 1 THEN Seed
                 ELSE IF e.seq <= contig /\ held # {}
                      THEN (CHOOSE r \in held : TRUE).chain
                      ELSE chain
     IN /\ quarantine' = quarantinePut(doomed)
        /\ \/ /\ chainOf(base, e) = e.chain
              /\ rows' = (rows \ doomed) \cup {e}
              /\ contig' = e.seq /\ chain' = e.chain
              /\ IF e.seq = t.finalSeq /\ e.chain = t.finalChain
                 THEN Complete(t)
                 ELSE UNCHANGED <<seal, rgen, final, recovery>>
           \/ /\ chainOf(base, e) # e.chain
              /\ rows' = rows \ doomed
              /\ contig' = e.seq - 1 /\ chain' = base
              /\ UNCHANGED <<seal, rgen, final, recovery>>
  /\ UNCHANGED <<pending, floor, directives, cert, classified, clock>>

\* processAdopt: a snapshot's cut moves the head forward, never back.
processAdopt(k) ==
  /\ contig < k.seq
  /\ contig' = k.seq /\ chain' = k.chain
  /\ UNCHANGED <<seal, rgen, final, rows, pending, quarantine, floor, directives,
                 cert, classified, recovery, clock>>

\* processAdoptFloor (TRUNCATED): refused on a sealed stream without a target
\* and on a floor that contradicts the target.
processAdoptFloor(f) ==
  /\ contig < f.seq
  /\ seal = "none" \/ recovery # {}
  /\ \A t \in recovery : \/ f.seq < t.finalSeq
                         \/ f.seq = t.finalSeq /\ f.chain = t.finalChain
  /\ floor' = IF f.seq > floor.seq THEN f ELSE floor
  /\ LET left == {p \in pending : p.seq > f.seq}
         reached == {t \in recovery : t.finalSeq = f.seq}
     IN \/ /\ seal = "none"
           /\ drainPending(f.seq, f.chain, rows, left)
           /\ UNCHANGED <<rgen, final, recovery>>
        \/ /\ seal # "none"
           /\ contig' = f.seq /\ chain' = f.chain /\ pending' = left
           /\ \/ reached = {} /\ UNCHANGED <<seal, rgen, final, recovery>>
              \/ \E t \in reached : Complete(t)
           /\ UNCHANGED rows
  /\ UNCHANGED <<quarantine, directives, cert, classified, clock>>

\* processPruneAcked on this stream: the walk from the oldest row stops at
\* `last` (the acknowledged floor, age, cursors and budget decide where); the
\* head row of a live stream stays, rows under an older floor always may go.
processPruneAcked(last) ==
  /\ seal # "fork" /\ recovery = {}
  /\ last \in rows
  /\ \/ last.seq <= floor.seq
     \/ seal = "none" /\ last.seq < contig
     \/ seal = "retired" /\ \A f \in final : last.seq <= f.seq
  /\ rows' = {r \in rows : r.seq > last.seq}
  /\ floor' = IF last.seq > floor.seq
              THEN [seq |-> last.seq, chain |-> last.chain] ELSE floor
  /\ UNCHANGED <<headVars, pending, quarantine, directives, cert, classified,
                 recovery, clock>>

\* The process restarts: queue and recovery targets are lost, the store is not.
Restart ==
  /\ recovery' = {} /\ classified' = {}
  /\ UNCHANGED <<headVars, rows, pending, quarantine, floor, directives, cert, clock>>

Next ==
  \/ \E b \in Body, h \in 1..MaxHlc : processAppend(b, h)
  \/ \E h \in 1..MaxHlc : AppendInvalid(h)
  \/ \E e \in Entries : ExternalApply(e)
  \/ \E e \in Entries : ExternalFork(e)
  \/ \E e \in Entries : ExternalPending(e)
  \/ processSeal
  \/ \E c \in Certs : verifyAndClassify(c)
  \/ \E c \in Certs : CertRewind(c)
  \/ \E c \in Certs : CertVerify(c)
  \/ \E d \in Directives : DirectiveStale(d)
  \/ \E d \in Directives : DirectiveLive(d)
  \/ \E d \in Directives : DirectiveRetire(d)
  \/ \E d \in Directives : DirectiveRecover(d)
  \/ \E e \in Entries, t \in Directives : recoveryIngest(e, t)
  \/ \E k \in SnapshotCuts : processAdopt(k)
  \/ \E f \in PeerFloors : processAdoptFloor(f)
  \/ \E last \in rows : processPruneAcked(last)
  \/ Restart

Spec == Init /\ [][Next]_vars

--------------------------------------------------------------------------------
(* What the code keeps *)

\* The rows held are one verified chain: no row lies above the head, the row at
\* the head carries the head's chain, a first row extends the seed and every
\* row extends its predecessor's row, if held.  Fork handling, rewinds, floor
\* and snapshot jumps and the draining of sq_pending all rebuild it.
ChainIntegrity ==
  /\ \A r \in rows : r.seq <= contig
  /\ \A r \in At(rows, contig) : r.chain = chain
  /\ \A r \in At(rows, 1) : r.chain = chainOf(Seed, r)
  /\ \A p, r \in rows : r.seq = p.seq + 1 => r.chain = chainOf(p.chain, r)

\* A row leaves sq_log only into sq_quarantine or below the retention floor, and
\* a quarantined sequence number stays quarantined: cert and directive rewinds,
\* canonical re-ingest and pruning never just delete.
NoRowLost ==
  [][/\ \A r \in rows \ rows' : r \in quarantine' \/ r.seq <= floor'.seq
     /\ \A q \in quarantine : At(quarantine', q.seq) # {}]_vars

\* Only a retirement resolves a fork (section 18): whichever item ends a fork
\* seal (the directive itself, canonical ingest, or an adopted floor), the
\* stream is then retired exactly at the final point of a stored directive.
ForkResolvedByDirective ==
  [][seal = "fork" /\ seal' # "fork" =>
       /\ seal' = "retired"
       /\ \E d \in directives' : /\ d.state = "retired" /\ d.rgen = rgen'
                                 /\ d.finalSeq = contig' /\ d.finalChain = chain']_vars

\* The head never moves back on a stream that stays live.
RewindSeals == [][contig' < contig => seal' # "none"]_vars

\* A recovery target is always a stored retirement of a sealed stream; a live
\* stream never has one, whatever restarts, floors and unretires intervene.
RecoveryBacked ==
  \A t \in recovery : t \in directives /\ t.state = "retired" /\ seal # "none"

\* Lifecycle generations go back only when a directive resolves a fork.
RgenOnlyFallsFromFork == [][rgen' < rgen => seal = "fork"]_vars

--------------------------------------------------------------------------------
(* What the documents say and the code does not keep *)

\* Section 7.5: entries at or before the watermark outside the cover are
\* rejected at ingest, so no row of theirs is held under the certificate.
NoLateRowUnderCert ==
  \A c \in cert, r \in rows : AtOrBefore(r, c) => r.seq <= c.cut.seq

\* Section 13: peers honor the highest rgen, so a head that takes a directive's
\* generation never passes over a stored retirement of a higher one.
HighestRgenWins ==
  [][rgen' # rgen => \A d \in directives : d.state = "retired" => d.rgen <= rgen']_vars

\* Section 7.5(a): the seqs of entries quarantined behind a certificate's cut
\* are permanently consumed: this node's own appends never take one again.
SeqNeverReused ==
  [][\A c \in cert, q \in quarantine :
       AtOrBefore(q, c) /\ q.seq > c.cut.seq /\ clock' > clock /\ contig' = contig + 1
         => q.seq # contig']_vars

\* Section 7.4: a node accepts only strictly increasing generations.
GenerationsIncrease ==
  [][\A old \in cert, new \in cert' : new # old => new.generation > old.generation]_vars
================================================================================
