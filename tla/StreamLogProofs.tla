---------------------------- MODULE StreamLogProofs ----------------------------
(***************************************************************************)
(* Proofs about StreamLog, for every set of entries, certificates,         *)
(* directives, snapshot cuts and floors that may arrive and every bound.   *)
(*                                                                         *)
(* ChainIntegrity is not inductive alone: which row "the row at the cut"   *)
(* is, and which pending entry a drained entry was verified against, is    *)
(* determined only because sq_log and sq_pending hold one entry per seq    *)
(* (their primary keys).  RgenOnlyFallsFromFork needs that a recovery      *)
(* target still outranks the head, or the stream is still forked.          *)
(***************************************************************************)
EXTENDS StreamLog, TLAPS

\* One entry per sequence number.
Unique(es) == \A p, r \in es : p.seq = r.seq => p = r

\* ChainIntegrity of rows rs under a head (c, ch).
Linked(rs, c, ch) ==
  /\ \A r \in rs : r.seq <= c
  /\ \A r \in rs : r.seq = c => r.chain = ch
  /\ \A r \in rs : r.seq = 1 => r.chain = chainOf(Seed, r)
  /\ \A p, r \in rs : r.seq = p.seq + 1 => r.chain = chainOf(p.chain, r)

\* A recovery target outranks the head unless the stream is forked.
TargetsOutrank == \A t \in recovery : t.rgen > rgen \/ seal = "fork"

LogInv ==
  /\ TypeOK
  /\ Linked(rows, contig, chain) /\ Unique(rows) /\ Unique(pending)

RecoveryInv == RecoveryBacked /\ TargetsOutrank

Inv == LogInv /\ RecoveryInv

--------------------------------------------------------------------------------
(* Operators *)

\* Linked is ChainIntegrity stated of any rows and head.
LEMMA LinkedIsIntegrity == Linked(rows, contig, chain) <=> ChainIntegrity
BY DEF Linked, ChainIntegrity, At

\* chainOf extends a history by one link.
LEMMA ChainOfType ==
  ASSUME NEW ch \in Chain, NEW e, e.seq \in Nat, e.hlc \in Nat, e.body \in Body
  PROVE  chainOf(ch, e) \in Chain
BY DEF chainOf, Chain, Link

\* A prefix of linked rows is linked under any head whose row it holds.
LEMMA LinkedPrefix ==
  ASSUME NEW rs, rs \subseteq Entry, NEW c \in Nat, NEW ch,
         NEW k \in Nat, NEW kch, Linked(rs, c, ch),
         \A r \in rs : r.seq = k => r.chain = kch
  PROVE  Linked({r \in rs : r.seq <= k}, k, kch)
BY DEF Linked

\* A row that extends the head's chain links.
LEMMA LinkedExtend ==
  ASSUME NEW rs, rs \subseteq Entry, NEW c \in Nat, NEW ch, Linked(rs, c, ch),
         NEW e \in Entry, e.seq = c + 1,
         e.chain = chainOf(IF c = 0 THEN Seed ELSE ch, e)
  PROVE  Linked(rs \cup {e}, e.seq, e.chain)
<1>1. \A r \in rs : r.seq \in Nat \ {0} /\ r.seq <= c /\ r.seq # e.seq
  BY DEF Linked, Entry
<1>2. ASSUME NEW r \in rs \cup {e} PROVE r.seq <= e.seq /\ (r.seq = e.seq => r.chain = e.chain)
  BY <1>1, <1>2 DEF Entry
<1>3. ASSUME NEW r \in rs \cup {e}, r.seq = 1 PROVE r.chain = chainOf(Seed, r)
  <2>1. CASE r \in rs BY <1>3, <2>1 DEF Linked
  <2>2. CASE r = e
    <3>1. c = 0 BY <1>3, <2>2
    <3> QED BY <2>2, <3>1
  <2> QED BY <2>1, <2>2
<1>4. ASSUME NEW p \in rs \cup {e}, NEW r \in rs \cup {e}, r.seq = p.seq + 1
      PROVE  r.chain = chainOf(p.chain, r)
  <2>1. CASE p \in rs /\ r \in rs BY <1>4, <2>1 DEF Linked
  <2>2. CASE p \in rs /\ r = e
    <3>1. p.seq = c /\ c # 0 BY <1>1, <1>4, <2>2
    <3>2. p.chain = ch BY <2>2, <3>1 DEF Linked
    <3> QED BY <2>2, <3>1, <3>2
  <2>3. CASE p = e
    BY <1>1, <1>4, <2>3 DEF Entry
  <2> QED BY <2>1, <2>2, <2>3
<1> QED BY <1>2, <1>3, <1>4 DEF Linked

\* drainPending keeps the rows linked: every applied entry was verified against
\* the entry before it in the run, the first against the head.
LEMMA DrainKeeps ==
  ASSUME NEW c \in Nat \ {0}, NEW ch \in Chain, NEW rs, NEW ps,
         rs \subseteq Entry, ps \subseteq Entry,
         Linked(rs, c, ch), Unique(rs), Unique(ps),
         drainPending(c, ch, rs, ps)
  PROVE  /\ contig' \in Nat /\ chain' \in Chain /\ c <= contig'
         /\ rows' \subseteq Entry /\ pending' \subseteq Entry
         /\ Linked(rows', contig', chain') /\ Unique(rows') /\ Unique(pending')
         /\ rs \subseteq rows' /\ seal' \in {seal, "fork"}
<1>1. PICK n \in c..MaxSeq :
        LET run == {p \in ps : c < p.seq /\ p.seq <= n}
            bad == At(ps, n + 1)
        IN /\ \A s \in (c + 1)..n : \E p \in run : p.seq = s
           /\ \A p \in run : Follows(p, c, ch, rs, ps)
           /\ contig' = n
           /\ \/ n = c /\ chain' = ch
              \/ \E p \in run : p.seq = n /\ chain' = p.chain
           /\ rows' = rs \cup run
           /\ pending' = ps \ (run \cup bad)
           /\ seal' = IF bad = {} THEN seal ELSE "fork"
  BY DEF drainPending
<1> DEFINE run == {p \in ps : c < p.seq /\ p.seq <= n}
<1>2. n \in Nat /\ c <= n
  BY BoundsAssumption
<1>3. run \subseteq Entry /\ \A p \in run : p.seq \in Nat /\ c < p.seq /\ p.seq <= n
  BY DEF Entry
<1>4. \A r \in rs : r.seq \in Nat /\ r.seq <= c
  BY DEF Linked, Entry
<1>5. rows' = rs \cup run /\ contig' = n
  BY <1>1
<1>6. ASSUME NEW p \in run PROVE \/ p.seq = c + 1 /\ p.chain = chainOf(ch, p)
                                 \/ \E q \in run : p.seq = q.seq + 1 /\ p.chain = chainOf(q.chain, p)
  <2>1. Follows(p, c, ch, rs, ps)
    BY <1>1, <1>6
  <2>2. CASE p.seq = c + 1
    BY <2>1, <2>2 DEF Follows, Verifies
  <2>3. CASE p.seq # c + 1
    <3>1. PICK q \in ps : p.seq = q.seq + 1 /\ p.chain = chainOf(q.chain, p)
      BY <2>1, <2>3 DEF Follows, Verifies
    <3>2. q.seq \in Nat /\ p.seq \in Nat /\ c < p.seq /\ p.seq <= n
      BY <1>3, <1>6 DEF Entry
    <3>3. c < q.seq /\ q.seq <= n
      BY <1>2, <2>3, <3>1, <3>2
    <3> QED BY <3>1, <3>3
  <2> QED BY <2>2, <2>3
<1>7. ASSUME NEW p \in rows', NEW r \in rows', r.seq = p.seq + 1
      PROVE  r.chain = chainOf(p.chain, r)
  <2>1. CASE r \in rs
    <3>1. p \in rs
      BY <1>3, <1>4, <1>5, <1>7, <2>1
    <3> QED BY <1>7, <2>1, <3>1 DEF Linked
  <2>2. CASE r \in run
    <3>1. CASE r.seq = c + 1 /\ r.chain = chainOf(ch, r)
      <4>1. p.seq = c
        BY <1>3, <1>4, <1>5, <1>7, <3>1
      <4>2. p \in rs
        BY <1>3, <1>5, <1>7, <4>1
      <4> QED BY <3>1, <4>1, <4>2 DEF Linked
    <3>2. CASE \E q \in run : r.seq = q.seq + 1 /\ r.chain = chainOf(q.chain, r)
      <4>1. PICK q \in run : r.seq = q.seq + 1 /\ r.chain = chainOf(q.chain, r)
        BY <3>2
      <4>2. p.seq = q.seq /\ c < p.seq
        BY <1>3, <1>4, <1>5, <1>7, <4>1
      <4>3. p \in ps
        BY <1>4, <1>5, <1>7, <4>2
      <4> QED BY <4>1, <4>2, <4>3 DEF Unique
    <3> QED BY <1>6, <2>2, <3>1, <3>2
  <2> QED BY <1>5, <2>1, <2>2
<1>8. Unique(rows')
  BY <1>3, <1>4, <1>5 DEF Unique
<1>9. ASSUME NEW r \in rows', r.seq = contig' PROVE r.chain = chain'
  <2>1. CASE n = c /\ chain' = ch
    <3>1. r \in rs
      BY <1>3, <1>5, <1>9, <2>1
    <3> QED BY <1>5, <1>9, <2>1, <3>1 DEF Linked
  <2>2. CASE \E p \in run : p.seq = n /\ chain' = p.chain
    BY <1>5, <1>8, <1>9, <2>2 DEF Unique
  <2> QED BY <1>1, <2>1, <2>2
<1>10. \A r \in rows' : r.seq <= contig'
  BY <1>2, <1>3, <1>4, <1>5
<1>11. ASSUME NEW r \in rows', r.seq = 1 PROVE r.chain = chainOf(Seed, r)
  <2>1. r \in rs
    BY <1>3, <1>5, <1>11
  <2> QED BY <1>11, <2>1 DEF Linked
<1>12. Linked(rows', contig', chain')
  BY <1>7, <1>9, <1>10, <1>11 DEF Linked
<1>13. chain' \in Chain
  BY <1>1, <1>3 DEF Entry
<1>14. pending' \subseteq ps /\ seal' \in {seal, "fork"}
  BY <1>1
<1> QED BY <1>2, <1>3, <1>5, <1>8, <1>12, <1>13, <1>14 DEF Unique

--------------------------------------------------------------------------------
(* The rows and the head *)

\* Quarantined entries are entries.
LEMMA QuarantineType ==
  ASSUME NEW doomed, doomed \subseteq Entry, quarantine \subseteq Entry
  PROVE  quarantinePut(doomed) \subseteq Entry
BY DEF quarantinePut

\* processAppend extends the head's chain by an entry of its own.
LEMMA AppendLog ==
  ASSUME LogInv, NEW b \in Body, NEW h \in 1..MaxHlc, processAppend(b, h)
  PROVE  LogInv'
<1> DEFINE prev == IF contig = 0 THEN Seed ELSE chain
           new == [seq |-> contig + 1, hlc |-> h, body |-> b]
           e == [seq |-> contig + 1, hlc |-> h, body |-> b, chain |-> chainOf(prev, new)]
<1>1. contig \in Nat /\ h \in Nat /\ prev \in Chain
  BY BoundsAssumption DEF LogInv, TypeOK, Chain, Seed
<1>2. chainOf(prev, new) \in Chain
  BY <1>1, ChainOfType
<1>3. e \in Entry
  BY <1>1, <1>2 DEF Entry
<1>4. e.seq = contig + 1 /\ e.chain = chainOf(prev, e)
  BY DEF chainOf
<1>5. rows' = rows \cup {e} /\ contig' = e.seq /\ chain' = e.chain
  BY DEF processAppend
<1> HIDE DEF e, new
<1>6. Linked(rows', contig', chain')
  <2>1. rows \subseteq Entry /\ Linked(rows, contig, chain)
    BY DEF LogInv, TypeOK
  <2> QED BY <1>1, <1>3, <1>4, <1>5, <2>1, LinkedExtend
<1>7. Unique(rows')
  BY <1>1, <1>3, <1>4, <1>5 DEF LogInv, TypeOK, Linked, Unique, Entry
<1>8. contig' \in Nat /\ chain' \in Chain /\ rows' \subseteq Entry /\ clock' \in Nat
  BY <1>1, <1>3, <1>5 DEF processAppend, LogInv, TypeOK, Entry
<1> QED BY <1>6, <1>7, <1>8 DEF processAppend, LogInv, TypeOK

\* The finality check, the verification on the head and the draining of pending
\* entries together keep the rows linked.
LEMMA ExternalApplyLog ==
  ASSUME LogInv, NEW e \in Entries, ExternalApply(e)
  PROVE  LogInv'
<1>1. e \in Entry /\ contig \in Nat /\ rows \subseteq Entry /\ pending \subseteq Entry
      /\ Linked(rows, contig, chain) /\ Unique(rows) /\ Unique(pending)
  BY InputsAssumption DEF LogInv, TypeOK
<1>2. e.seq = contig + 1 /\ e.chain = chainOf(IF contig = 0 THEN Seed ELSE chain, e)
  BY DEF ExternalApply, Verifies
<1>3. Linked(rows \cup {e}, e.seq, e.chain)
  BY <1>1, <1>2, LinkedExtend
<1>4. Unique(rows \cup {e})
  BY <1>1, <1>2 DEF Linked, Unique, Entry
<1>5. e.seq \in Nat \ {0} /\ e.chain \in Chain /\ e.hlc \in Nat /\ rows \cup {e} \subseteq Entry
  BY <1>1 DEF Entry
<1>6. /\ contig' \in Nat /\ chain' \in Chain
      /\ rows' \subseteq Entry /\ pending' \subseteq Entry
      /\ Linked(rows', contig', chain') /\ Unique(rows') /\ Unique(pending')
      /\ seal' \in {seal, "fork"}
  BY <1>1, <1>3, <1>4, <1>5, DrainKeeps DEF ExternalApply
<1>7. clock' \in Nat
  BY <1>5 DEF ExternalApply, mergeClock, LogInv, TypeOK
<1> QED BY <1>6, <1>7 DEF ExternalApply, LogInv, TypeOK

\* Certificate rewinds leave the prefix up to the cut.
LEMMA CertRewindLog ==
  ASSUME LogInv, NEW c \in Certs, CertRewind(c)
  PROVE  LogInv'
<1> DEFINE k == c.cut.seq
           doomed == {r \in rows : r.seq > k}
<1>1. c \in Cert /\ k \in Nat /\ c.cut.chain \in Chain
  BY InputsAssumption DEF Cert, Point
<1>2. rows \subseteq Entry /\ quarantine \subseteq Entry /\ contig \in Nat
      /\ Linked(rows, contig, chain) /\ Unique(rows) /\ Unique(pending)
      /\ \A r \in rows : r.seq \in Nat \ {0} /\ r.chain \in Chain
  BY DEF LogInv, TypeOK, Entry
<1>3. rows' = {r \in rows : r.seq <= k} /\ contig' = k
  BY <1>1, <1>2 DEF CertRewind
<1>4. (\A r \in rows : r.seq = k => r.chain = chain') /\ chain' \in Chain
  <2>1. CASE k = 0 /\ chain' = Seed
    BY <1>2, <2>1 DEF Seed, Chain
  <2>2. CASE \E r \in At(rows, k) : chain' = r.chain
    BY <1>2, <2>2 DEF At, Unique
  <2>3. CASE At(rows, k) = {} /\ chain' = c.cut.chain
    BY <1>1, <2>3 DEF At
  <2> QED BY <2>1, <2>2, <2>3 DEF CertRewind
<1> HIDE DEF k
<1>5. Linked(rows', contig', chain')
  BY <1>1, <1>2, <1>3, <1>4, LinkedPrefix
<1>6. Unique(rows') /\ rows' \subseteq Entry /\ contig' \in Nat
  BY <1>1, <1>2, <1>3 DEF Unique
<1>7. quarantine' \subseteq Entry
  <2>1. doomed \subseteq Entry BY <1>2
  <2>2. quarantine' = quarantinePut(doomed) BY DEF CertRewind, k
  <2> QED BY <1>2, <2>1, <2>2, QuarantineType
<1> QED BY <1>1, <1>4, <1>5, <1>6, <1>7 DEF CertRewind, LogInv, TypeOK

\* A retirement that the local prefix agrees with leaves the prefix up to it.
LEMMA DirectiveRetireLog ==
  ASSUME LogInv, NEW d \in Directives, DirectiveRetire(d)
  PROVE  LogInv'
<1> DEFINE doomed == {r \in rows : r.seq > d.finalSeq}
<1>1. d.finalSeq \in Nat /\ d.finalChain \in Chain /\ d.rgen \in Nat
  BY InputsAssumption DEF Directive
<1>2. rows \subseteq Entry /\ quarantine \subseteq Entry /\ contig \in Nat
      /\ Linked(rows, contig, chain) /\ Unique(rows) /\ Unique(pending)
      /\ \A r \in rows : r.seq \in Nat \ {0} /\ r.chain \in Chain
  BY DEF LogInv, TypeOK, Entry
<1>3. /\ rows' = {r \in rows : r.seq <= d.finalSeq}
      /\ contig' = d.finalSeq /\ chain' = d.finalChain
  BY <1>1, <1>2 DEF DirectiveRetire
<1>4. \A r \in rows : r.seq = d.finalSeq => r.chain = d.finalChain
  <2>1. AgreesAt(d) BY DEF DirectiveRetire
  <2>2. CASE d.finalSeq = 0
    BY <1>2, <2>2
  <2>3. CASE d.finalSeq # 0 /\ d.finalSeq = contig
    BY <1>2, <2>1, <2>3 DEF AgreesAt, Linked
  <2>4. CASE d.finalSeq # 0 /\ d.finalSeq # contig
    <3>1. \E r \in At(rows, d.finalSeq) : r.chain = d.finalChain
      BY <2>1, <2>4 DEF AgreesAt
    <3> QED BY <1>2, <3>1 DEF At, Unique
  <2> QED BY <2>2, <2>3, <2>4
<1>5. Linked(rows', contig', chain')
  BY <1>1, <1>2, <1>3, <1>4, LinkedPrefix
<1>6. Unique(rows') /\ rows' \subseteq Entry
  BY <1>2, <1>3 DEF Unique
<1>7. quarantine' \subseteq Entry
  <2>1. doomed \subseteq Entry BY <1>2
  <2>2. quarantine' = quarantinePut(doomed) BY DEF DirectiveRetire
  <2> QED BY <1>2, <2>1, <2>2, QuarantineType
<1>8. final' \subseteq Point
  BY <1>1 DEF DirectiveRetire, Point
<1> QED BY <1>1, <1>3, <1>5, <1>6, <1>7, <1>8 DEF DirectiveRetire, LogInv, TypeOK

\* A predecessor's sequence number.
LEMMA Pred ==
  ASSUME NEW n \in Nat \ {0}
  PROVE  n - 1 \in Nat /\ (n - 1) + 1 = n /\ (n = 1 <=> n - 1 = 0)
OBVIOUS

\* Completing a recovery records a well-formed final point.
LEMMA CompleteType ==
  ASSUME NEW t \in Directives, Complete(t)
  PROVE  /\ seal' \in {"none", "fork", "retired"} /\ rgen' \in Nat
         /\ final' \subseteq Point /\ recovery' \subseteq Directives
<1>1. t.finalSeq \in Nat /\ t.finalChain \in Chain /\ t.rgen \in Nat
  BY InputsAssumption DEF Directive
<1> QED BY <1>1 DEF Complete, Point

\* Canonical re-ingest: the rows below e are linked under the chain `base`, and
\* e either extends them or leaves them as they are.
LEMMA RecoveryIngestLog ==
  ASSUME LogInv, NEW e \in Entries, NEW t \in Directives, recoveryIngest(e, t)
  PROVE  LogInv'
<1> DEFINE doomed == {r \in rows : r.seq >= e.seq}
           held == At(rows, e.seq - 1)
           base == IF e.seq = 1 THEN Seed
                   ELSE IF e.seq <= contig /\ held # {}
                        THEN (CHOOSE r \in held : TRUE).chain
                        ELSE chain
           k == e.seq - 1
           kept == {r \in rows : r.seq <= k}
<1>1. e \in Entry /\ e.seq \in Nat \ {0} /\ e.chain \in Chain
  BY InputsAssumption DEF Entry
<1>2. rows \subseteq Entry /\ quarantine \subseteq Entry /\ contig \in Nat /\ chain \in Chain
      /\ Linked(rows, contig, chain) /\ Unique(rows)
      /\ \A r \in rows : r.seq \in Nat \ {0} /\ r.chain \in Chain
  BY DEF LogInv, TypeOK, Entry
<1>3. k \in Nat /\ k + 1 = e.seq /\ (e.seq = 1 <=> k = 0)
  BY <1>1, Pred
<1>4. rows \ doomed = kept
  <2>1. \A r \in rows : ~(r.seq >= e.seq) <=> r.seq <= k
    BY <1>2, <1>3
  <2> QED BY <2>1
<1>5. (\A r \in rows : r.seq = k => r.chain = base) /\ base \in Chain
  <2>1. CASE e.seq = 1
    BY <1>2, <1>3, <2>1 DEF Seed, Chain
  <2>2. CASE e.seq # 1 /\ e.seq <= contig /\ held # {}
    <3>1. (CHOOSE r \in held : TRUE) \in held
      BY <2>2
    <3> QED BY <1>2, <2>2, <3>1 DEF At, Unique
  <2>3. CASE e.seq # 1 /\ e.seq <= contig /\ held = {}
    BY <1>2, <2>3 DEF At
  <2>4. CASE e.seq # 1 /\ ~(e.seq <= contig)
    <3>1. k = contig
      BY <1>1, <1>2, <1>3, <2>4 DEF recoveryIngest
    <3> QED BY <1>2, <2>4, <3>1 DEF Linked
  <2> QED BY <2>1, <2>2, <2>3, <2>4
<1>6. \/ /\ chainOf(base, e) = e.chain
         /\ rows' = kept \cup {e} /\ contig' = e.seq /\ chain' = e.chain
         /\ Complete(t) \/ UNCHANGED <<seal, rgen, final, recovery>>
      \/ /\ rows' = kept /\ contig' = k /\ chain' = base
         /\ UNCHANGED <<seal, rgen, final, recovery>>
  BY <1>4 DEF recoveryIngest
<1>7. quarantine' \subseteq Entry
  <2>1. doomed \subseteq Entry BY <1>2
  <2>2. quarantine' = quarantinePut(doomed) BY DEF recoveryIngest
  <2> QED BY <1>2, <2>1, <2>2, QuarantineType
<1>8. base = IF k = 0 THEN Seed ELSE base
  BY <1>3
<1> HIDE DEF base, k, doomed, held
<1>9. Linked(kept, k, base) /\ kept \subseteq Entry /\ Unique(kept)
  BY <1>2, <1>3, <1>5, LinkedPrefix DEF Unique
<1> HIDE DEF kept
<1>10. CASE /\ chainOf(base, e) = e.chain
            /\ rows' = kept \cup {e} /\ contig' = e.seq /\ chain' = e.chain
  <2>1. Linked(rows', contig', chain')
    BY <1>1, <1>3, <1>8, <1>9, <1>10, LinkedExtend
  <2>2. \A r \in kept : r.seq # e.seq
    BY <1>3, <1>9 DEF Linked, Entry
  <2>3. Unique(rows') /\ rows' \subseteq Entry
    BY <1>1, <1>9, <1>10, <2>2 DEF Unique
  <2>4. contig' \in Nat /\ chain' \in Chain
    BY <1>1, <1>10
  <2>5. /\ seal' \in {"none", "fork", "retired"} /\ rgen' \in Nat
        /\ final' \subseteq Point /\ recovery' \subseteq Directives
    BY <1>6, CompleteType DEF LogInv, TypeOK
  <2> QED BY <1>7, <2>1, <2>3, <2>4, <2>5 DEF recoveryIngest, LogInv, TypeOK
<1>11. CASE /\ rows' = kept /\ contig' = k /\ chain' = base
            /\ UNCHANGED <<seal, rgen, final, recovery>>
  <2>1. Linked(rows', contig', chain') /\ Unique(rows') /\ rows' \subseteq Entry
    BY <1>9, <1>11
  <2>2. contig' \in Nat /\ chain' \in Chain
    BY <1>3, <1>5, <1>11
  <2> QED BY <1>7, <1>11, <2>1, <2>2 DEF recoveryIngest, LogInv, TypeOK
<1> QED BY <1>6, <1>10, <1>11

\* A head that jumps over unheld rows (a snapshot cut, a floor) stays linked.
LEMMA LinkedJump ==
  ASSUME NEW rs, rs \subseteq Entry, NEW c \in Nat, NEW ch, Linked(rs, c, ch),
         NEW k \in Nat, c < k, NEW kch
  PROVE  Linked(rs, k, kch)
BY DEF Linked, Entry

\* processAdopt moves the head of a stream to the snapshot's cut.
LEMMA AdoptLog ==
  ASSUME LogInv, NEW k \in SnapshotCuts, processAdopt(k)
  PROVE  LogInv'
<1>1. k.seq \in Nat /\ k.chain \in Chain
  BY InputsAssumption DEF Point
<1>2. Linked(rows', contig', chain')
  BY <1>1, LinkedJump DEF processAdopt, LogInv, TypeOK
<1> QED BY <1>1, <1>2 DEF processAdopt, LogInv, TypeOK

\* processAdoptFloor moves the head to the floor and drains what follows it.
LEMMA AdoptFloorLog ==
  ASSUME LogInv, NEW f \in PeerFloors, processAdoptFloor(f)
  PROVE  LogInv'
<1> DEFINE left == {p \in pending : p.seq > f.seq}
<1>1. f \in Point /\ f.seq \in Nat /\ f.chain \in Chain
  BY InputsAssumption DEF Point
<1>2. rows \subseteq Entry /\ contig \in Nat /\ contig < f.seq
      /\ Linked(rows, contig, chain) /\ Unique(rows)
      /\ left \subseteq Entry /\ Unique(left)
  BY DEF processAdoptFloor, LogInv, TypeOK, Unique
<1>3. f.seq # 0 /\ Linked(rows, f.seq, f.chain)
  BY <1>1, <1>2, LinkedJump
<1>4. floor' \in Point
  BY <1>1 DEF processAdoptFloor, LogInv, TypeOK
<1>5. CASE seal = "none"
  <2>1. drainPending(f.seq, f.chain, rows, left) /\ UNCHANGED <<rgen, final, recovery>>
    BY <1>5 DEF processAdoptFloor
  <2>2. /\ contig' \in Nat /\ chain' \in Chain
        /\ rows' \subseteq Entry /\ pending' \subseteq Entry
        /\ Linked(rows', contig', chain') /\ Unique(rows') /\ Unique(pending')
        /\ seal' \in {seal, "fork"}
    <3> HIDE DEF left
    <3> QED BY <1>1, <1>2, <1>3, <2>1, DrainKeeps
  <2> QED BY <1>4, <2>1, <2>2 DEF processAdoptFloor, LogInv, TypeOK
<1>6. CASE seal # "none"
  <2>1. contig' = f.seq /\ chain' = f.chain /\ pending' = left /\ UNCHANGED rows
    BY <1>6 DEF processAdoptFloor
  <2>2. /\ seal' \in {"none", "fork", "retired"} /\ rgen' \in Nat
        /\ final' \subseteq Point /\ recovery' \subseteq Directives
    <3>1. \/ UNCHANGED <<seal, rgen, final, recovery>>
          \/ \E t \in recovery : Complete(t)
      BY <1>6 DEF processAdoptFloor
    <3> QED BY <3>1, CompleteType DEF LogInv, TypeOK
  <2> QED BY <1>1, <1>2, <1>3, <1>4, <2>1, <2>2 DEF processAdoptFloor, LogInv, TypeOK
<1> QED BY <1>5, <1>6

\* processPruneAcked deletes rows and leaves the others linked.
LEMMA PruneLog ==
  ASSUME LogInv, NEW last \in rows, processPruneAcked(last)
  PROVE  LogInv'
<1>1. rows' \subseteq rows /\ floor' \in Point
  BY DEF processPruneAcked, LogInv, TypeOK, Entry, Point
<1>2. Linked(rows', contig, chain) /\ Unique(rows')
  BY <1>1 DEF LogInv, Linked, Unique
<1> QED BY <1>1, <1>2 DEF processPruneAcked, LogInv, TypeOK, headVars

--------------------------------------------------------------------------------
(* The invariant is inductive *)

\* An empty store satisfies the inductive invariant.
LEMMA InitInv == Init => Inv
<1> SUFFICES ASSUME Init PROVE Inv
  OBVIOUS
<1>1. TypeOK
  BY DEF Init, TypeOK, Seed, Chain, Point
<1>2. Linked(rows, contig, chain) /\ Unique(rows) /\ Unique(pending)
  BY DEF Init, Linked, Unique
<1>3. RecoveryInv
  BY DEF Init, RecoveryInv, RecoveryBacked, TargetsOutrank
<1> QED BY <1>1, <1>2, <1>3 DEF Inv, LogInv

\* Every queue item keeps the rows linked and the types.
LEMMA NextLogInv == LogInv /\ [Next]_vars => LogInv'
<1> SUFFICES ASSUME LogInv, [Next]_vars PROVE LogInv'
  OBVIOUS
<1>1. CASE \E b \in Body, h \in 1..MaxHlc : processAppend(b, h)
  BY <1>1, AppendLog
<1>2. CASE \E h \in 1..MaxHlc : AppendInvalid(h)
  BY <1>2, BoundsAssumption DEF AppendInvalid, LogInv, TypeOK, headVars
<1>3. CASE \E e \in Entries : ExternalApply(e)
  BY <1>3, ExternalApplyLog
<1>4. CASE \E e \in Entries : ExternalFork(e)
  BY <1>4 DEF ExternalFork, LogInv, TypeOK
<1>5. ASSUME NEW e \in Entries, ExternalPending(e) PROVE LogInv'
  <2>1. e \in Entry /\ e.hlc \in Nat
    BY InputsAssumption DEF Entry
  <2>2. pending' \subseteq Entry /\ Unique(pending')
    BY <1>5, <2>1 DEF ExternalPending, At, LogInv, TypeOK, Unique
  <2>3. clock' \in Nat
    BY <1>5, <2>1 DEF ExternalPending, mergeClock, LogInv, TypeOK
  <2> QED BY <1>5, <2>2, <2>3 DEF ExternalPending, LogInv, TypeOK, headVars
<1>6. CASE processSeal
  BY <1>6 DEF processSeal, LogInv, TypeOK
<1>7. CASE \E c \in Certs : verifyAndClassify(c)
  BY <1>7 DEF verifyAndClassify, LogInv, TypeOK, headVars
<1>8. CASE \E c \in Certs : CertRewind(c)
  BY <1>8, CertRewindLog
<1>9. CASE \E c \in Certs : CertVerify(c)
  BY <1>9 DEF CertVerify, LogInv, TypeOK
<1>10. CASE \E d \in Directives : DirectiveStale(d)
  BY <1>10 DEF DirectiveStale, LogInv, TypeOK, headVars
<1>11. ASSUME NEW d \in Directives, DirectiveLive(d) PROVE LogInv'
  <2>1. d.rgen \in Nat
    BY InputsAssumption DEF Directive
  <2>2. /\ seal' \in {"none", "fork", "retired"} /\ rgen' \in Nat
        /\ final' \subseteq Point /\ recovery' \subseteq Directives
    BY <1>11, <2>1 DEF DirectiveLive, LogInv, TypeOK
  <2> QED BY <1>11, <2>2 DEF DirectiveLive, LogInv, TypeOK
<1>12. CASE \E d \in Directives : DirectiveRetire(d)
  BY <1>12, DirectiveRetireLog
<1>13. CASE \E d \in Directives : DirectiveRecover(d)
  BY <1>13 DEF DirectiveRecover, LogInv, TypeOK
<1>14. CASE \E e \in Entries, t \in Directives : recoveryIngest(e, t)
  BY <1>14, RecoveryIngestLog
<1>15. CASE \E k \in SnapshotCuts : processAdopt(k)
  BY <1>15, AdoptLog
<1>16. CASE \E f \in PeerFloors : processAdoptFloor(f)
  BY <1>16, AdoptFloorLog
<1>17. CASE \E last \in rows : processPruneAcked(last)
  BY <1>17, PruneLog
<1>18. CASE Restart
  BY <1>18 DEF Restart, LogInv, TypeOK, headVars
<1>19. CASE UNCHANGED vars
  BY <1>19 DEF vars, LogInv, TypeOK, headVars
<1> QED BY <1>1, <1>2, <1>3, <1>4, <1>5, <1>6, <1>7, <1>8, <1>9, <1>10, <1>11, <1>12,
           <1>13, <1>14, <1>15, <1>16, <1>17, <1>18, <1>19 DEF Next

\* Draining pending entries leaves the seal or forks the stream.
LEMMA DrainSeal ==
  ASSUME NEW c, NEW ch, NEW rs, NEW ps, drainPending(c, ch, rs, ps)
  PROVE  seal' \in {seal, "fork"}
BY DEF drainPending

\* Recovery targets stay stored retirements of a sealed stream, and stay above
\* the head's generation until the fork is resolved.
LEMMA NextRecoveryInv == Inv /\ [Next]_vars => RecoveryInv'
<1> SUFFICES ASSUME Inv, [Next]_vars PROVE RecoveryInv'
  OBVIOUS
<1> USE DEF Inv, RecoveryInv, RecoveryBacked, TargetsOutrank
<1>1. CASE \/ \E b \in Body, h \in 1..MaxHlc : processAppend(b, h)
           \/ \E h \in 1..MaxHlc : AppendInvalid(h)
           \/ \E e \in Entries : ExternalPending(e)
           \/ \E c \in Certs : verifyAndClassify(c)
           \/ \E k \in SnapshotCuts : processAdopt(k)
           \/ \E last \in rows : processPruneAcked(last)
           \/ UNCHANGED vars
  BY <1>1 DEF processAppend, AppendInvalid, ExternalPending, verifyAndClassify,
     processAdopt, processPruneAcked, vars, headVars
<1>2. CASE \E e \in Entries : ExternalApply(e)
  BY <1>2, DrainSeal DEF ExternalApply
<1>3. CASE \/ \E e \in Entries : ExternalFork(e)
           \/ processSeal
           \/ \E c \in Certs : CertRewind(c)
           \/ \E c \in Certs : CertVerify(c)
  BY <1>3 DEF ExternalFork, processSeal, CertRewind, CertVerify
<1>4. CASE \E d \in Directives : DirectiveStale(d)
  BY <1>4 DEF DirectiveStale, headVars
<1>5. CASE \E d \in Directives : DirectiveLive(d)
  BY <1>5 DEF DirectiveLive
<1>6. CASE \E d \in Directives : DirectiveRetire(d)
  BY <1>6 DEF DirectiveRetire
<1>7. CASE \E d \in Directives : DirectiveRecover(d)
  BY <1>7 DEF DirectiveRecover, TakesEffect
<1>8. CASE \E e \in Entries, t \in Directives : recoveryIngest(e, t)
  <2>1. PICK e \in Entries, t \in Directives : recoveryIngest(e, t)
    BY <1>8
  <2>2. UNCHANGED directives /\ (recovery' = {} \/ UNCHANGED <<seal, rgen, recovery>>)
    BY <2>1 DEF recoveryIngest, Complete
  <2> QED BY <2>2
<1>9. CASE \E f \in PeerFloors : processAdoptFloor(f)
  <2>1. PICK f \in PeerFloors : processAdoptFloor(f)
    BY <1>9
  <2>2. CASE seal = "none"
    BY <2>1, <2>2 DEF processAdoptFloor
  <2>3. CASE seal # "none"
    BY <2>1, <2>3 DEF processAdoptFloor, Complete
  <2> QED BY <2>2, <2>3
<1>10. CASE Restart
  BY <1>10 DEF Restart
<1> QED BY <1>1, <1>2, <1>3, <1>4, <1>5, <1>6, <1>7, <1>8, <1>9, <1>10 DEF Next

\* The inductive invariant holds of every state flush can produce: rows linked and
\* unique, recovery targets backed by directives that outrank the head.
THEOREM Invariance == Spec => []Inv
<1>1. Inv /\ [Next]_vars => Inv'
  BY NextLogInv, NextRecoveryInv DEF Inv
<1> QED BY <1>1, InitInv, PTL DEF Spec

\* Heads, rows and side tables keep their types through every queue item.
THEOREM TypeCorrect == Spec => []TypeOK
BY Invariance, PTL DEF Inv, LogInv

\* The rows of sq_log are always one verified chain that ends at the head.
THEOREM ChainIntact == Spec => []ChainIntegrity
<1>1. Inv => ChainIntegrity
  BY LinkedIsIntegrity DEF Inv, LogInv
<1> QED BY <1>1, Invariance, PTL

\* processDirective's recovery targets are stored retirements of sealed streams.
THEOREM RecoveryTargetsBacked == Spec => []RecoveryBacked
BY Invariance, PTL DEF Inv, RecoveryInv

--------------------------------------------------------------------------------
(* Action properties *)

\* What quarantinePut(doomed) holds: all of doomed, and every seq held before.
LEMMA QuarantineHolds ==
  ASSUME NEW doomed, quarantine' = quarantinePut(doomed)
  PROVE  /\ doomed \subseteq quarantine'
         /\ \A q \in quarantine : At(quarantine', q.seq) # {}
BY DEF quarantinePut, At

\* A row leaves sq_log only into sq_quarantine or below the retention floor, and
\* a quarantined sequence number stays quarantined.
THEOREM RowsNeverLost == Spec => NoRowLost
<1> DEFINE Kept == /\ \A r \in rows \ rows' : r \in quarantine' \/ r.seq <= floor'.seq
                   /\ \A q \in quarantine : At(quarantine', q.seq) # {}
<1>1. Inv /\ [Next]_vars => [Kept]_vars
  <2> SUFFICES ASSUME Inv, Next PROVE Kept
    OBVIOUS
  <2>1. ASSUME UNCHANGED quarantine, rows \subseteq rows' PROVE Kept
    BY <2>1 DEF At
  <2>2. ASSUME NEW doomed, quarantine' = quarantinePut(doomed), rows \ rows' \subseteq doomed
        PROVE  Kept
    BY <2>2, QuarantineHolds
  <2>3. CASE \/ \E b \in Body, h \in 1..MaxHlc : processAppend(b, h)
             \/ \E h \in 1..MaxHlc : AppendInvalid(h)
             \/ \E e \in Entries : ExternalFork(e)
             \/ \E e \in Entries : ExternalPending(e)
             \/ processSeal
             \/ \E c \in Certs : verifyAndClassify(c)
             \/ \E c \in Certs : CertVerify(c)
             \/ \E d \in Directives : DirectiveStale(d)
             \/ \E d \in Directives : DirectiveLive(d)
             \/ \E d \in Directives : DirectiveRecover(d)
             \/ \E k \in SnapshotCuts : processAdopt(k)
             \/ Restart
    BY <2>1, <2>3 DEF processAppend, AppendInvalid, ExternalFork, ExternalPending,
       processSeal, verifyAndClassify, CertVerify, DirectiveStale, DirectiveLive,
       DirectiveRecover, processAdopt, Restart
  <2>4. CASE \E e \in Entries : ExternalApply(e)
    BY <2>1, <2>4 DEF ExternalApply, drainPending
  <2>5. CASE \E c \in Certs : CertRewind(c)
    BY <2>2, <2>5 DEF CertRewind
  <2>6. CASE \E d \in Directives : DirectiveRetire(d)
    BY <2>2, <2>6 DEF DirectiveRetire
  <2>7. CASE \E e \in Entries, t \in Directives : recoveryIngest(e, t)
    <3>1. PICK e \in Entries, t \in Directives : recoveryIngest(e, t)
      BY <2>7
    <3> DEFINE doomed == {r \in rows : r.seq >= e.seq}
    <3>2. quarantine' = quarantinePut(doomed) /\ rows \ rows' \subseteq doomed
      BY <3>1 DEF recoveryIngest
    <3> QED BY <2>2, <3>2
  <2>8. CASE \E f \in PeerFloors : processAdoptFloor(f)
    BY <2>1, <2>8 DEF processAdoptFloor, drainPending
  <2>9. ASSUME NEW last \in rows, processPruneAcked(last) PROVE Kept
    <3>1. rows \subseteq Entry /\ floor \in Point
      BY DEF Inv, LogInv, TypeOK
    <3>2. \A r \in rows \ rows' : r.seq <= floor'.seq
      BY <2>9, <3>1 DEF processPruneAcked, Entry, Point
    <3>3. UNCHANGED quarantine
      BY <2>9 DEF processPruneAcked
    <3> QED BY <3>2, <3>3 DEF At
  <2> QED BY <2>3, <2>4, <2>5, <2>6, <2>7, <2>8, <2>9 DEF Next
<1> QED BY <1>1, Invariance, PTL DEF Spec, NoRowLost

\* The head never moves back on a stream that stays live: every rewind (a
\* certificate's, a directive's, canonical re-ingest's) leaves it sealed.
THEOREM RewindsSeal == Spec => RewindSeals
<1> DEFINE Sealed == contig' < contig => seal' # "none"
<1>1. Inv /\ [Next]_vars => [Sealed]_vars
  <2> SUFFICES ASSUME Inv, Next PROVE Sealed
    OBVIOUS
  <2>1. contig \in Nat /\ \A f \in PeerFloors : f.seq \in Nat
    BY InputsAssumption DEF Inv, LogInv, TypeOK, Point
  <2>2. CASE \/ \E h \in 1..MaxHlc : AppendInvalid(h)
             \/ \E e \in Entries : ExternalFork(e)
             \/ \E e \in Entries : ExternalPending(e)
             \/ processSeal
             \/ \E c \in Certs : verifyAndClassify(c)
             \/ \E c \in Certs : CertVerify(c)
             \/ \E d \in Directives : DirectiveStale(d)
             \/ \E d \in Directives : DirectiveLive(d)
             \/ \E d \in Directives : DirectiveRecover(d)
             \/ \E last \in rows : processPruneAcked(last)
             \/ Restart
    <3>1. UNCHANGED contig
      BY <2>2 DEF AppendInvalid, ExternalFork, ExternalPending, processSeal,
         verifyAndClassify, CertVerify, DirectiveStale, DirectiveLive,
         DirectiveRecover, processPruneAcked, Restart, headVars
    <3> QED BY <2>1, <3>1
  <2>3. CASE \E b \in Body, h \in 1..MaxHlc : processAppend(b, h)
    <3>1. contig' = contig + 1 BY <2>3 DEF processAppend
    <3> QED BY <2>1, <3>1
  <2>4. CASE \E e \in Entries : ExternalApply(e)
    <3>1. contig' \in (contig + 1)..MaxSeq BY <2>4 DEF ExternalApply, drainPending
    <3> QED BY <2>1, <3>1, BoundsAssumption
  <2>5. CASE \E c \in Certs : CertRewind(c)
    BY <2>5 DEF CertRewind
  <2>6. CASE \E d \in Directives : DirectiveRetire(d)
    BY <2>6 DEF DirectiveRetire
  <2>7. CASE \E e \in Entries, t \in Directives : recoveryIngest(e, t)
    BY <2>7 DEF recoveryIngest, Complete
  <2>8. CASE \E k \in SnapshotCuts : processAdopt(k)
    <3>1. contig < contig' /\ contig' \in Nat
      BY <2>8, InputsAssumption DEF processAdopt, Point
    <3> QED BY <2>1, <3>1
  <2>9. ASSUME NEW f \in PeerFloors, processAdoptFloor(f) PROVE Sealed
    <3>1. CASE seal = "none"
      <4>1. contig < f.seq /\ contig' \in f.seq..MaxSeq
        BY <2>9, <3>1 DEF processAdoptFloor, drainPending
      <4> QED BY <2>1, <4>1, BoundsAssumption
    <3>2. CASE seal # "none"
      BY <2>9, <3>2 DEF processAdoptFloor, Complete
    <3> QED BY <3>1, <3>2
  <2> QED BY <2>2, <2>3, <2>4, <2>5, <2>6, <2>7, <2>8, <2>9 DEF Next
<1> QED BY <1>1, Invariance, PTL DEF Spec, RewindSeals

\* Only a retirement ends a fork, and the stream is then retired exactly at the
\* final point of a stored directive, whichever queue item completed it.
THEOREM ForkEndsInRetirement == Spec => ForkResolvedByDirective
<1> DEFINE Resolved ==
      seal = "fork" /\ seal' # "fork" =>
        /\ seal' = "retired"
        /\ \E d \in directives' : /\ d.state = "retired" /\ d.rgen = rgen'
                                  /\ d.finalSeq = contig' /\ d.finalChain = chain'
<1>1. Inv /\ [Next]_vars => [Resolved]_vars
  <2> SUFFICES ASSUME Inv, Next, seal = "fork", seal' # "fork" PROVE Resolved
    OBVIOUS
  <2>1. ASSUME NEW t \in recovery, Complete(t), UNCHANGED directives,
               contig' = t.finalSeq, chain' = t.finalChain
        PROVE  Resolved
    BY <2>1 DEF Complete, Inv, RecoveryInv, RecoveryBacked
  <2>2. CASE \E d \in Directives : DirectiveRetire(d)
    BY <2>2 DEF DirectiveRetire
  <2>3. CASE \E e \in Entries, t \in Directives : recoveryIngest(e, t)
    <3>1. PICK e \in Entries, t \in Directives : recoveryIngest(e, t)
      BY <2>3
    <3>2. /\ t \in recovery /\ UNCHANGED directives
          /\ \/ /\ Complete(t) /\ contig' = e.seq /\ chain' = e.chain
                /\ e.seq = t.finalSeq /\ e.chain = t.finalChain
             \/ UNCHANGED seal
      BY <3>1 DEF recoveryIngest
    <3> QED BY <2>1, <3>2
  <2>4. CASE \E f \in PeerFloors : processAdoptFloor(f)
    <3>1. PICK f \in PeerFloors : processAdoptFloor(f)
      BY <2>4
    <3>2. PICK t \in recovery : /\ Complete(t) /\ t.finalSeq = f.seq
                               /\ contig' = f.seq /\ chain' = f.chain
      BY <3>1 DEF processAdoptFloor
    <3>3. f.chain = t.finalChain /\ UNCHANGED directives
      <4>1. f.seq \in Nat
        BY InputsAssumption DEF Point
      <4>2. ~(f.seq < t.finalSeq)
        BY <3>2, <4>1
      <4> QED BY <3>1, <4>2 DEF processAdoptFloor
    <3> QED BY <2>1, <3>2, <3>3
  <2>5. CASE \/ \E b \in Body, h \in 1..MaxHlc : processAppend(b, h)
             \/ \E h \in 1..MaxHlc : AppendInvalid(h)
             \/ \E e \in Entries : ExternalApply(e)
             \/ \E e \in Entries : ExternalFork(e)
             \/ \E e \in Entries : ExternalPending(e)
             \/ processSeal
             \/ \E c \in Certs : verifyAndClassify(c)
             \/ \E c \in Certs : CertRewind(c)
             \/ \E c \in Certs : CertVerify(c)
             \/ \E d \in Directives : DirectiveStale(d)
             \/ \E d \in Directives : DirectiveLive(d)
             \/ \E d \in Directives : DirectiveRecover(d)
             \/ \E k \in SnapshotCuts : processAdopt(k)
             \/ \E last \in rows : processPruneAcked(last)
             \/ Restart
    BY <2>5 DEF processAppend, AppendInvalid, ExternalApply, ExternalFork,
       ExternalPending, processSeal, verifyAndClassify, CertRewind, CertVerify,
       DirectiveStale, DirectiveLive, DirectiveRecover, processAdopt,
       processPruneAcked, Restart, headVars
  <2> QED BY <2>2, <2>3, <2>4, <2>5 DEF Next
<1> QED BY <1>1, Invariance, PTL DEF Spec, ForkResolvedByDirective

\* The head's generation goes back only when a directive resolves a fork:
\* completing a recovery later never undoes a newer directive.
THEOREM GenerationFallsOnlyFromFork == Spec => RgenOnlyFallsFromFork
<1> DEFINE Falls == rgen' < rgen => seal = "fork"
<1>1. Inv /\ [Next]_vars => [Falls]_vars
  <2> SUFFICES ASSUME Inv, Next PROVE Falls
    OBVIOUS
  <2>1. rgen \in Nat /\ recovery \subseteq Directives
        /\ \A d \in Directives : d.rgen \in Nat
    BY InputsAssumption DEF Inv, LogInv, TypeOK, Directive
  <2>2. ASSUME NEW t \in recovery, Complete(t) PROVE Falls
    <3>1. rgen' = t.rgen /\ (t.rgen > rgen \/ seal = "fork")
      BY <2>2 DEF Complete, Inv, RecoveryInv, TargetsOutrank
    <3> QED BY <2>1, <3>1
  <2>3. ASSUME UNCHANGED rgen PROVE Falls
    BY <2>1, <2>3
  <2>4. ASSUME NEW d \in Directives, TakesEffect(d), rgen' = d.rgen PROVE Falls
    BY <2>1, <2>4 DEF TakesEffect
  <2>5. CASE \E d \in Directives : DirectiveRetire(d) \/ DirectiveLive(d)
    BY <2>3, <2>4, <2>5 DEF DirectiveRetire, DirectiveLive
  <2>6. CASE \E e \in Entries, t \in Directives : recoveryIngest(e, t)
    BY <2>2, <2>3, <2>6 DEF recoveryIngest
  <2>7. CASE \E f \in PeerFloors : processAdoptFloor(f)
    BY <2>2, <2>3, <2>7 DEF processAdoptFloor
  <2>8. CASE \/ \E b \in Body, h \in 1..MaxHlc : processAppend(b, h)
             \/ \E h \in 1..MaxHlc : AppendInvalid(h)
             \/ \E e \in Entries : ExternalApply(e)
             \/ \E e \in Entries : ExternalFork(e)
             \/ \E e \in Entries : ExternalPending(e)
             \/ processSeal
             \/ \E c \in Certs : verifyAndClassify(c)
             \/ \E c \in Certs : CertRewind(c)
             \/ \E c \in Certs : CertVerify(c)
             \/ \E d \in Directives : DirectiveStale(d)
             \/ \E d \in Directives : DirectiveRecover(d)
             \/ \E k \in SnapshotCuts : processAdopt(k)
             \/ \E last \in rows : processPruneAcked(last)
             \/ Restart
    BY <2>3, <2>8 DEF processAppend, AppendInvalid, ExternalApply, ExternalFork,
       ExternalPending, processSeal, verifyAndClassify, CertRewind, CertVerify,
       DirectiveStale, DirectiveRecover, processAdopt, processPruneAcked, Restart, headVars
  <2> QED BY <2>5, <2>6, <2>7, <2>8 DEF Next
<1> QED BY <1>1, Invariance, PTL DEF Spec, RgenOnlyFallsFromFork
================================================================================
