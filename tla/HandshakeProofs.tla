---------------------------- MODULE HandshakeProofs ----------------------------
(***************************************************************************)
(* Proofs about Handshake, for any number of updates by either side and    *)
(* whatever the channel loses, duplicates and reorders.                    *)
(*                                                                         *)
(* That a settled side is understood is not inductive: it rests on what    *)
(* the frames in flight say.  A frame carries grants its sender gave at    *)
(* that generation, and an answer to generation g proves that its sender   *)
(* has left the handshake with g or later applied.                         *)
(***************************************************************************)
EXTENDS Handshake, TLAPS

\* What the frames in flight to s say of the other side.
FramesTrue ==
  \A s \in Sides : \A m \in net[s] :
    /\ m.gen <= grantsGen[Other(s)] /\ m.mode = granted[Other(s)][m.gen]
    /\ \A g \in m.ack : state[Other(s)] # "attached" /\ peerGrantsGen[Other(s)] >= g

\* The peer's grants held are those of the generation held.
HeldTrue ==
  \A s \in Sides :
    /\ peerGrantsGen[s] <= grantsGen[Other(s)]
    /\ (state[s] = "attached") => peerGrantsGen[s] = 0
    /\ (peerGrants[s] # {}) => peerGrants[s] = {granted[Other(s)][peerGrantsGen[s]]}

\* A settled side's current generation is applied by the other, unless it never
\* updated its grants.
SettledTrue ==
  \A s \in Sides :
    (state[s] = "ready" /\ ~asking[s])
    => /\ peerGrantsGen[Other(s)] = grantsGen[s]
       /\ grantsGen[s] = 0 \/ state[Other(s)] # "attached"

\* The part of TypeOK that ties a session's phase to its request and its peer's
\* grants.
PhasesTrue ==
  \A s \in Sides :
    /\ (state[s] = "attached") => (asking[s] /\ peerGrants[s] = {})
    /\ (state[s] = "ready") => peerGrants[s] # {}
    /\ (state[s] = "closed") => ~asking[s]

Inv == TypeOK /\ FramesTrue /\ HeldTrue /\ SettledTrue

--------------------------------------------------------------------------------

\* There are two sides.
LEMMA TwoSides ==
  \A s \in Sides : /\ Other(s) \in Sides /\ Other(Other(s)) = s /\ Other(s) # s
                   /\ \A t \in Sides : t = s \/ t = Other(s)
BY DEF Sides, Other

\* The sessions just constructed satisfy the invariant.
LEMMA InitInv == Init => Inv
<1> SUFFICES ASSUME Init PROVE Inv
  OBVIOUS
<1>1. 0 \in Gens
  BY HandshakeAssumption DEF Gens
<1>2. \A s \in Sides : helloMsg(s, {}) \in Hello
  BY <1>1 DEF Init, helloMsg, grants, Hello
<1>3. TypeOK
  BY <1>1, <1>2, TwoSides DEF Init, TypeOK
<1>4. FramesTrue
  BY TwoSides, <1>1 DEF Init, FramesTrue, helloMsg, grants, Gens
<1>5. HeldTrue /\ SettledTrue
  BY TwoSides DEF Init, HeldTrue, SettledTrue
<1> QED BY <1>3, <1>4, <1>5 DEF Inv

\* updateGrants opens a generation that no frame and no peer has named yet.
LEMMA UpdateInv ==
  ASSUME Inv, NEW s \in Sides, NEW m \in Modes, updateGrants(s, m)
  PROVE  Inv'
<1> USE TwoSides
<1> DEFINE n == grantsGen[s] + 1
           f == [gen |-> n, mode |-> m, ack |-> {}]
<1>1. n \in Gens /\ grantsGen[s] \in Nat /\ n \in Nat /\ grantsGen[s] < n
  BY HandshakeAssumption DEF Inv, TypeOK, updateGrants, Gens
<1>2. f \in Hello
  BY <1>1 DEF Hello
<1> HIDE DEF n, f
<1>3. TypeOK'
  <2>1. granted' \in [Sides -> [Gens -> Modes]]
    <3>1. granted \in [Sides -> [Gens -> Modes]] /\ granted[s] \in [Gens -> Modes]
      BY DEF Inv, TypeOK
    <3>2. granted' = [granted EXCEPT ![s] = [@ EXCEPT ![n] = m]]
      BY DEF updateGrants, n
    <3> QED BY <1>1, <3>1, <3>2
  <2>2. net' \in [Sides -> SUBSET Hello]
    <3>1. net' = [net EXCEPT ![Other(s)] = @ \cup {f}]
      BY DEF updateGrants, f, n
    <3>2. net \in [Sides -> SUBSET Hello] /\ net[Other(s)] \cup {f} \in SUBSET Hello
      BY <1>2 DEF Inv, TypeOK
    <3> QED BY <3>1, <3>2
  <2>3. grantsGen' \in [Sides -> Gens]
    BY <1>1 DEF Inv, TypeOK, updateGrants, n
  <2>4. asking' \in [Sides -> BOOLEAN] /\ asking'[s] /\ \A t \in Sides : t # s => asking'[t] = asking[t]
    BY DEF Inv, TypeOK, updateGrants
  <2>5. PhasesTrue'
    BY <2>4 DEF Inv, TypeOK, PhasesTrue, updateGrants
  <2> QED BY <2>1, <2>2, <2>3, <2>4, <2>5 DEF Inv, TypeOK, PhasesTrue, updateGrants
<1>4. \A t \in Sides : \A g \in Gens :
        g <= grantsGen[t] => g <= grantsGen'[t] /\ granted'[t][g] = granted[t][g]
  BY <1>1, HandshakeAssumption DEF Inv, TypeOK, updateGrants, Gens, n
<1>5. granted'[s][n] = m /\ grantsGen'[s] = n
  BY <1>1 DEF Inv, TypeOK, updateGrants, n
<1>6. FramesTrue'
  <2> SUFFICES ASSUME NEW t \in Sides, NEW h \in net'[t]
               PROVE  /\ h.gen <= grantsGen'[Other(t)] /\ h.mode = granted'[Other(t)][h.gen]
                      /\ \A g \in h.ack : state'[Other(t)] # "attached"
                                          /\ peerGrantsGen'[Other(t)] >= g
    BY DEF FramesTrue
  <2>1. CASE h \in net[t]
    <3>1. h.gen \in Gens
      BY <2>1 DEF Inv, TypeOK, Hello
    <3> QED BY <2>1, <3>1, <1>4 DEF Inv, FramesTrue, updateGrants
  <2>2. CASE h \notin net[t]
    <3>1. t = Other(s) /\ h = f
      BY <2>2 DEF Inv, TypeOK, updateGrants, f, n
    <3> QED BY <3>1, <1>1, <1>5 DEF f
  <2> QED BY <2>1, <2>2
<1>7. HeldTrue'
  <2> SUFFICES ASSUME NEW t \in Sides
               PROVE  /\ peerGrantsGen'[t] <= grantsGen'[Other(t)]
                      /\ (state'[t] = "attached") => peerGrantsGen'[t] = 0
                      /\ (peerGrants'[t] # {}) => peerGrants'[t] = {granted'[Other(t)][peerGrantsGen'[t]]}
    BY DEF HeldTrue
  <2>1. peerGrantsGen[t] \in Gens
    BY DEF Inv, TypeOK
  <2> QED BY <2>1, <1>4 DEF Inv, HeldTrue, updateGrants
<1>8. SettledTrue'
  BY DEF Inv, TypeOK, SettledTrue, updateGrants
<1> QED BY <1>3, <1>6, <1>7, <1>8 DEF Inv

\* A request or an answer that carries a side's current grants is true.
LEMMA SendKeeps ==
  ASSUME Inv, NEW s \in Sides, NEW ack \in {{}} \cup {{g} : g \in Gens}
  PROVE  /\ helloMsg(s, ack) \in Hello
         /\ helloMsg(s, ack).gen <= grantsGen[s]
         /\ helloMsg(s, ack).mode = granted[s][helloMsg(s, ack).gen]
         /\ helloMsg(s, ack).ack = ack
<1>1. grantsGen[s] \in Gens /\ grantsGen[s] \in Nat
  BY HandshakeAssumption DEF Inv, TypeOK, Gens
<1>2. grants(s) \in Modes
  BY <1>1 DEF Inv, TypeOK, grants
<1>3. helloMsg(s, ack) = [gen |-> grantsGen[s], mode |-> grants(s), ack |-> ack]
  BY DEF helloMsg
<1>4. helloMsg(s, ack) \in Hello
  BY <1>1, <1>2, <1>3 DEF Hello
<1> QED BY <1>1, <1>3, <1>4 DEF grants

\* The initial HELLO: what it says is true, and a side with updated grants goes
\* on asking.
LEMMA HelloInv ==
  ASSUME Inv, NEW s \in Sides, NEW m \in net[s], onHello(s, m)
  PROVE  Inv'
<1> USE TwoSides
<1>1. /\ m \in Hello /\ m.gen \in Gens /\ m.gen \in Nat /\ m.mode \in Modes
      /\ m.gen <= grantsGen[Other(s)] /\ m.mode = granted[Other(s)][m.gen]
      /\ grantsGen \in [Sides -> Nat] /\ peerGrantsGen \in [Sides -> Nat]
  BY HandshakeAssumption DEF Inv, TypeOK, FramesTrue, Hello, Gens
<1> DEFINE f == helloMsg(s, {})
<1>2. /\ f \in Hello /\ f.gen <= grantsGen[s]
      /\ f.mode = granted[s][f.gen] /\ f.ack = {}
  BY SendKeeps
<1> HIDE DEF f
<1>3. \A t \in Sides : \A h \in net'[t] : h \in net[t] \/ (t = Other(s) /\ h = f)
  BY DEF Inv, TypeOK, onHello, f
<1>4. TypeOK'
  <2>1. net' \in [Sides -> SUBSET Hello]
    BY <1>2, <1>3 DEF Inv, TypeOK, onHello, f
  <2>2. asking' \in [Sides -> BOOLEAN] /\ asking'[s] = (grantsGen[s] > 0)
    BY DEF Inv, TypeOK, onHello
  <2>3. /\ state' \in [Sides -> {"attached", "ready", "closed"}]
        /\ peerGrants' \in [Sides -> {{}} \cup {{x} : x \in Modes}]
        /\ peerGrantsGen' \in [Sides -> Gens]
    BY <1>1 DEF Inv, TypeOK, onHello
  <2>4. state'[s] = "ready" /\ peerGrants'[s] # {}
    BY DEF Inv, TypeOK, onHello
  <2>5. \A t \in Sides : t # s => /\ state'[t] = state[t] /\ asking'[t] = asking[t]
                                  /\ peerGrants'[t] = peerGrants[t]
    BY DEF Inv, TypeOK, onHello
  <2>6. PhasesTrue'
    BY <2>4, <2>5 DEF Inv, TypeOK, PhasesTrue
  <2> QED BY <2>1, <2>2, <2>3, <2>6 DEF Inv, TypeOK, PhasesTrue, onHello
<1>5. FramesTrue'
  <2> SUFFICES ASSUME NEW t \in Sides, NEW h \in net'[t]
               PROVE  /\ h.gen <= grantsGen[Other(t)] /\ h.mode = granted[Other(t)][h.gen]
                      /\ \A g \in h.ack : state'[Other(t)] # "attached"
                                          /\ peerGrantsGen'[Other(t)] >= g
    BY DEF FramesTrue, onHello
  <2>1. CASE h \in net[t]
    <3>1. \A g \in h.ack : state[Other(t)] # "attached" /\ peerGrantsGen[Other(t)] >= g
      BY <2>1 DEF Inv, FramesTrue
    <3>2. \A g \in h.ack : Other(t) # s
      BY <3>1 DEF onHello
    <3> QED BY <2>1, <3>1, <3>2 DEF Inv, TypeOK, FramesTrue, onHello
  <2>2. CASE t = Other(s) /\ h = f
    BY <2>2, <1>2
  <2> QED BY <1>3, <2>1, <2>2
<1>6. HeldTrue'
  <2>1. /\ peerGrantsGen'[s] = m.gen /\ state'[s] = "ready" /\ peerGrants'[s] = {m.mode}
        /\ grantsGen' = grantsGen /\ granted' = granted
    BY DEF Inv, TypeOK, onHello
  <2>2. \A t \in Sides : t # s => /\ state'[t] = state[t] /\ peerGrants'[t] = peerGrants[t]
                                  /\ peerGrantsGen'[t] = peerGrantsGen[t]
    BY DEF Inv, TypeOK, onHello
  <2> QED BY <1>1, <2>1, <2>2 DEF Inv, HeldTrue
<1>7. SettledTrue'
  <2> SUFFICES ASSUME NEW t \in Sides, state'[t] = "ready", ~asking'[t]
               PROVE  /\ peerGrantsGen'[Other(t)] = grantsGen[t]
                      /\ grantsGen[t] = 0 \/ state'[Other(t)] # "attached"
    BY DEF SettledTrue, onHello
  <2>1. CASE t = s
    <3>1. grantsGen[s] = 0
      BY <2>1, <1>1 DEF Inv, TypeOK, onHello
    <3>2. peerGrantsGen[Other(s)] <= 0 /\ peerGrantsGen'[Other(s)] = peerGrantsGen[Other(s)]
      BY <3>1 DEF Inv, TypeOK, HeldTrue, onHello
    <3> QED BY <2>1, <3>1, <3>2, <1>1
  <2>2. CASE t = Other(s)
    <3>1. state[t] = "ready" /\ ~asking[t] /\ state[s] = "attached"
      BY <2>2 DEF Inv, TypeOK, onHello
    <3>2. grantsGen[t] = 0 /\ peerGrantsGen'[s] = m.gen /\ state'[s] = "ready"
      BY <2>2, <3>1 DEF Inv, TypeOK, SettledTrue, onHello
    <3> QED BY <2>2, <3>2, <1>1
  <2> QED BY <2>1, <2>2
<1> QED BY <1>4, <1>5, <1>6, <1>7 DEF Inv

\* A HELLO in the ready state: the generation held only grows, and to an answer
\* it has grown at least to the generation answered.
LEMMA HelloUpdateInv ==
  ASSUME Inv, NEW s \in Sides, NEW m \in net[s], onHelloUpdate(s, m)
  PROVE  Inv'
<1> USE TwoSides
<1>1. /\ m \in Hello /\ m.gen \in Gens /\ m.gen \in Nat /\ m.mode \in Modes
      /\ m.gen <= grantsGen[Other(s)] /\ m.mode = granted[Other(s)][m.gen]
      /\ \A g \in m.ack : state[Other(s)] # "attached" /\ peerGrantsGen[Other(s)] >= g
      /\ grantsGen \in [Sides -> Nat] /\ peerGrantsGen \in [Sides -> Nat]
  BY HandshakeAssumption DEF Inv, TypeOK, FramesTrue, Hello, Gens
<1> DEFINE f == helloMsg(s, {m.gen})
<1>2. /\ f \in Hello /\ f.gen <= grantsGen[s]
      /\ f.mode = granted[s][f.gen] /\ f.ack = {m.gen}
  <2>1. {m.gen} \in {{}} \cup {{g} : g \in Gens}
    BY <1>1
  <2> QED BY <2>1, SendKeeps
<1> HIDE DEF f
<1>3. \A t \in Sides : \A h \in net'[t] : h \in net[t] \/ (t = Other(s) /\ h = f)
  BY DEF Inv, TypeOK, onHelloUpdate, f
<1>4. /\ \A t \in Sides : t # s => peerGrantsGen'[t] = peerGrantsGen[t] /\ peerGrants'[t] = peerGrants[t]
      /\ peerGrantsGen'[s] >= peerGrantsGen[s] /\ peerGrantsGen'[s] >= m.gen
      /\ peerGrantsGen'[s] <= grantsGen[Other(s)]
      /\ peerGrantsGen' \in [Sides -> Gens] /\ peerGrantsGen'[s] \in Nat
      /\ peerGrants' \in [Sides -> {{}} \cup {{x} : x \in Modes}]
      /\ peerGrants'[s] = {granted[Other(s)][peerGrantsGen'[s]]}
  <2>1. CASE m.gen > peerGrantsGen[s]
    <3>1. /\ peerGrantsGen' = [peerGrantsGen EXCEPT ![s] = m.gen]
          /\ peerGrants' = [peerGrants EXCEPT ![s] = {m.mode}]
      BY <2>1 DEF onHelloUpdate, Refresh
    <3>2. /\ peerGrantsGen \in [Sides -> Gens]
          /\ peerGrants \in [Sides -> {{}} \cup {{x} : x \in Modes}]
      BY DEF Inv, TypeOK
    <3>3. /\ peerGrantsGen' \in [Sides -> Gens] /\ peerGrantsGen'[s] = m.gen
          /\ \A t \in Sides : t # s => peerGrantsGen'[t] = peerGrantsGen[t]
      BY <1>1, <3>1, <3>2
    <3>4. /\ peerGrants' \in [Sides -> {{}} \cup {{x} : x \in Modes}]
          /\ peerGrants'[s] = {m.mode}
          /\ \A t \in Sides : t # s => peerGrants'[t] = peerGrants[t]
      BY <1>1, <3>1, <3>2
    <3> QED BY <2>1, <1>1, <3>3, <3>4
  <2>2. CASE ~(m.gen > peerGrantsGen[s])
    <3>1. peerGrantsGen' = peerGrantsGen /\ peerGrants' = peerGrants
      BY <2>2 DEF onHelloUpdate, Refresh
    <3>2. /\ peerGrantsGen \in [Sides -> Gens] /\ peerGrants[s] # {}
          /\ peerGrants \in [Sides -> {{}} \cup {{x} : x \in Modes}]
      BY DEF Inv, TypeOK, onHelloUpdate
    <3>3. /\ peerGrantsGen[s] <= grantsGen[Other(s)]
          /\ peerGrants[s] = {granted[Other(s)][peerGrantsGen[s]]}
      BY <3>2 DEF Inv, HeldTrue
    <3>4. peerGrantsGen[s] \in Nat /\ peerGrantsGen[s] >= m.gen
      BY <2>2, <1>1
    <3> QED BY <1>1, <3>1, <3>2, <3>3, <3>4
  <2> QED BY <2>1, <2>2
<1>5. /\ state' = state /\ grantsGen' = grantsGen /\ granted' = granted /\ state[s] = "ready"
      /\ asking' \in [Sides -> BOOLEAN]
      /\ \A t \in Sides : t # s => asking'[t] = asking[t]
      /\ asking'[s] = (asking[s] /\ m.ack # {grantsGen[s]})
  BY DEF Inv, TypeOK, onHelloUpdate
<1>6. TypeOK'
  <2>1. net' \in [Sides -> SUBSET Hello]
    BY <1>2, <1>3 DEF Inv, TypeOK, onHelloUpdate, f
  <2>2. peerGrants'[s] # {}
    BY <1>4
  <2>3. PhasesTrue'
    <3> SUFFICES ASSUME NEW t \in Sides
                 PROVE  /\ (state'[t] = "attached") => (asking'[t] /\ peerGrants'[t] = {})
                        /\ (state'[t] = "ready") => peerGrants'[t] # {}
                        /\ (state'[t] = "closed") => ~asking'[t]
      BY DEF PhasesTrue
    <3>1. CASE t = s
      BY <3>1, <2>2, <1>5
    <3>2. CASE t # s
      BY <3>2, <1>4, <1>5 DEF Inv, TypeOK
    <3> QED BY <3>1, <3>2
  <2>4. /\ state \in [Sides -> {"attached", "ready", "closed"}]
        /\ grantsGen \in [Sides -> Gens] /\ granted \in [Sides -> [Gens -> Modes]]
    BY DEF Inv, TypeOK
  <2>5. /\ state' \in [Sides -> {"attached", "ready", "closed"}]
        /\ grantsGen' \in [Sides -> Gens] /\ granted' \in [Sides -> [Gens -> Modes]]
        /\ peerGrantsGen' \in [Sides -> Gens]
        /\ asking' \in [Sides -> BOOLEAN]
    BY <2>4, <1>4, <1>5
  <2>6. peerGrants' \in [Sides -> {{}} \cup {{x} : x \in Modes}]
    BY <1>4
  <2> QED BY <2>1, <2>3, <2>5, <2>6, Zenon DEF TypeOK, PhasesTrue
<1>7. FramesTrue'
  <2> SUFFICES ASSUME NEW t \in Sides, NEW h \in net'[t]
               PROVE  /\ h.gen <= grantsGen[Other(t)] /\ h.mode = granted[Other(t)][h.gen]
                      /\ \A g \in h.ack : state[Other(t)] # "attached"
                                          /\ peerGrantsGen'[Other(t)] >= g
    BY <1>5 DEF FramesTrue
  <2>1. CASE h \in net[t]
    <3>1. \A g \in h.ack : g \in Nat
      <4>1. h.ack \in {{}} \cup {{g} : g \in Gens}
        BY <2>1 DEF Inv, TypeOK, Hello
      <4> QED BY <4>1, HandshakeAssumption DEF Gens
    <3> QED BY <2>1, <3>1, <1>1, <1>4 DEF Inv, FramesTrue
  <2>2. CASE t = Other(s) /\ h = f
    BY <2>2, <1>2, <1>4, <1>5
  <2> QED BY <1>3, <2>1, <2>2
<1>8. HeldTrue'
  BY <1>4, <1>5 DEF Inv, HeldTrue
<1>9. SettledTrue'
  <2> SUFFICES ASSUME NEW t \in Sides, state[t] = "ready", ~asking'[t]
               PROVE  /\ peerGrantsGen'[Other(t)] = grantsGen[t]
                      /\ grantsGen[t] = 0 \/ state[Other(t)] # "attached"
    BY <1>5 DEF SettledTrue
  <2>1. CASE t = s /\ asking[s]
    <3>1. m.ack = {grantsGen[s]}
      BY <2>1, <1>5
    <3>2. state[Other(s)] # "attached" /\ peerGrantsGen[Other(s)] >= grantsGen[s]
      BY <3>1, <1>1
    <3>3. peerGrantsGen[Other(s)] <= grantsGen[s]
      BY DEF Inv, HeldTrue
    <3> QED BY <2>1, <3>2, <3>3, <1>1, <1>4
  <2>2. CASE t = s /\ ~asking[s]
    BY <2>2, <1>4 DEF Inv, SettledTrue
  <2>3. CASE t = Other(s)
    <3>1. peerGrantsGen[s] = grantsGen[t]
      BY <2>3, <1>5 DEF Inv, SettledTrue
    <3> QED BY <2>3, <3>1, <1>1, <1>4, <1>5
  <2> QED BY <2>1, <2>2, <2>3
<1> QED BY <1>6, <1>7, <1>8, <1>9 DEF Inv

\* One step per action of Next.
LEMMA NextInv == Inv /\ [Next]_vars => Inv'
<1> SUFFICES ASSUME Inv, [Next]_vars PROVE Inv'
  OBVIOUS
<1> USE TwoSides
<1>1. ASSUME NEW s \in Sides, retry(s) PROVE Inv'
  <2> DEFINE f == helloMsg(s, {})
  <2>1. /\ f \in Hello /\ f.gen <= grantsGen[s]
        /\ f.mode = granted[s][f.gen] /\ f.ack = {}
    BY SendKeeps
  <2> HIDE DEF f
  <2>2. \A t \in Sides : \A h \in net'[t] : h \in net[t] \/ (t = Other(s) /\ h = f)
    BY <1>1 DEF Inv, TypeOK, retry, f
  <2>3. net' \in [Sides -> SUBSET Hello]
    BY <1>1, <2>1 DEF Inv, TypeOK, retry, f
  <2>4. TypeOK' /\ HeldTrue' /\ SettledTrue'
    BY <1>1, <2>3 DEF Inv, TypeOK, HeldTrue, SettledTrue, retry, local
  <2>5. FramesTrue'
    BY <1>1, <2>1, <2>2 DEF Inv, FramesTrue, retry, local
  <2> QED BY <2>4, <2>5 DEF Inv
<1>2. ASSUME NEW s \in Sides, close(s) PROVE Inv'
  <2>1. TypeOK'
    BY <1>2 DEF Inv, TypeOK, close
  <2>2. /\ \A t \in Sides : state'[t] # "closed" => state'[t] = state[t] /\ asking'[t] = asking[t]
        /\ \A t \in Sides : state[t] # "attached" => state'[t] # "attached"
        /\ UNCHANGED <<grantsGen, granted, peerGrants, peerGrantsGen, net>>
    <3>1. \A t \in Sides : t # s => state'[t] = state[t] /\ asking'[t] = asking[t]
      BY <1>2 DEF Inv, TypeOK, close
    <3>2. state'[s] = "closed"
      BY <1>2 DEF Inv, TypeOK, close
    <3>3. UNCHANGED <<grantsGen, granted, peerGrants, peerGrantsGen, net>>
      BY <1>2 DEF close
    <3> QED BY <3>1, <3>2, <3>3
  <2>3. FramesTrue'
    BY <2>2 DEF Inv, FramesTrue
  <2>4. HeldTrue'
    BY <2>2 DEF Inv, HeldTrue
  <2>5. SettledTrue'
    BY <2>2 DEF Inv, SettledTrue
  <2> QED BY <2>1, <2>3, <2>4, <2>5 DEF Inv
<1>3. ASSUME NEW s \in Sides, NEW m \in net[s], Lose(s, m) PROVE Inv'
  <2>1. TypeOK' /\ HeldTrue' /\ SettledTrue'
    BY <1>3 DEF Inv, TypeOK, HeldTrue, SettledTrue, Lose, local
  <2>2. FramesTrue'
    BY <1>3 DEF Inv, TypeOK, FramesTrue, Lose, local
  <2> QED BY <2>1, <2>2 DEF Inv
<1>4. CASE UNCHANGED vars
  <2>1. /\ UNCHANGED <<state, grantsGen, granted, asking>>
        /\ UNCHANGED <<peerGrants, peerGrantsGen, net>>
    BY <1>4 DEF vars, local
  <2>2. TypeOK'
    BY <2>1 DEF Inv, TypeOK
  <2>3. FramesTrue' /\ HeldTrue' /\ SettledTrue'
    BY <2>1 DEF Inv, FramesTrue, HeldTrue, SettledTrue
  <2> QED BY <2>2, <2>3 DEF Inv
<1> QED BY <1>1, <1>2, <1>3, <1>4, UpdateInv, HelloInv, HelloUpdateInv DEF Next

\* The inductive invariant holds from the construction of the sessions on.
THEOREM Invariance == Spec => []Inv
<1> QED BY InitInv, NextInv, PTL DEF Spec

\* The types of a session's handshake state hold, a request never outlives its
\* session, and a ready session holds grants of its peer.
THEOREM TypeCorrect == Spec => []TypeOK
<1>1. Inv => TypeOK
  BY DEF Inv
<1> QED BY <1>1, Invariance, PTL

\* A session whose HELLO request is satisfied is understood by a ready peer, for
\* any number of updateGrants calls racing the handshake and each other.
THEOREM SettledKnown == Spec => []SettledMeansKnown
<1>1. Inv => SettledMeansKnown
  <2> SUFFICES ASSUME Inv, NEW s \in Sides, state[s] = "ready", ~asking[s],
                      state[Other(s)] = "ready"
               PROVE  peerGrants[Other(s)] = {grants(s)}
    BY DEF SettledMeansKnown
  <2>1. peerGrantsGen[Other(s)] = grantsGen[s]
    BY DEF Inv, SettledTrue
  <2>2. peerGrants[Other(s)] # {}
    BY TwoSides DEF Inv, TypeOK
  <2> QED BY <2>1, <2>2, TwoSides DEF Inv, HeldTrue, grants
<1> QED BY <1>1, Invariance, PTL

\* Two settled sessions agree on which topics they sync in full.
THEOREM MutualFullAgrees == Spec => []MutualAgree
<1>1. SettledMeansKnown => MutualAgree
  BY DEF SettledMeansKnown, MutualAgree, mutualFull, refused, Sides, Other
<1> QED BY <1>1, SettledKnown, PTL

\* The grants a session holds are of a generation its peer really gave, and
\* never of an earlier one than before.
THEOREM GrantsMonotone == Spec => GrantsNeverRevert
<1>1. Inv /\ Inv' /\ [Next]_vars =>
        [\A s \in Sides :
           /\ peerGrantsGen'[s] >= peerGrantsGen[s]
           /\ peerGrants'[s] # {} => peerGrants'[s] = {granted'[Other(s)][peerGrantsGen'[s]]}]_vars
  <2> SUFFICES ASSUME Inv, Inv', [Next]_vars, NEW s \in Sides
               PROVE  /\ peerGrantsGen'[s] >= peerGrantsGen[s]
                      /\ peerGrants'[s] # {} => peerGrants'[s] = {granted'[Other(s)][peerGrantsGen'[s]]}
    OBVIOUS
  <2>1. peerGrants'[s] # {} => peerGrants'[s] = {granted'[Other(s)][peerGrantsGen'[s]]}
    BY DEF Inv, HeldTrue
  <2>2. peerGrantsGen[s] \in Nat /\ peerGrantsGen'[s] \in Nat
    BY HandshakeAssumption DEF Inv, TypeOK, Gens
  <2>3. ASSUME NEW t \in Sides, NEW m \in net[t], onHello(t, m)
        PROVE  peerGrantsGen'[s] >= peerGrantsGen[s]
    <3>1. peerGrantsGen[t] = 0
      BY <2>3 DEF Inv, HeldTrue, onHello
    <3>2. s # t => peerGrantsGen'[s] = peerGrantsGen[s]
      BY <2>3 DEF Inv, TypeOK, onHello
    <3> QED BY <3>1, <3>2, <2>2
  <2>4. ASSUME NEW t \in Sides, NEW m \in net[t], onHelloUpdate(t, m)
        PROVE  peerGrantsGen'[s] >= peerGrantsGen[s]
    <3>1. CASE m.gen > peerGrantsGen[t]
      <4>1. s # t => peerGrantsGen'[s] = peerGrantsGen[s]
        BY <2>4, <3>1 DEF Inv, TypeOK, onHelloUpdate, Refresh
      <4>2. peerGrantsGen'[t] = m.gen
        BY <2>4, <3>1 DEF Inv, TypeOK, onHelloUpdate, Refresh
      <4> QED BY <4>1, <4>2, <3>1, <2>2
    <3>2. CASE ~(m.gen > peerGrantsGen[t])
      BY <2>4, <3>2, <2>2 DEF onHelloUpdate, Refresh
    <3> QED BY <3>1, <3>2
  <2>5. CASE peerGrantsGen' = peerGrantsGen
    BY <2>1, <2>5, <2>2
  <2> QED BY <2>1, <2>3, <2>4, <2>5
          DEF Next, vars, local, updateGrants, retry, close, Lose
<1> QED BY <1>1, Invariance, PTL DEF Spec, GrantsNeverRevert
================================================================================
