------------------------------- MODULE Handshake -------------------------------
(***************************************************************************)
(* HELLO between the two sessions of a channel (session.ts): the handshake *)
(* that makes both ready, and the re-advertisement of grants by generation *)
(* while they run, over a channel that may lose, duplicate and reorder     *)
(* frames.  Grants are those of one topic.                                 *)
(***************************************************************************)
EXTENDS Integers

CONSTANTS
  Modes,         \* the modes granted, of "full", "serve" and "none"
  MaxUpdates,    \* bound on the updateGrants calls of a side
  Updaters,      \* the sides that call it
  SameSchema,    \* do the sides define the topic with the same schemaHash?
  Closes         \* may a session close?

ASSUME HandshakeAssumption ==
  /\ Modes \subseteq {"full", "serve", "none"}
  /\ MaxUpdates \in Nat /\ Updaters \subseteq {"a", "b"}
  /\ SameSchema \in BOOLEAN /\ Closes \in BOOLEAN

Sides == {"a", "b"}
Other(s) == IF s = "a" THEN "b" ELSE "a"
Gens == 0..MaxUpdates

VARIABLES
  state,       \* [Sides -> "attached", "ready" or "closed"]
  grantsGen,
  granted,     \* the grants of each generation so far; those after it are unused
  asking,      \* is a HELLO request outstanding (retried every CONTROL_RETRY_MS)?
  peerGrants,  \* the peer's grants as last applied; {} before its first HELLO
  peerGrantsGen,
  net          \* HELLO frames the channel may still deliver to each side

local == <<state, grantsGen, granted, asking, peerGrants, peerGrantsGen>>
vars == <<local, net>>

\* ack is ackGen: {} in a request.
Hello == [gen : Gens, mode : Modes, ack : {{}} \cup {{g} : g \in Gens}]

TypeOK ==
  /\ state \in [Sides -> {"attached", "ready", "closed"}]
  /\ grantsGen \in [Sides -> Gens] /\ granted \in [Sides -> [Gens -> Modes]]
  /\ asking \in [Sides -> BOOLEAN]
  /\ peerGrants \in [Sides -> {{}} \cup {{m} : m \in Modes}]
  /\ peerGrantsGen \in [Sides -> Gens]
  /\ net \in [Sides -> SUBSET Hello]
  /\ \A s \in Sides : /\ (state[s] = "attached") => (asking[s] /\ peerGrants[s] = {})
                      /\ (state[s] = "ready") => peerGrants[s] # {}
                      /\ (state[s] = "closed") => ~asking[s]

grants(s) == granted[s][grantsGen[s]]

helloMsg(s, ack) == [gen |-> grantsGen[s], mode |-> grants(s), ack |-> ack]

\* Both sessions are constructed: each asks.
Init ==
  /\ state = [s \in Sides |-> "attached"]
  /\ grantsGen = [s \in Sides |-> 0]
  /\ granted \in [Sides -> {[g \in Gens |-> m] : m \in Modes}]
  /\ asking = [s \in Sides |-> TRUE]
  /\ peerGrants = [s \in Sides |-> {}] /\ peerGrantsGen = [s \in Sides |-> 0]
  /\ net = [s \in Sides |-> {helloMsg(Other(s), {})}]

--------------------------------------------------------------------------------

\* updateGrants: a new generation, and a HELLO request for it.
updateGrants(s, m) ==
  /\ state[s] # "closed" /\ s \in Updaters /\ grantsGen[s] < MaxUpdates
  /\ grantsGen' = [grantsGen EXCEPT ![s] = @ + 1]
  /\ granted' = [granted EXCEPT ![s][grantsGen[s] + 1] = m]
  /\ asking' = [asking EXCEPT ![s] = TRUE]
  /\ net' = [net EXCEPT ![Other(s)] =
               @ \cup {[gen |-> grantsGen[s] + 1, mode |-> m, ack |-> {}]}]
  /\ UNCHANGED <<state, peerGrants, peerGrantsGen>>

\* The retry of an outstanding request sends the current grants.
retry(s) ==
  /\ state[s] # "closed" /\ asking[s]
  /\ net' = [net EXCEPT ![Other(s)] = @ \cup {helloMsg(s, {})}]
  /\ UNCHANGED local

\* Mutant of onHello: no second request for grants updated during the handshake.
onHello_NoReissue(s, m) ==
  /\ state[s] = "attached"
  /\ state' = [state EXCEPT ![s] = "ready"]
  /\ peerGrants' = [peerGrants EXCEPT ![s] = {m.mode}]
  /\ peerGrantsGen' = [peerGrantsGen EXCEPT ![s] = m.gen]
  /\ asking' = [asking EXCEPT ![s] = FALSE]
  /\ UNCHANGED <<grantsGen, granted, net>>

\* onHello, attached: take the peer's grants and be ready.  The peer's HELLO
\* satisfies the request, but not one for updated grants: that is made again.
onHello(s, m) ==
  /\ state[s] = "attached"
  /\ state' = [state EXCEPT ![s] = "ready"]
  /\ peerGrants' = [peerGrants EXCEPT ![s] = {m.mode}]
  /\ peerGrantsGen' = [peerGrantsGen EXCEPT ![s] = m.gen]
  /\ asking' = [asking EXCEPT ![s] = grantsGen[s] > 0]
  /\ net' = IF grantsGen[s] = 0 THEN net
            ELSE [net EXCEPT ![Other(s)] = @ \cup {helloMsg(s, {})}]
  /\ UNCHANGED <<grantsGen, granted>>

\* Mutant of Refresh: no generation check.
Refresh_AnyGen(s, m) ==
  /\ peerGrants' = [peerGrants EXCEPT ![s] = {m.mode}]
  /\ peerGrantsGen' = [peerGrantsGen EXCEPT ![s] = m.gen]

\* The grants of a later generation replace those held.
Refresh(s, m) ==
  IF m.gen > peerGrantsGen[s]
  THEN /\ peerGrants' = [peerGrants EXCEPT ![s] = {m.mode}]
       /\ peerGrantsGen' = [peerGrantsGen EXCEPT ![s] = m.gen]
  ELSE UNCHANGED <<peerGrants, peerGrantsGen>>

\* Mutant of onHelloUpdate: any answer satisfies the request.
onHelloUpdate_AnyAck(s, m) ==
  /\ state[s] = "ready" /\ Refresh(s, m)
  /\ asking' = [asking EXCEPT ![s] = @ /\ m.ack = {}]
  /\ net' = IF m.ack # {} THEN net
            ELSE [net EXCEPT ![Other(s)] = @ \cup {helloMsg(s, {m.gen})}]
  /\ UNCHANGED <<state, grantsGen, granted>>

\* Mutant of onHelloUpdate: requests are not answered.
onHelloUpdate_Mute(s, m) ==
  /\ state[s] = "ready" /\ Refresh(s, m)
  /\ asking' = [asking EXCEPT ![s] = @ /\ m.ack # {grantsGen[s]}]
  /\ UNCHANGED <<state, grantsGen, granted, net>>

\* onHello, ready: an answer to the current generation satisfies the request, a
\* request is answered with the current grants.
onHelloUpdate(s, m) ==
  /\ state[s] = "ready" /\ Refresh(s, m)
  /\ asking' = [asking EXCEPT ![s] = @ /\ m.ack # {grantsGen[s]}]
  /\ net' = IF m.ack # {} THEN net
            ELSE [net EXCEPT ![Other(s)] = @ \cup {helloMsg(s, {m.gen})}]
  /\ UNCHANGED <<state, grantsGen, granted>>

\* Mutant of close: the request and its retry timer outlive the session.
close_KeepsRequests(s) ==
  /\ Closes /\ state[s] # "closed"
  /\ state' = [state EXCEPT ![s] = "closed"]
  /\ UNCHANGED <<grantsGen, granted, asking, peerGrants, peerGrantsGen, net>>

\* HELLO_TIMEOUT_MS without a HELLO, a detach, a stall or a protocol error; the
\* channel closes, and with it the session of the other side.
close(s) ==
  /\ Closes /\ state[s] # "closed"
  /\ state' = [state EXCEPT ![s] = "closed"]
  /\ asking' = [asking EXCEPT ![s] = FALSE]
  /\ UNCHANGED <<grantsGen, granted, peerGrants, peerGrantsGen, net>>

\* The channel loses a frame; frames it delivers stay, to be duplicated.
Lose(s, m) ==
  /\ net' = [net EXCEPT ![s] = @ \ {m}]
  /\ UNCHANGED local

Next ==
  \E s \in Sides :
    \/ \E m \in Modes : updateGrants(s, m)
    \/ retry(s) \/ close(s)
    \/ \E m \in net[s] : onHello(s, m) \/ onHelloUpdate(s, m) \/ Lose(s, m)

Spec == Init /\ [][Next]_vars

\* Retry timers fire; a frame sent again and again arrives.
FairSpec ==
  /\ Spec
  /\ \A s \in Sides :
       /\ WF_vars(retry(s))
       /\ SF_vars(\E m \in net[s] : onHello(s, m))
       /\ \A g \in Gens :
            /\ SF_vars(\E m \in net[s] : m.gen = g /\ m.ack = {} /\ onHelloUpdate(s, m))
            /\ SF_vars(\E m \in net[s] : m.ack = {g} /\ onHelloUpdate(s, m))

--------------------------------------------------------------------------------
(* Properties *)

\* refusedTopics has the topic: both full, with different schemas.
refused(s) == grants(s) = "full" /\ peerGrants[s] = {"full"} /\ ~SameSchema

mutualFull(s) ==
  state[s] = "ready" /\ ~refused(s) /\ grants(s) = "full" /\ peerGrants[s] = {"full"}

\* A side with no HELLO outstanding is understood: a ready peer holds its
\* current grants (updateGrants during the handshake, onHelloUpdate's ackGen).
SettledMeansKnown ==
  \A s \in Sides :
    (state[s] = "ready" /\ ~asking[s] /\ state[Other(s)] = "ready")
    => peerGrants[Other(s)] = {grants(s)}

\* When neither side has a HELLO outstanding they agree on whether the topic is
\* synced in full (mutualFull): neither sends HAVE or ENTRIES the other refuses.
MutualAgree ==
  (\A s \in Sides : state[s] = "ready" /\ ~asking[s])
  => (mutualFull("a") <=> mutualFull("b"))

\* A session holds grants its peer really gave, and never goes back to older
\* ones (onHelloUpdate's generation check).
GrantsNeverRevert ==
  [][\A s \in Sides :
       /\ peerGrantsGen'[s] >= peerGrantsGen[s]
       /\ peerGrants'[s] # {} => peerGrants'[s] = {granted'[Other(s)][peerGrantsGen'[s]]}]_vars

\* The handshake and every update settle: both sides become ready with nothing
\* outstanding, again after each updateGrants, or the session closes.
HelloSettles ==
  []<>(\/ \A s \in Sides : state[s] = "ready" /\ ~asking[s]
       \/ \E s \in Sides : state[s] = "closed")
================================================================================
