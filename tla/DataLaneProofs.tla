----------------------------- MODULE DataLaneProofs -----------------------------
(***************************************************************************)
(* The data lane (DataLane) is proved for every credit window, queue cap   *)
(* and message set: its type invariant, that a conforming sender is never  *)
(* taken for a misbehaving one, that reassembly is bounded, and that the   *)
(* lane implements FifoLane.                                               *)
(*                                                                         *)
(* The invariant orders the four cursors of the lane,                      *)
(*   acked <= recvContigMid <= nextMid - 1 <= Len(accepted),               *)
(* keeps the window nextMid - 1 <= acked + SenderCredits, and says that    *)
(* whatever is in flight, buffered or handed over is the accepted message  *)
(* of its mid, so that loss, repetition and reordering cannot mix it up.   *)
(***************************************************************************)
EXTENDS DataLane, TLAPS

CursorInv ==
  /\ acked <= recvContigMid
  /\ recvContigMid < nextMid
  /\ nextMid <= Len(accepted) + 1
  /\ nextMid <= acked + SenderCredits + 1

NetInv == \A f \in net : f.mid < nextMid /\ f.data = accepted[f.mid]

AckInv == \A u \in acks : u <= recvContigMid

BufferInv ==
  \A m \in DOMAIN recvBuffer :
    /\ recvContigMid < m /\ m <= recvContigMid + ReceiverCredits
    /\ m < nextMid /\ recvBuffer[m] = accepted[m]

HandedInv == \A i \in 1..recvContigMid : handed[i] = accepted[i]

Inv == TypeOK /\ CursorInv /\ NetInv /\ AckInv /\ BufferInv /\ HandedInv
       /\ NoFalseViolation

--------------------------------------------------------------------------------
(* What pumpData does to the sender's state *)

\* Pumping a queue that extends the accepted one, after an acknowledgement that
\* stays within the window, keeps the window and puts only accepted messages in
\* flight, under mids that were never used before.
LEMMA PumpKeeps ==
  ASSUME TypeOK, CursorInv, NetInv,
         NEW q \in Seq(Data), NEW a \in Nat,
         Len(accepted) <= Len(q),
         \A i \in 1..Len(accepted) : q[i] = accepted[i],
         acked <= a, a < nextMid,
         pumpData(q, a)
  PROVE  /\ nextMid' \in Nat \ {0} /\ nextMid <= nextMid'
         /\ nextMid' <= Len(q) + 1 /\ nextMid' <= a + SenderCredits + 1
         /\ net' \subseteq Frame
         /\ \A f \in net' : f.mid < nextMid' /\ f.data = q[f.mid]
<1> DEFINE last == IF Len(q) <= a + SenderCredits THEN Len(q) ELSE a + SenderCredits
<1>1. last \in Nat /\ last <= Len(q) /\ last <= a + SenderCredits /\ nextMid <= last + 1
  BY LaneAssumption DEF TypeOK, CursorInv
<1>2. nextMid' = last + 1 /\ net' = net \cup FramesOf(q, nextMid..last)
  BY DEF pumpData
<1>3. ASSUME NEW f \in FramesOf(q, nextMid..last)
      PROVE  f \in Frame /\ f.mid < last + 1 /\ f.data = q[f.mid]
  <2>1. PICK m \in nextMid..last : f = [mid |-> m, data |-> q[m]]
    BY <1>3 DEF FramesOf
  <2>2. m \in Nat \ {0} /\ m < last + 1 /\ m \in 1..Len(q)
    BY <1>1, <2>1 DEF TypeOK
  <2>3. q[m] \in Data
    BY <2>2
  <2> HIDE DEF last
  <2> QED BY <2>1, <2>2, <2>3 DEF Frame
<1>4. ASSUME NEW f \in net
      PROVE  f \in Frame /\ f.mid < last + 1 /\ f.data = q[f.mid]
  <2>1. f \in Frame /\ f.mid < nextMid /\ f.data = accepted[f.mid]
    BY <1>4 DEF TypeOK, NetInv
  <2>2. f.mid \in 1..Len(accepted)
    BY <2>1 DEF TypeOK, CursorInv, Frame
  <2> QED BY <1>1, <2>1, <2>2 DEF TypeOK, Frame
<1> HIDE DEF last
<1>5. net' \subseteq Frame /\ \A f \in net' : f.mid < nextMid' /\ f.data = q[f.mid]
  BY <1>2, <1>3, <1>4
<1>6. /\ nextMid' \in Nat \ {0} /\ nextMid <= nextMid'
      /\ nextMid' <= Len(q) + 1 /\ nextMid' <= a + SenderCredits + 1
  BY <1>1, <1>2, LaneAssumption DEF TypeOK
<1> QED BY <1>5, <1>6

\* Handing over a contiguous run of a buffer of accepted messages keeps the
\* receiver's part of the invariant.
LEMMA DrainKeeps ==
  ASSUME Inv, closeReason = "open",
         NEW buf, DOMAIN buf \subseteq Nat \ {0},
         \A m \in DOMAIN buf :
           /\ recvContigMid < m /\ m <= recvContigMid + ReceiverCredits
           /\ m < nextMid /\ buf[m] = accepted[m],
         drainData(buf), UNCHANGED <<senderVars, net>>, ready' \in BOOLEAN
  PROVE  Inv'
<1>1. PICK n \in recvContigMid..(recvContigMid + ReceiverCredits) :
        /\ (recvContigMid + 1)..n \subseteq DOMAIN buf
        /\ recvContigMid' = n
        /\ recvBuffer' = [m \in {k \in DOMAIN buf : k > n} |-> buf[m]]
        /\ handed' = [i \in 1..n |-> IF i <= recvContigMid THEN handed[i] ELSE buf[i]]
        /\ \/ /\ acks' = IF n > recvContigMid THEN acks \cup {n} ELSE acks
              /\ UNCHANGED <<failed, closeReason>>
           \/ /\ failed' = failed \cup {n}
              /\ UNCHANGED <<acks, closeReason>>
           \/ /\ closeReason' = "handler"
              /\ UNCHANGED <<acks, failed>>
  BY DEF drainData
<1>2. n \in Nat /\ recvContigMid <= n
  BY LaneAssumption DEF Inv, TypeOK
<1>3. n < nextMid
  <2>1. CASE n = recvContigMid
    BY <2>1 DEF Inv, CursorInv
  <2>2. CASE n # recvContigMid
    <3>1. n \in (recvContigMid + 1)..n
      BY <1>2, <2>2 DEF Inv, TypeOK
    <3> QED BY <1>1, <1>2, <3>1 DEF Inv, TypeOK
  <2> QED BY <2>1, <2>2
<1>4. CursorInv'
  BY <1>1, <1>2, <1>3 DEF Inv, CursorInv, TypeOK, senderVars
<1>5. NetInv'
  BY DEF Inv, NetInv, senderVars
<1>6. AckInv'
  <2>1. \A u \in acks : u \in Nat /\ u <= n
    BY <1>2 DEF Inv, AckInv, TypeOK
  <2>2. acks' \subseteq acks \cup {n}
    BY <1>1
  <2> QED BY <1>1, <1>2, <2>1, <2>2 DEF AckInv
<1>7. BufferInv' /\ DOMAIN recvBuffer' \subseteq Nat \ {0}
  <2> SUFFICES ASSUME NEW m \in DOMAIN recvBuffer'
               PROVE  /\ m \in Nat \ {0} /\ n < m /\ m <= n + ReceiverCredits
                      /\ m < nextMid /\ recvBuffer'[m] = accepted[m]
    BY <1>1 DEF BufferInv, senderVars
  <2>1. m \in DOMAIN buf /\ m > n /\ recvBuffer'[m] = buf[m]
    BY <1>1
  <2> QED BY <1>2, <2>1, LaneAssumption DEF Inv, TypeOK
<1>8. \A i \in 1..n : handed'[i] = accepted[i] /\ handed'[i] \in Data
  <2> SUFFICES ASSUME NEW i \in 1..n
               PROVE  handed'[i] = accepted[i] /\ handed'[i] \in Data
    OBVIOUS
  <2>1. i \in 1..Len(accepted) /\ accepted[i] \in Data
    BY <1>2, <1>3 DEF Inv, TypeOK, CursorInv
  <2>2. CASE i <= recvContigMid
    BY <1>1, <1>2, <2>1, <2>2 DEF Inv, HandedInv, TypeOK
  <2>3. CASE ~(i <= recvContigMid)
    <3>1. i \in (recvContigMid + 1)..n
      BY <1>2, <2>3 DEF Inv, TypeOK
    <3> QED BY <1>1, <2>1, <2>3, <3>1
  <2> QED BY <2>2, <2>3
<1>9. HandedInv'
  BY <1>1, <1>8 DEF HandedInv, senderVars
<1>10. TypeOK'
  <2>1. accepted' \in Seq(Data) /\ nextMid' \in Nat \ {0} /\ acked' \in Nat
        /\ net' \subseteq Frame
    BY DEF Inv, TypeOK, senderVars
  <2>2. acks' \subseteq Nat /\ failed' \subseteq Nat
        /\ closeReason' \in {"open", "stall", "transport", "window", "handler"}
    BY <1>1, <1>2 DEF Inv, TypeOK
  <2>3. handed' \in [1..recvContigMid' -> Data]
    BY <1>1, <1>8
  <2>4. \A m \in DOMAIN recvBuffer' : recvBuffer'[m] \in Data
    BY <1>3, <1>4, <1>7 DEF Inv, TypeOK, BufferInv, CursorInv, senderVars
  <2> QED BY <1>1, <1>2, <1>7, <2>1, <2>2, <2>3, <2>4 DEF TypeOK
<1>11. NoFalseViolation'
  BY <1>1 DEF Inv, NoFalseViolation
<1> QED BY <1>4, <1>5, <1>6, <1>7, <1>9, <1>10, <1>11 DEF Inv

--------------------------------------------------------------------------------
(* The invariant is inductive *)

\* A new session satisfies the inductive invariant.
LEMMA InitInv == Init => Inv
<1> SUFFICES ASSUME Init PROVE Inv
  OBVIOUS
<1>1. CursorInv /\ NetInv /\ AckInv /\ BufferInv /\ HandedInv /\ NoFalseViolation
  BY LaneAssumption
  DEF Init, CursorInv, NetInv, AckInv, BufferInv, HandedInv, NoFalseViolation
<1>2. /\ handed \in [1..recvContigMid -> Data] /\ accepted \in Seq(Data)
      /\ DOMAIN recvBuffer = {}
  BY DEF Init
<1>3. recvContigMid \in Nat /\ nextMid \in Nat \ {0} /\ acked \in Nat
  BY DEF Init
<1>4. ready \in BOOLEAN
  BY Zenon DEF Init
<1>5. TypeOK
  BY <1>2, <1>3, <1>4, Zenon DEF Init, TypeOK
<1> QED BY <1>1, <1>5 DEF Inv

\* One step per action of Next.
LEMMA NextInv == Inv /\ [Next]_vars => Inv'
<1> SUFFICES ASSUME Inv, [Next]_vars PROVE Inv'
  OBVIOUS
<1>1. ASSUME NEW d \in Data, sendData(d) PROVE Inv'
  <2>1. accepted' \in Seq(Data) /\ Len(accepted') = Len(accepted) + 1
        /\ \A i \in 1..Len(accepted) : accepted'[i] = accepted[i]
    BY <1>1 DEF sendData, Inv, TypeOK
  <2>2. /\ nextMid' \in Nat \ {0} /\ nextMid <= nextMid'
        /\ nextMid' <= Len(accepted') + 1 /\ nextMid' <= acked + SenderCredits + 1
        /\ net' \subseteq Frame
        /\ \A f \in net' : f.mid < nextMid' /\ f.data = accepted'[f.mid]
    <3>1. pumpData(accepted', acked) BY <1>1 DEF sendData
    <3>2. acked \in Nat /\ acked < nextMid /\ Len(accepted) <= Len(accepted')
      BY <2>1 DEF Inv, TypeOK, CursorInv
    <3> QED BY <2>1, <3>1, <3>2, PumpKeeps DEF Inv
  <2>3. UNCHANGED <<acked, acks, receiverVars, closeReason>>
    BY <1>1 DEF sendData
  <2>4. TypeOK'
    BY <2>1, <2>2, <2>3 DEF Inv, TypeOK, receiverVars
  <2>5. CursorInv' /\ NetInv' /\ AckInv' /\ NoFalseViolation'
    <3>1. CursorInv'
      BY <2>1, <2>2, <2>3 DEF Inv, TypeOK, CursorInv, receiverVars
    <3>2. NetInv'
      BY <2>1, <2>2, <2>3 DEF NetInv
    <3>3. AckInv' /\ NoFalseViolation'
      BY <2>2, <2>3 DEF Inv, AckInv, NoFalseViolation, receiverVars
    <3> QED BY <3>1, <3>2, <3>3
  <2>6. BufferInv'
    BY <2>1, <2>2, <2>3 DEF Inv, TypeOK, CursorInv, BufferInv, receiverVars
  <2>7. HandedInv'
    BY <2>1, <2>3 DEF Inv, TypeOK, CursorInv, HandedInv, receiverVars
  <2> QED BY <2>4, <2>5, <2>6, <2>7 DEF Inv
<1>2. ASSUME NEW due \in SUBSET ((acked + 1)..(nextMid - 1)), retryUnacked(due)
      PROVE  Inv'
  <2>1. \A f \in FramesOf(accepted, due) :
          f \in Frame /\ f.mid < nextMid /\ f.data = accepted[f.mid]
    <3> SUFFICES ASSUME NEW f \in FramesOf(accepted, due)
                 PROVE  f \in Frame /\ f.mid < nextMid /\ f.data = accepted[f.mid]
      OBVIOUS
    <3>1. PICK m \in due : f = [mid |-> m, data |-> accepted[m]]
      BY DEF FramesOf
    <3>2. m \in Nat \ {0} /\ m < nextMid /\ m \in 1..Len(accepted)
      BY <3>1 DEF Inv, TypeOK, CursorInv
    <3> QED BY <3>1, <3>2 DEF Inv, TypeOK, Frame
  <2>2. net' = net \cup FramesOf(accepted, due)
        /\ UNCHANGED <<senderVars, acks, receiverVars, closeReason>>
    BY <1>2 DEF retryUnacked
  <2>3. NetInv' /\ net' \subseteq Frame
    BY <2>1, <2>2 DEF Inv, TypeOK, NetInv, senderVars
  <2> QED BY <2>2, <2>3 DEF Inv, TypeOK, CursorInv, AckInv, BufferInv, HandedInv,
            NoFalseViolation, senderVars, receiverVars
<1>3. ASSUME NEW u \in acks, onAck(u) PROVE Inv'
  <2>1. acked' \in Nat /\ acked <= acked' /\ acked' < nextMid
        /\ acked' <= recvContigMid
    BY <1>3 DEF onAck, Inv, TypeOK, CursorInv, AckInv
  <2>2. pumpData(accepted, acked') /\ UNCHANGED <<accepted, acks, receiverVars, closeReason>>
    BY <1>3 DEF onAck
  <2>3. /\ nextMid' \in Nat \ {0} /\ nextMid <= nextMid'
        /\ nextMid' <= Len(accepted) + 1 /\ nextMid' <= acked' + SenderCredits + 1
        /\ net' \subseteq Frame
        /\ \A f \in net' : f.mid < nextMid' /\ f.data = accepted[f.mid]
    BY <2>1, <2>2, PumpKeeps DEF Inv, TypeOK
  <2>4. TypeOK'
    BY <2>1, <2>2, <2>3 DEF Inv, TypeOK, receiverVars
  <2>5. CursorInv' /\ NetInv' /\ AckInv' /\ NoFalseViolation'
    <3>1. CursorInv'
      BY <2>1, <2>2, <2>3 DEF Inv, TypeOK, CursorInv, receiverVars
    <3>2. NetInv'
      BY <2>1, <2>2, <2>3 DEF NetInv
    <3>3. AckInv' /\ NoFalseViolation'
      BY <2>2, <2>3 DEF Inv, AckInv, NoFalseViolation, receiverVars
    <3> QED BY <3>1, <3>2, <3>3
  <2>6. BufferInv' /\ HandedInv'
    BY <2>1, <2>2, <2>3 DEF Inv, TypeOK, CursorInv, BufferInv, HandedInv, receiverVars
  <2> QED BY <2>4, <2>5, <2>6 DEF Inv
<1>4. ASSUME NEW f \in net, onDuplicate(f) PROVE Inv'
  BY <1>4 DEF onDuplicate, Inv, TypeOK, CursorInv, NetInv, AckInv, BufferInv, HandedInv,
     NoFalseViolation, senderVars, receiverVars
<1>5. ASSUME NEW f \in net, onBeyondWindow(f) PROVE Inv'
  <2>1. f.mid \in Nat /\ f.mid < nextMid
    BY DEF Inv, TypeOK, NetInv, Frame
  <2>2. ~(SenderCredits <= ReceiverCredits)
    BY <1>5, <2>1, LaneAssumption DEF onBeyondWindow, Inv, TypeOK, CursorInv
  <2> QED BY <1>5, <2>2 DEF onBeyondWindow, Inv, TypeOK, CursorInv, NetInv, AckInv,
            BufferInv, HandedInv, NoFalseViolation, senderVars, receiverVars
<1>6. ASSUME NEW f \in net, onDataMsg(f) PROVE Inv'
  <2> DEFINE buf == [m \in DOMAIN recvBuffer \cup {f.mid} |->
                       IF m = f.mid THEN f.data ELSE recvBuffer[m]]
  <2>1. f.mid \in Nat \ {0} /\ f.mid < nextMid /\ f.data = accepted[f.mid]
        /\ recvContigMid < f.mid /\ f.mid <= recvContigMid + ReceiverCredits
    BY <1>6 DEF onDataMsg, Inv, TypeOK, NetInv, Frame
  <2>2. DOMAIN buf \subseteq Nat \ {0}
    BY <2>1 DEF Inv, TypeOK
  <2>3. \A m \in DOMAIN buf :
          /\ recvContigMid < m /\ m <= recvContigMid + ReceiverCredits
          /\ m < nextMid /\ buf[m] = accepted[m]
    BY <2>1 DEF Inv, BufferInv
  <2>4. CASE drainData(buf) /\ ready
    BY <1>6, <2>2, <2>3, <2>4, DrainKeeps DEF onDataMsg, Inv, TypeOK
  <2>5. CASE /\ ~ready /\ recvBuffer' = buf
             /\ UNCHANGED <<recvContigMid, handed, failed, acks, closeReason>>
    <3>1. \A m \in DOMAIN buf : buf[m] \in Data
      BY <2>1 DEF Inv, TypeOK, Frame
    <3>2. UNCHANGED <<senderVars, net, ready>>
      BY <1>6 DEF onDataMsg
    <3> HIDE DEF buf
    <3> QED BY <2>2, <2>3, <2>5, <3>1, <3>2 DEF Inv, TypeOK, CursorInv, NetInv, AckInv,
              BufferInv, HandedInv, NoFalseViolation, senderVars
  <2> QED BY <1>6, <2>4, <2>5 DEF onDataMsg
<1>7. ASSUME onReady PROVE Inv'
  BY <1>7, DrainKeeps DEF onReady, Inv, TypeOK, BufferInv
<1>8. ASSUME NEW f \in net, LoseFrame(f) PROVE Inv'
  BY <1>8 DEF LoseFrame, Inv, TypeOK, CursorInv, NetInv, AckInv, BufferInv, HandedInv,
     NoFalseViolation, senderVars, receiverVars
<1>9. ASSUME NEW u \in acks, LoseAck(u) PROVE Inv'
  BY <1>9 DEF LoseAck, Inv, TypeOK, CursorInv, NetInv, AckInv, BufferInv, HandedInv,
     NoFalseViolation, senderVars, receiverVars
<1>10. CASE stallCheck
  BY <1>10 DEF stallCheck, Inv, TypeOK, CursorInv, NetInv, AckInv, BufferInv, HandedInv,
     NoFalseViolation, senderVars, receiverVars
<1>11. CASE close
  BY <1>11 DEF close, Inv, TypeOK, CursorInv, NetInv, AckInv, BufferInv, HandedInv,
     NoFalseViolation, senderVars, receiverVars
<1>12. CASE UNCHANGED vars
  BY <1>12 DEF vars, Inv, TypeOK, CursorInv, NetInv, AckInv, BufferInv, HandedInv,
     NoFalseViolation, senderVars, receiverVars
<1> QED
  BY <1>1, <1>2, <1>3, <1>4, <1>5, <1>6, <1>7, <1>8, <1>9, <1>10, <1>11, <1>12 DEF Next

\* The inductive invariant holds throughout a session, whatever the channel loses,
\* duplicates or reorders and whatever the handlers do.
THEOREM Invariance == Spec => []Inv
BY InitInv, NextInv, PTL DEF Spec

\* Every state of the lane has the types its code declares: in particular
\* handed has exactly recvContigMid elements, whatever arrives in which order.
THEOREM TypeCorrect == Spec => []TypeOK
BY Invariance, PTL DEF Inv

\* onDataMsg never closes the session of a conforming sender as a credit-window
\* violation, for every pair of credit windows with the receiver's the larger.
THEOREM ConformingSenderAccepted == Spec => []NoFalseViolation
BY Invariance, PTL DEF Inv

\* onDataMsg's window check bounds recvBuffer by the receiver's own credits,
\* for every sender.
THEOREM ReassemblyBounded == Spec => []BufferInWindow
<1>1. Inv => BufferInWindow
  BY DEF Inv, BufferInv, BufferInWindow
<1> QED BY <1>1, Invariance, PTL

--------------------------------------------------------------------------------
(* The lane implements FifoLane *)

fifoVars == <<accepted, handed, closeReason = "open">>

\* The arithmetic of the send queue: a free slot in outQueue and a full window
\* leave the abstract backlog one below its bound.
LEMMA BacklogArithmetic ==
  ASSUME NEW len \in Nat, NEW next \in Nat, NEW a \in Nat, NEW r \in Nat,
         NEW cap \in Nat, NEW credits \in Nat,
         len - (next - 1) < cap, next <= a + credits + 1, a <= r
  PROVE  len < r + (cap + credits)
OBVIOUS

\* A drain hands over a run of accepted messages, or nothing.
LEMMA DrainRefines ==
  ASSUME Inv, closeReason = "open", UNCHANGED accepted,
         NEW buf, DOMAIN buf \subseteq Nat \ {0},
         \A m \in DOMAIN buf : m < nextMid /\ buf[m] = accepted[m],
         drainData(buf)
  PROVE  [Fifo!Next]_fifoVars
<1>1. PICK n \in recvContigMid..(recvContigMid + ReceiverCredits) :
        /\ (recvContigMid + 1)..n \subseteq DOMAIN buf
        /\ handed' = [i \in 1..n |-> IF i <= recvContigMid THEN handed[i] ELSE buf[i]]
        /\ n > recvContigMid \/ UNCHANGED closeReason
  BY DEF drainData
<1>2. n \in Nat /\ recvContigMid \in Nat /\ recvContigMid <= n
  BY LaneAssumption DEF Inv, TypeOK
<1>3. handed \in [1..recvContigMid -> Data] /\ Len(handed) = recvContigMid
  BY DEF Inv, TypeOK
<1>4. CASE n = recvContigMid
  <2>1. handed' = handed
    BY <1>1, <1>2, <1>3, <1>4
  <2> QED BY <1>1, <1>2, <1>4, <2>1 DEF fifoVars
<1>5. CASE n > recvContigMid
  <2>1. n \in DOMAIN buf
    BY <1>1, <1>2, <1>5
  <2>2. n <= Len(accepted) /\ n \in 1..Len(accepted)
    BY <1>2, <1>5, <2>1 DEF Inv, TypeOK, CursorInv
  <2>3. ASSUME NEW i \in 1..n
        PROVE  (IF i <= recvContigMid THEN handed[i] ELSE buf[i]) = accepted[i]
    <3>1. CASE i <= recvContigMid
      BY <1>2, <3>1 DEF Inv, HandedInv
    <3>2. CASE ~(i <= recvContigMid)
      <4>1. i \in (recvContigMid + 1)..n BY <1>2, <3>2
      <4> QED BY <1>1, <3>2, <4>1
    <3> QED BY <3>1, <3>2
  <2>4. handed' = [i \in 1..n |-> accepted[i]]
    BY <1>1, <2>3
  <2>5. (closeReason' = "open") \in BOOLEAN
    OBVIOUS
  <2>6. Fifo!HandOver(n)
    BY <1>3, <1>5, <2>2, <2>4, <2>5 DEF Fifo!HandOver
  <2> QED BY <2>2, <2>6 DEF Fifo!Next
<1> QED BY <1>2, <1>4, <1>5

\* Every step of the lane is a step of FifoLane or leaves its variables alone.
LEMMA StepRefines == Inv /\ [Next]_vars => [Fifo!Next]_fifoVars
<1> SUFFICES ASSUME Inv, [Next]_vars PROVE [Fifo!Next]_fifoVars
  OBVIOUS
<1>1. ASSUME NEW d \in Data, sendData(d) PROVE [Fifo!Next]_fifoVars
  <2>1. Len(handed) = recvContigMid
    BY DEF Inv, TypeOK
  <2>2. Len(accepted) < recvContigMid + (SEND_QUEUE_CAP + SenderCredits)
    <3>1. Len(accepted) - (nextMid - 1) < SEND_QUEUE_CAP
      BY <1>1 DEF sendData
    <3>2. /\ Len(accepted) \in Nat /\ nextMid \in Nat /\ acked \in Nat
          /\ recvContigMid \in Nat /\ SEND_QUEUE_CAP \in Nat /\ SenderCredits \in Nat
          /\ nextMid <= acked + SenderCredits + 1 /\ acked <= recvContigMid
      BY LaneAssumption DEF Inv, TypeOK, CursorInv
    <3> QED BY <3>1, <3>2, BacklogArithmetic
  <2>3. Fifo!Send(d)
    BY <1>1, <2>1, <2>2 DEF sendData, Fifo!Send, receiverVars
  <2> QED BY <2>3 DEF Fifo!Next
<1>2. ASSUME NEW f \in net, onBeyondWindow(f) PROVE [Fifo!Next]_fifoVars
  BY <1>2 DEF onBeyondWindow, Fifo!Next, Fifo!Close, senderVars, receiverVars
<1>3. ASSUME NEW f \in net, onDataMsg(f) PROVE [Fifo!Next]_fifoVars
  <2> DEFINE buf == [m \in DOMAIN recvBuffer \cup {f.mid} |->
                       IF m = f.mid THEN f.data ELSE recvBuffer[m]]
  <2>1. f.mid \in Nat \ {0} /\ f.mid < nextMid /\ f.data = accepted[f.mid]
    BY <1>3 DEF Inv, TypeOK, NetInv, Frame
  <2>2. DOMAIN buf \subseteq Nat \ {0}
    BY <2>1 DEF Inv, TypeOK
  <2>3. \A m \in DOMAIN buf : m < nextMid /\ buf[m] = accepted[m]
    BY <2>1 DEF Inv, BufferInv
  <2>4. CASE drainData(buf)
    <3>1. closeReason = "open" /\ UNCHANGED accepted
      BY <1>3 DEF onDataMsg, senderVars
    <3> HIDE DEF buf
    <3> QED BY <2>2, <2>3, <2>4, <3>1, DrainRefines
  <2>5. CASE UNCHANGED <<recvContigMid, handed, failed, acks, closeReason>>
    BY <1>3, <2>5 DEF onDataMsg, fifoVars, senderVars
  <2> QED BY <1>3, <2>4, <2>5 DEF onDataMsg
<1>4. CASE onReady
  BY <1>4, DrainRefines DEF onReady, Inv, TypeOK, BufferInv, senderVars
<1>5. CASE stallCheck \/ close
  BY <1>5 DEF stallCheck, close, Fifo!Next, Fifo!Close, senderVars, receiverVars
<1>6. CASE \/ \E due \in SUBSET ((acked + 1)..(nextMid - 1)) : retryUnacked(due)
           \/ \E u \in acks : onAck(u)
           \/ \E f \in net : onDuplicate(f)
           \/ \E f \in net : LoseFrame(f)
           \/ \E u \in acks : LoseAck(u)
           \/ UNCHANGED vars
  BY <1>6 DEF retryUnacked, onAck, onDuplicate, LoseFrame, LoseAck, vars, fifoVars,
     senderVars, receiverVars
<1> QED BY <1>1, <1>2, <1>3, <1>4, <1>5, <1>6 DEF Next

\* The data lane implements FifoLane: over a channel that loses, repeats and
\* reorders frames and ACKs, with failing handlers and closes at any moment,
\* messages are handed over once, in the order sendData accepted them, and at
\* most SEND_QUEUE_CAP + INFLIGHT_CREDITS are waiting.
THEOREM Refinement == Spec => FifoSpec
<1>1. Init => Fifo!Init
  BY DEF Init, Fifo!Init
<1>2. Spec => [][Fifo!Next]_fifoVars
  BY StepRefines, Invariance, PTL DEF Spec
<1> QED BY <1>1, <1>2, PTL DEF Spec, FifoSpec, Fifo!Spec, fifoVars
================================================================================
