-------------------------------- MODULE DataLane --------------------------------
(***************************************************************************)
(* One direction of the data lane of a peer session (session.ts): the      *)
(* sender's send queue and credit window, retransmission, the receiver's   *)
(* reassembly buffer and cumulative ACKs, over a channel that may lose,    *)
(* duplicate and reorder frames.                                           *)
(*                                                                         *)
(* accepted holds the data of every sendData that returned true: the       *)
(* sender's frames are its first nextMid - 1 elements (a mid is taken at   *)
(* transmission), outQueue is the rest, and unacked is the frames          *)
(* acked + 1 .. nextMid - 1 (pushed at the back, spliced off the front).   *)
(***************************************************************************)
EXTENDS Integers, Sequences

CONSTANTS
  Data,              \* message bodies
  SenderCredits,     \* INFLIGHT_CREDITS of the sending node
  ReceiverCredits,   \* INFLIGHT_CREDITS of the receiving node: a per-node override
  SEND_QUEUE_CAP,
  MaxSent,           \* bound on the number of messages sent
  HandlersFail       \* may the receiver's onData throw, or close the session?

ASSUME LaneAssumption ==
  /\ SenderCredits \in Nat \ {0} /\ ReceiverCredits \in Nat \ {0}
  /\ SEND_QUEUE_CAP \in Nat \ {0}
  /\ MaxSent \in Nat /\ HandlersFail \in BOOLEAN

VARIABLES
  accepted, nextMid, acked,   \* sender
  net,                        \* data frames the channel may still deliver
  acks,                       \* ACKs the channel may still deliver
  ready,                      \* has the receiver seen HELLO?
  recvContigMid, recvBuffer,  \* receiver
  handed,                     \* data passed to onData, in order
  failed,                     \* mids whose onData threw
  closeReason                 \* "open", or why the session closed

senderVars == <<accepted, nextMid, acked>>
receiverVars == <<ready, recvContigMid, recvBuffer, handed, failed>>
vars == <<senderVars, net, acks, receiverVars, closeReason>>

Frame == [mid : Nat \ {0}, data : Data]

TypeOK ==
  /\ accepted \in Seq(Data) /\ nextMid \in Nat \ {0} /\ acked \in Nat
  /\ net \subseteq Frame /\ acks \subseteq Nat
  /\ ready \in BOOLEAN /\ recvContigMid \in Nat
  /\ DOMAIN recvBuffer \subseteq Nat \ {0}
  /\ \A m \in DOMAIN recvBuffer : recvBuffer[m] \in Data
  /\ handed \in [1..recvContigMid -> Data]
  /\ failed \subseteq Nat
  /\ closeReason \in {"open", "stall", "transport", "window", "handler"}

Init ==
  /\ accepted = << >> /\ nextMid = 1 /\ acked = 0
  /\ net = {} /\ acks = {}
  /\ ready = FALSE /\ recvContigMid = 0
  /\ recvBuffer = << >> /\ handed = << >>
  /\ failed = {} /\ closeReason = "open"

--------------------------------------------------------------------------------
(* Sender *)

FramesOf(q, mids) == {[mid |-> m, data |-> q[m]] : m \in mids}

\* Mutant of pumpData: the window is checked after the send (one too many).
pumpData_OneMore(q, a) ==
  LET limit == a + SenderCredits + 1
      last == IF Len(q) <= limit THEN Len(q) ELSE limit
  IN /\ nextMid' = last + 1
     /\ net' = net \cup FramesOf(q, nextMid..last)

\* pumpData with queue contents q when frames up to a are acknowledged: frames
\* leave outQueue while fewer than SenderCredits are unacknowledged.
pumpData(q, a) ==
  LET limit == a + SenderCredits
      last == IF Len(q) <= limit THEN Len(q) ELSE limit
  IN /\ nextMid' = last + 1
     /\ net' = net \cup FramesOf(q, nextMid..last)

\* sendData; a full queue tail-drops the message and returns false (a stutter).
sendData(d) ==
  /\ closeReason = "open" /\ Len(accepted) < MaxSent
  /\ Len(accepted) - (nextMid - 1) < SEND_QUEUE_CAP
  /\ accepted' = Append(accepted, d)
  /\ pumpData(accepted', acked)
  /\ UNCHANGED <<acked, acks, receiverVars, closeReason>>

\* Mutant of retryUnacked: only the newest frame is sent again.
retryUnacked_Newest(due) ==
  /\ closeReason = "open"
  /\ due # {} /\ due \subseteq {nextMid - 1} /\ acked < nextMid - 1
  /\ net' = net \cup FramesOf(accepted, due)
  /\ UNCHANGED <<senderVars, acks, receiverVars, closeReason>>

\* retryUnacked: the frames unacknowledged for CONTROL_RETRY_MS, same mids.
retryUnacked(due) ==
  /\ closeReason = "open"
  /\ due # {} /\ due \subseteq (acked + 1)..(nextMid - 1)
  /\ net' = net \cup FramesOf(accepted, due)
  /\ UNCHANGED <<senderVars, acks, receiverVars, closeReason>>

\* dispatch(ACK): splice the covered prefix, pump.
onAck(upTo) ==
  /\ closeReason = "open" /\ upTo \in acks
  /\ LET top == IF upTo < nextMid - 1 THEN upTo ELSE nextMid - 1
     IN acked' = IF top > acked THEN top ELSE acked
  /\ pumpData(accepted, acked')
  /\ UNCHANGED <<accepted, acks, receiverVars, closeReason>>

--------------------------------------------------------------------------------
(* Receiver *)

\* Mutant of drainData: buffered frames are handed over across a gap.
drainData_SkipsGap(buf) ==
  \E n \in DOMAIN buf :
    /\ recvContigMid' = n
    /\ recvBuffer' = [m \in {k \in DOMAIN buf : k > n} |-> buf[m]]
    /\ handed' = [i \in 1..n |-> IF i \in DOMAIN handed THEN handed[i] ELSE buf[n]]
    /\ acks' = acks \cup {n}
    /\ UNCHANGED <<failed, closeReason>>

\* Mutant of drainData: the frames handed over stay in the buffer.
drainData_Keeps(buf) ==
  \E n \in recvContigMid..(recvContigMid + ReceiverCredits) :
    /\ (recvContigMid + 1)..n \subseteq DOMAIN buf /\ n + 1 \notin DOMAIN buf
    /\ recvContigMid' = n
    /\ recvBuffer' = buf
    /\ handed' = [i \in 1..n |-> IF i <= recvContigMid THEN handed[i] ELSE buf[i]]
    /\ acks' = IF n > recvContigMid THEN acks \cup {n} ELSE acks
    /\ UNCHANGED <<failed, closeReason>>

\* Mutant of drainData: recvContigMid is not advanced.
drainData_NoAdvance(buf) ==
  \E n \in recvContigMid..(recvContigMid + ReceiverCredits) :
    /\ (recvContigMid + 1)..n \subseteq DOMAIN buf /\ n + 1 \notin DOMAIN buf
    /\ recvBuffer' = [m \in {k \in DOMAIN buf : k > n} |-> buf[m]]
    /\ handed' = [i \in 1..n |-> IF i <= recvContigMid THEN handed[i] ELSE buf[i]]
    /\ acks' = IF n > recvContigMid THEN acks \cup {recvContigMid} ELSE acks
    /\ UNCHANGED <<recvContigMid, failed, closeReason>>

\* drainData over buffer buf: hand over the contiguous run up to n.  The run ends
\* at a gap with one ACK for all of it; or the handler of frame n throws out of
\* the loop, its frame consumed and nothing ACKed; or it closes the session, and
\* nothing is sent (SyncHub.onData ignores what the loop still passes on).
drainData(buf) ==
  \E n \in recvContigMid..(recvContigMid + ReceiverCredits) :
    /\ (recvContigMid + 1)..n \subseteq DOMAIN buf
    /\ recvContigMid' = n
    /\ recvBuffer' = [m \in {k \in DOMAIN buf : k > n} |-> buf[m]]
    /\ handed' = [i \in 1..n |-> IF i <= recvContigMid THEN handed[i] ELSE buf[i]]
    /\ \/ /\ n + 1 \notin DOMAIN buf
          /\ acks' = IF n > recvContigMid THEN acks \cup {n} ELSE acks
          /\ UNCHANGED <<failed, closeReason>>
       \/ /\ HandlersFail /\ n > recvContigMid
          /\ failed' = failed \cup {n}
          /\ UNCHANGED <<acks, closeReason>>
       \/ /\ HandlersFail /\ n > recvContigMid
          /\ closeReason' = "handler"
          /\ UNCHANGED <<acks, failed>>

\* Mutant of onDuplicate: a duplicate is dropped without a fresh ACK.
onDuplicate_Silent(f) ==
  /\ closeReason = "open" /\ f \in net /\ f.mid <= recvContigMid
  /\ UNCHANGED vars

\* onDataMsg, already received: ACK again, the first ACK may be lost.
onDuplicate(f) ==
  /\ closeReason = "open" /\ f \in net /\ f.mid <= recvContigMid
  /\ acks' = acks \cup {recvContigMid}
  /\ UNCHANGED <<senderVars, net, receiverVars, closeReason>>

\* onDataMsg beyond the credit window: protocol violation, close.
onBeyondWindow(f) ==
  /\ closeReason = "open" /\ f \in net
  /\ f.mid > recvContigMid + ReceiverCredits
  /\ closeReason' = "window"
  /\ UNCHANGED <<senderVars, net, acks, receiverVars>>

\* onDataMsg within the window: buffer, and drain once the session is ready.
onDataMsg(f) ==
  /\ closeReason = "open" /\ f \in net
  /\ f.mid > recvContigMid /\ f.mid <= recvContigMid + ReceiverCredits
  /\ LET buf == [m \in DOMAIN recvBuffer \cup {f.mid} |->
                   IF m = f.mid THEN f.data ELSE recvBuffer[m]]
     IN \/ ready /\ drainData(buf)
        \/ /\ ~ready /\ recvBuffer' = buf
           /\ UNCHANGED <<recvContigMid, handed, failed, acks, closeReason>>
  /\ UNCHANGED <<senderVars, net, ready>>

\* The tail of onHello: frames that overtook HELLO are drained.
onReady ==
  /\ closeReason = "open" /\ ~ready
  /\ ready' = TRUE
  /\ drainData(recvBuffer)
  /\ UNCHANGED <<senderVars, net>>

--------------------------------------------------------------------------------
(* Channel and lifecycle *)

LoseFrame(f) ==
  /\ f \in net
  /\ net' = net \ {f}
  /\ UNCHANGED <<senderVars, acks, receiverVars, closeReason>>

LoseAck(u) ==
  /\ u \in acks
  /\ acks' = acks \ {u}
  /\ UNCHANGED <<senderVars, net, receiverVars, closeReason>>

\* stallCheck: unacknowledged data and no ACK progress for CHANNEL_STALL_MS.
stallCheck ==
  /\ closeReason = "open" /\ acked < nextMid - 1
  /\ closeReason' = "stall"
  /\ UNCHANGED <<senderVars, net, acks, receiverVars>>

\* close(): the host's channel closed, or detach.
close ==
  /\ closeReason = "open" /\ closeReason' = "transport"
  /\ UNCHANGED <<senderVars, net, acks, receiverVars>>

Next ==
  \/ \E d \in Data : sendData(d)
  \/ \E due \in SUBSET ((acked + 1)..(nextMid - 1)) : retryUnacked(due)
  \/ \E u \in acks : onAck(u)
  \/ \E f \in net : onDuplicate(f)
  \/ \E f \in net : onBeyondWindow(f)
  \/ \E f \in net : onDataMsg(f)
  \/ onReady
  \/ \E f \in net : LoseFrame(f)
  \/ \E u \in acks : LoseAck(u)
  \/ stallCheck
  \/ close

Spec == Init /\ [][Next]_vars

\* The retry timer is re-armed while anything is unacknowledged, HELLO is retried
\* until it arrives, and a channel delivers what is sent again and again.
Fairness ==
  /\ WF_vars(retryUnacked((acked + 1)..(nextMid - 1)))
  /\ WF_vars(onReady)
  /\ \A m \in 1..MaxSent :
       /\ SF_vars(\E d \in Data : onDuplicate([mid |-> m, data |-> d]))
       /\ SF_vars(\E d \in Data : onDataMsg([mid |-> m, data |-> d]))
  /\ \A u \in 1..MaxSent : SF_vars(onAck(u))

FairSpec == Spec /\ Fairness

--------------------------------------------------------------------------------
(* Properties *)

\* The window a conforming sender keeps never looks like abuse to the receiver
\* (onDataMsg's comment), however frames and ACKs are lost, repeated and
\* reordered: a session whose ends agree on INFLIGHT_CREDITS, or whose sender
\* has fewer, never closes as a credit-window violation.
NoFalseViolation == SenderCredits <= ReceiverCredits => closeReason # "window"

\* The lane implements FifoLane: each accepted message is handed over once and
\* in order, frames that overtook HELLO included, and at most SEND_QUEUE_CAP +
\* INFLIGHT_CREDITS messages are accepted and not handed over.
Fifo == INSTANCE FifoLane WITH
  Backlog <- SEND_QUEUE_CAP + SenderCredits, open <- closeReason = "open"
FifoSpec == Fifo!Spec

\* Reassembly is bounded whatever window the peer keeps: only frames of the
\* receiver's own window are ever buffered.
BufferInWindow ==
  \A m \in DOMAIN recvBuffer : recvContigMid < m /\ m <= recvContigMid + ReceiverCredits

\* Every accepted message is eventually handed over, unless the session closes:
\* a lost frame is sent again, a lost ACK does not freeze the window.
EventuallyHandedOver ==
  \A i \in 1..MaxSent :
    Len(accepted) >= i ~> (recvContigMid >= i \/ closeReason # "open")

\* Every transmitted frame is eventually acknowledged, unless the session closes.
EventuallyAcked ==
  \A i \in 1..MaxSent : nextMid > i ~> (acked >= i \/ closeReason # "open")

\* session.ts onRaw: frames dropped by a failing handler "recover via the
\* retry machinery, exactly like frame loss": no frame is acknowledged, and so
\* forgotten by its sender, when its handler threw.
FailedNotAcked == \A m \in failed : m > acked
================================================================================
