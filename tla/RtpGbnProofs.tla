---------------------------- MODULE RtpGbnProofs ----------------------------
(***************************************************************************)
(* RtpGbn for every message, every window size and every way of losing,    *)
(* repeating and reordering packets.  Two things are assumed of a session, *)
(* the ones whose failure the runs of MCRtpGbn show: the sender's window   *)
(* is not empty, and the network does not deliver the ACK of START twice.  *)
(***************************************************************************)
EXTENDS RtpGbn, RtpSessionProofs

(* No ACK beyond the vector exists: all were sent for chunks it held.      *)
LEMMA NoAckBeyondVector ==
    ASSUME IInv, NEW p \in toSend, sPhase = "wait"
    PROVE  AfterAck(p) = {"top"} /\ p.seq \in Nat /\ p.seq <= firstneedrecv
<1>1. /\ p.seq \in Nat /\ firstneedrecv \in Nat /\ totseq \in Nat
      /\ nextseqnum \in Nat
  BY DEF IInv, SessionInv, SessionTypeOK, ToSender
<1>2. p.seq <= firstneedrecv
  BY DEF IInv, AckInv
<1>3. p.seq <= totseq
  BY <1>1, <1>2 DEF IInv, SessionInv, CounterInv
<1>4. QED
  BY <1>1, <1>2, <1>3 DEF AfterAck

-----------------------------------------------------------------------------
(* The two passes through the second half of the sender's loop.            *)

(* A timeout repeats what was sent before.                                 *)
LEMMA TimeoutPass ==
    ASSUME IInv, Timeout
    PROVE  /\ sPhase = "wait" /\ sPhase' = "top" /\ UNCHANGED receiver
           /\ toSend' \subseteq toSend
           /\ SessionInv'
<1>1. base' \in base .. firstneedrecv /\ base' \in Nat
  BY DEF Timeout, window, IInv, SessionInv, SessionTypeOK, CounterInv
<1>2. /\ sPhase = "wait" /\ sPhase' = "top"
      /\ UNCHANGED <<startSeq, nextseqnum, totseq, receiver>>
      /\ toSend' \subseteq toSend
      /\ toRecv' \subseteq toRecv \cup {Data(i) : i \in base' .. nextseqnum - 1}
  BY DEF Timeout, window, Resend, Repeated
<1>3. QED
  BY <1>1, <1>2, PassStep DEF IInv

(* An ACK moves base to a chunk the receiver had reached.                  *)
LEMMA GetAckPass ==
    ASSUME IInv, NEW p \in toSend, NEW expired \in BOOLEAN, GetAck(p, expired)
    PROVE  /\ sPhase = "wait" /\ sPhase' = "top" /\ UNCHANGED receiver
           /\ toSend' \subseteq toSend
           /\ SessionInv'
<1>1. /\ sPhase = "wait" /\ sPhase' = "top"
      /\ p.seq \in Nat /\ p.seq <= firstneedrecv
  BY NoAckBeyondVector DEF GetAck
<1>2. base' \in base .. firstneedrecv /\ base' \in Nat
  BY <1>1 DEF GetAck, IInv, SessionInv, SessionTypeOK, CounterInv
<1>3. /\ UNCHANGED <<startSeq, nextseqnum, totseq, receiver>>
      /\ toSend' \subseteq toSend
      /\ toRecv' \subseteq toRecv \cup {Data(i) : i \in base' .. nextseqnum - 1}
  BY DEF GetAck, Received, Resend, Repeated
<1>4. QED
  BY <1>1, <1>2, <1>3, PassStep DEF IInv

-----------------------------------------------------------------------------
(* The ACKs in flight, action by action.                                   *)

(* Steps that send no ACK and leave the sender where it was, or put it     *)
(* where no ACK matters.                                                   *)
LEMMA AckKept ==
    ASSUME IInv, toSend' \subseteq toSend, UNCHANGED firstneedrecv,
           \/ sPhase' \notin {"connected", "top", "wait"}
           \/ sPhase \in {"connected", "top", "wait"}
           \/ toSend' = {}
    PROVE  AckInv'
  BY DEF IInv, AckInv

LEMMA SessionAcks ==
    ASSUME IInv, ~DupStartAck,
           \/ SendStart \/ StartAcked \/ StartFailed \/ OpenFails \/ OpenSucceeds
           \/ SendWindow \/ Finish \/ Refuse \/ IdleTimeout \/ LosePacket \/ Returned
           \/ \E p \in toRecv : Ignore(p)
    PROVE  AckInv'
<1> USE DEF network, sender, window, receiver, ring
<1>1. CASE SendStart
  BY <1>1, AckKept DEF SendStart
<1>2. CASE StartAcked
  <2>1. toSend' = {}
    BY <1>2 DEF StartAcked, IInv, SessionInv, HandshakeInv
  <2>2. QED
    BY <1>2, <2>1, AckKept DEF StartAcked
<1>3. CASE StartFailed \/ OpenFails \/ Finish
  BY <1>3, AckKept DEF StartFailed, OpenFails, Finish
<1>4. CASE OpenSucceeds \/ SendWindow
  BY <1>4, AckKept DEF OpenSucceeds, SendWindow
<1>5. CASE Refuse \/ IdleTimeout \/ LosePacket \/ Returned
  <2>1. toSend' \subseteq toSend /\ UNCHANGED <<sPhase, firstneedrecv>>
    BY <1>5 DEF Refuse, IdleTimeout, LosePacket, Returned
  <2>2. QED
    BY <2>1, AckKept
<1>6. CASE \E p \in toRecv : Ignore(p)
  BY <1>6, AckKept DEF Ignore
<1>7. QED
  BY <1>1, <1>2, <1>3, <1>4, <1>5, <1>6

(* START and END are answered only while no ACK matters to the sender.     *)
LEMMA OtherAnswers ==
    ASSUME IInv, NEW p \in toRecv, GetStart(p) \/ GetEnd(p)
    PROVE  AckInv'
<1>1. sPhase \notin {"connected", "top", "wait"}
  BY DEF GetStart, GetEnd, IInv, SessionInv, HandshakeInv, EndInv
<1>2. UNCHANGED sPhase
  BY DEF GetStart, GetEnd, sender
<1>3. QED
  BY <1>1, <1>2 DEF AckInv

(* The ACK of DATA names the new first chunk needed.                       *)
LEMMA DataAnswers ==
    ASSUME IInv, NEW p \in toRecv, GetData(p)
    PROVE  AckInv' /\ toSend' \subseteq ToSender
<1>1. /\ firstneedrecv' \in Nat /\ firstneedrecv <= firstneedrecv'
      /\ UNCHANGED sPhase
      /\ toSend' = toSend \cup {Ack(firstneedrecv')}
  BY StoreFacts DEF GetData, IInv
<1>2. firstneedrecv \in Nat /\ toSend \subseteq ToSender
  BY DEF IInv, SessionInv, SessionTypeOK
<1>3. Ack(firstneedrecv') \in ToSender /\ Ack(firstneedrecv').seq = firstneedrecv'
  BY <1>1 DEF Ack, ToSender
<1>4. ASSUME sPhase' \in {"connected", "top", "wait"}, NEW a \in toSend'
      PROVE  a.seq <= firstneedrecv'
  <2>1. CASE a \in toSend
    <3>1. a.seq \in Nat /\ a.seq <= firstneedrecv
      BY <1>1, <1>2, <1>4, <2>1 DEF IInv, AckInv, ToSender
    <3>2. QED
      BY <1>1, <1>2, <3>1
  <2>2. CASE a = Ack(firstneedrecv')
    BY <1>1, <1>3, <2>2
  <2>3. QED
    BY <1>1, <1>4, <2>1, <2>2
<1>5. AckInv'
  BY <1>4 DEF AckInv
<1>6. QED
  BY <1>1, <1>2, <1>3, <1>5

-----------------------------------------------------------------------------
LEMMA InitIInv == Init => IInv
<1>1. Init => SessionInv
  BY SessionInitInv DEF Init
<1>2. Init => AckInv
  BY DEF Init, SessionInit, AckInv
<1>3. QED
  BY <1>1, <1>2 DEF IInv

(* Every step of the specification preserves the invariant.                *)
LEMMA StepIInv ==
    ASSUME ~DupStartAck, SndW > 0, IInv, [Next]_vars
    PROVE  IInv'
<1>0. SessionInv
  BY DEF IInv
<1>1. CASE SendStart
  BY <1>0, <1>1, SendStartStep, SessionAcks DEF IInv
<1>2. CASE StartAcked
  BY <1>0, <1>2, StartAckedStep, SessionAcks DEF IInv
<1>3. CASE StartFailed
  BY <1>0, <1>3, StartFailedStep, SessionAcks DEF IInv
<1>4. CASE OpenFails \/ OpenSucceeds
  BY <1>0, <1>4, OpenFailsStep, OpenSucceedsStep, SessionAcks DEF IInv
<1>5. CASE SendWindow
  BY <1>0, <1>5, SendWindowStep, SessionAcks DEF IInv
<1>6. CASE Finish
  BY <1>0, <1>6, FinishStep, SessionAcks DEF IInv
<1>7. CASE Timeout
  <2>1. UNCHANGED firstneedrecv
    BY <1>7, TimeoutPass DEF receiver, ring
  <2>2. QED
    BY <1>7, <2>1, TimeoutPass, AckKept DEF IInv
<1>8. ASSUME NEW p \in toSend, NEW expired \in BOOLEAN, GetAck(p, expired)
      PROVE  IInv'
  <2>1. UNCHANGED firstneedrecv
    BY <1>8, GetAckPass DEF receiver, ring
  <2>2. QED
    BY <1>8, <2>1, GetAckPass, AckKept DEF IInv
<1>9. ASSUME NEW p \in toRecv, GetStart(p) \/ GetEnd(p)
      PROVE  IInv'
  BY <1>0, <1>9, GetStartStep, GetEndStep, OtherAnswers DEF IInv
<1>10. ASSUME NEW p \in toRecv, Ignore(p)
       PROVE  IInv'
  BY <1>0, <1>10, IgnoreStep, SessionAcks DEF IInv
<1>11. ASSUME NEW p \in toRecv, GetData(p)
       PROVE  IInv'
  <2>1. Store(p) /\ toSend' \subseteq ToSender /\ AckInv'
    BY <1>11, DataAnswers DEF GetData
  <2>2. QED
    BY <1>0, <2>1, TakeDataStep DEF IInv
<1>12. CASE Refuse
  BY <1>0, <1>12, RefuseStep, SessionAcks DEF IInv
<1>13. CASE IdleTimeout
  BY <1>0, <1>13, IdleTimeoutStep, SessionAcks DEF IInv
<1>14. CASE LosePacket
  BY <1>0, <1>14, LosePacketStep, SessionAcks DEF IInv
<1>15. CASE Returned \/ UNCHANGED vars
  <2>1. UNCHANGED <<network, sender, receiver>>
    BY <1>15 DEF Returned, vars
  <2>2. UNCHANGED <<toSend, sPhase, firstneedrecv>>
    BY <2>1 DEF network, sender, receiver, ring
  <2>3. QED
    BY <1>0, <2>1, <2>2, SessionStutter DEF IInv, AckInv
<1>16. QED
  BY <1>1, <1>2, <1>3, <1>4, <1>5, <1>6, <1>7, <1>8, <1>9, <1>10, <1>11,
     <1>12, <1>13, <1>14, <1>15 DEF Next

(* The inductive invariant holds in every reachable state.                 *)
THEOREM Invariance ==
    ASSUME ~DupStartAck, SndW > 0
    PROVE  Spec => []IInv
<1>1. Init => IInv
  BY InitIInv
<1>2. IInv /\ [Next]_vars => IInv'
  BY StepIInv
<1>3. QED
  BY <1>1, <1>2, PTL DEF Spec

-----------------------------------------------------------------------------
(* What the invariant says of a state, property by property.               *)
LEMMA IInvImplies ==
    ASSUME IInv
    PROVE  /\ TypeOK /\ FileIsPrefix /\ SuccessMeansDelivered
           /\ EndIsAllOrNothing /\ AckedIsWritten /\ RingHolds
<1>1. SessionInv
  BY DEF IInv
<1>2. AckedIsWritten
  BY <1>1, SessionInvImplies DEF AckedIsWritten, SessionInv, CounterInv
<1>3. QED
  BY <1>1, <1>2, SessionInvImplies DEF TypeOK

(* Every variable keeps its type.                                          *)
THEOREM TypeCorrect ==
    ASSUME ~DupStartAck, SndW > 0
    PROVE  Spec => []TypeOK
<1>1. Spec => []IInv
  BY Invariance
<1>2. IInv => TypeOK
  BY IInvImplies
<1>3. QED
  BY <1>1, <1>2, PTL

(* Download never writes a chunk twice, out of order or after a gap:       *)
(* duplicates, losses and reordering leave the output a prefix of the file.*)
THEOREM PrefixTheorem ==
    ASSUME ~DupStartAck, SndW > 0
    PROVE  Spec => []FileIsPrefix
<1>1. Spec => []IInv
  BY Invariance
<1>2. IInv => FileIsPrefix
  BY IInvImplies
<1>3. QED
  BY <1>1, <1>2, PTL

(* When sendMessage returns 0 the receiver has written the whole file,     *)
(* whatever the two windows and whatever was lost on the way.              *)
THEOREM DeliveryTheorem ==
    ASSUME ~DupStartAck, SndW > 0
    PROVE  Spec => []SuccessMeansDelivered
<1>1. Spec => []IInv
  BY Invariance
<1>2. IInv => SuccessMeansDelivered
  BY IInvImplies
<1>3. QED
  BY <1>1, <1>2, PTL

(* A receiver that saw END holds everything or nothing, and the sender has *)
(* stopped.                                                                *)
THEOREM EndTheorem ==
    ASSUME ~DupStartAck, SndW > 0
    PROVE  Spec => []EndIsAllOrNothing
<1>1. Spec => []IInv
  BY Invariance
<1>2. IInv => EndIsAllOrNothing
  BY IInvImplies
<1>3. QED
  BY <1>1, <1>2, PTL

(* base, however old the ACKs it follows, never passes firstneedrecv.      *)
THEOREM AckTheorem ==
    ASSUME ~DupStartAck, SndW > 0
    PROVE  Spec => []AckedIsWritten
<1>1. Spec => []IInv
  BY Invariance
<1>2. IInv => AckedIsWritten
  BY IInvImplies
<1>3. QED
  BY <1>1, <1>2, PTL

(* 2*window_size slots are enough: no two chunks compete for a slot.       *)
THEOREM RingTheorem ==
    ASSUME ~DupStartAck, SndW > 0
    PROVE  Spec => []RingHolds
<1>1. Spec => []IInv
  BY Invariance
<1>2. IInv => RingHolds
  BY IInvImplies
<1>3. QED
  BY <1>1, <1>2, PTL

-----------------------------------------------------------------------------
(* Every step of the protocol is a step of FileTransfer or a stutter.      *)
LEMMA TransferStep ==
    ASSUME SndW > 0, IInv, [Next]_vars
    PROVE  [Transfer!Next]_Transfer!vars
<1>1. CASE SessionStep
  BY <1>1, SessionTransfer DEF IInv
<1>2. CASE Timeout
  BY <1>2, TimeoutPass, PassTransfer
<1>3. ASSUME NEW p \in toSend, NEW expired \in BOOLEAN, GetAck(p, expired)
      PROVE  UNCHANGED Transfer!vars
  BY <1>3, GetAckPass, PassTransfer
<1>4. CASE UNCHANGED vars
  <2>1. UNCHANGED <<file, rPhase, sPhase>>
    BY <1>4 DEF vars, sender, receiver, ring
  <2>2. QED
    BY <2>1, TransferStutter DEF Outcome, Listening, ReceiverStopped
<1>5. ASSUME NEW p \in toRecv, GetData(p)
      PROVE  Store(p)
  BY <1>5 DEF GetData
<1>6. QED
  BY <1>1, <1>2, <1>3, <1>4, <1>5 DEF Next, SessionStep

(* The cumulative transfer implements FileTransfer.                        *)
THEOREM Implementation ==
    ASSUME ~DupStartAck, SndW > 0
    PROVE  Spec => TransferSpec
<1>1. Init => Transfer!Init
  BY TransferInit DEF Init
<1>2. IInv /\ [Next]_vars => [Transfer!Next]_Transfer!vars
  BY TransferStep
<1>3. Spec => []IInv
  BY Invariance
<1>4. QED
  BY <1>1, <1>2, <1>3, PTL DEF Spec, TransferSpec, Transfer!Spec
=============================================================================
