------------------------------- MODULE RtpGbn -------------------------------
(***************************************************************************)
(* The cumulative variant of the transfer, sendMessage and recvMessage: an *)
(* ACK names the first chunk the receiver still needs, and a timeout       *)
(* repeats the whole window.                                               *)
(***************************************************************************)
EXTENDS RtpSession

vars == <<network, sender, receiver>>

Init == SessionInit

-----------------------------------------------------------------------------
(* Fault: the loop starts one late.                                        *)
FaultSkipsBase(from) == {Data(i) : i \in from + 1 .. nextseqnum - 1}

(* The packets that the loop over base..nextseqnum-1 sends again when the  *)
(* timer has run out.                                                      *)
Repeated(from) == {Data(i) : i \in from .. nextseqnum - 1}

Resend(expired) ==
    toRecv' = IF expired THEN toRecv \cup Repeated(base') ELSE toRecv

(* revRTP gave nothing and 100 ms have passed.  When they have not, the    *)
(* pass through the loop changes nothing.                                  *)
Timeout ==
    /\ sPhase = "wait"
    /\ sPhase' = "top"
    /\ UNCHANGED <<toSend, startSeq, window, receiver>>
    /\ Resend(TRUE)

(* An ACK above base and totseq deletes packs[i] beyond the vector's end:  *)
(* undefined behaviour, which may crash or go on.                          *)
AfterAck(p) ==
    IF p.seq > base /\ p.seq > totseq THEN {"top", "crashed"} ELSE {"top"}

(* An ACK that is not above base is ignored, a higher one moves base to    *)
(* its number without any comparison with what was sent.                   *)
GetAck(p, expired) ==
    /\ sPhase = "wait"
    /\ p.type = "ACK"
    /\ toSend' \in Received(toSend, p)
    /\ base' = IF p.seq > base THEN p.seq ELSE base
    /\ sPhase' \in AfterAck(p)
    /\ UNCHANGED <<startSeq, nextseqnum, totseq, receiver>>
    /\ Resend(expired)

(* Fault: the ACK names the chunk after the one that came.                 *)
FaultAckNotCumulative(p) ==
    /\ Store(p)
    /\ toSend' = toSend \cup {Ack(p.seq + 1)}

(* DATA inside the window is answered with the first chunk still needed.   *)
GetData(p) ==
    /\ Store(p)
    /\ toSend' = toSend \cup {Ack(firstneedrecv')}

Next ==
    \/ SendStart \/ StartAcked \/ StartFailed \/ OpenFails \/ OpenSucceeds
    \/ SendWindow \/ Finish \/ Timeout
    \/ \E p \in toSend, expired \in BOOLEAN : GetAck(p, expired)
    \/ \E p \in toRecv : GetStart(p) \/ GetEnd(p) \/ Ignore(p) \/ GetData(p)
    \/ Refuse \/ IdleTimeout
    \/ LosePacket
    \/ Returned

Spec == Init /\ [][Next]_vars

-----------------------------------------------------------------------------
(* What is sent again and again arrives again and again: of the DATA no    *)
(* more is asked than of the chunk that the receiver needs next, of the    *)
(* ACKs no more than of those that tell the sender something new.          *)
DeliverData == \E p \in toRecv : p.seq = firstneedrecv /\ GetData(p)

DeliverAck ==
    \E p \in toSend, expired \in BOOLEAN : p.seq > base /\ GetAck(p, expired)

(* Both processes keep running.  The timer is read after every revRTP, so  *)
(* it runs out again and again while no ACK stops it, which needs only     *)
(* that the network does not repeat ACKs without end.                      *)
FairSpec ==
    /\ Spec
    /\ WF_vars(SendWindow \/ Finish)
    /\ SF_vars(Timeout)
    /\ WF_vars(IdleTimeout)
    /\ SF_vars(DeliverData)
    /\ SF_vars(DeliverAck)

-----------------------------------------------------------------------------
TypeOK == SessionTypeOK

(* The sender's base never passes what the receiver has written, and what  *)
(* the receiver has written was sent: an ACK, however old or reordered,    *)
(* never makes the sender give up a chunk that is still missing.           *)
AckedIsWritten ==
    sPhase \in {"top", "wait", "ok"} =>
        /\ base <= firstneedrecv
        /\ firstneedrecv = Len(file)
        /\ firstneedrecv <= nextseqnum

-----------------------------------------------------------------------------
(* While the sender runs, every ACK in flight names a chunk the receiver   *)
(* had reached.                                                            *)
AckInv ==
    sPhase \in {"connected", "top", "wait"} =>
        \A p \in toSend : p.seq <= firstneedrecv

(* The inductive invariant behind the properties.                          *)
IInv == SessionInv /\ AckInv
=============================================================================
