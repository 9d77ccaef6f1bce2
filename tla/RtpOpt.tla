------------------------------- MODULE RtpOpt -------------------------------
(***************************************************************************)
(* The selective variant, sendMessageOpt and recvMessageOpt: an ACK names  *)
(* the chunk that arrived, the sender marks it in a ring of 2*window_size  *)
(* flags, slides over the marked ones, and repeats only the others.        *)
(***************************************************************************)
EXTENDS RtpSession

VARIABLE acked   \* the ring of flags, local to sendMessageOpt

vars == <<network, sender, receiver, acked>>

ACKBUFFSIZE == 2 * SndW
Flags == 0 .. ACKBUFFSIZE - 1

Flag(q) == acked[q % ACKBUFFSIZE]

Init ==
    /\ SessionInit
    /\ acked = [s \in Flags |-> FALSE]

-----------------------------------------------------------------------------
(* The ring comes from new bool[] and nothing clears it: at first a flag   *)
(* holds whatever the memory held.                                         *)
OpenFile ==
    /\ OpenSucceeds
    /\ acked' \in [Flags -> BOOLEAN]

(* Fault: the ring is taken as new bool[] left it.                         *)
FaultFlagsNotCleared ==
    /\ SendWindow
    /\ UNCHANGED acked

(* A chunk's flag is cleared when the chunk is first sent.                 *)
SendFirst ==
    /\ SendWindow
    /\ acked' = [s \in Flags |->
                    IF \E i \in nextseqnum .. nextseqnum' - 1 : s = i % ACKBUFFSIZE
                    THEN FALSE ELSE acked[s]]

-----------------------------------------------------------------------------
(* base slides over the marked chunks and stops at the first that is not.  *)
SlidesTo(b) ==
    /\ b \in base .. nextseqnum
    /\ \A i \in base .. b - 1 : acked'[i % ACKBUFFSIZE]
    /\ b = nextseqnum \/ ~acked'[b % ACKBUFFSIZE]

Slide == \E b \in base .. nextseqnum : SlidesTo(b) /\ base' = b

(* Fault: the test of the flag is inverted.                                *)
FaultResendsAcked == {Data(i) : i \in {j \in base' .. nextseqnum - 1 :
                                        acked'[j % ACKBUFFSIZE]}}

(* Only what is not marked is sent again when the timer has run out.       *)
Repeated == {Data(i) : i \in {j \in base' .. nextseqnum - 1 :
                                ~acked'[j % ACKBUFFSIZE]}}

Resend(expired) ==
    toRecv' = IF expired THEN toRecv \cup Repeated ELSE toRecv

(* revRTP gave nothing and 100 ms have passed.                             *)
Timeout ==
    /\ sPhase = "wait"
    /\ sPhase' = "top"
    /\ UNCHANGED <<toSend, startSeq, nextseqnum, totseq, receiver, acked>>
    /\ Slide
    /\ Resend(TRUE)

(* An ACK inside base..base+window_size-1 sets its flag, sent or not.      *)
GetAck(p, expired) ==
    /\ sPhase = "wait"
    /\ p.type = "ACK"
    /\ toSend' \in Received(toSend, p)
    /\ acked' = IF base <= p.seq /\ p.seq < base + SndW
                THEN [acked EXCEPT ![p.seq % ACKBUFFSIZE] = TRUE]
                ELSE acked
    /\ sPhase' = "top"
    /\ UNCHANGED <<startSeq, nextseqnum, totseq, receiver>>
    /\ Slide
    /\ Resend(expired)

(* Fault: the ACK is cumulative, as in recvMessage.                        *)
FaultAckCumulative(p) ==
    /\ Store(p)
    /\ toSend' = toSend \cup {Ack(firstneedrecv')}

(* DATA inside the window is answered with its own number.                 *)
GetData(p) ==
    /\ Store(p)
    /\ toSend' = toSend \cup {Ack(p.seq)}

(* The steps of RtpSession that do not touch the ring of flags.            *)
SharedStep ==
    \/ SendStart \/ StartAcked \/ StartFailed \/ OpenFails \/ Finish
    \/ \E p \in toRecv : GetStart(p) \/ GetEnd(p) \/ Ignore(p) \/ GetData(p)
    \/ Refuse \/ IdleTimeout
    \/ LosePacket
    \/ Returned

Next ==
    \/ SharedStep /\ UNCHANGED acked
    \/ OpenFile \/ SendFirst \/ Timeout
    \/ \E p \in toSend, expired \in BOOLEAN : GetAck(p, expired)

Spec == Init /\ [][Next]_vars

-----------------------------------------------------------------------------
(* What is sent again and again arrives again and again: of the DATA no    *)
(* more is asked than of the chunk that the receiver needs next, of the    *)
(* ACKs no more than of those that tell the sender something new.          *)
DeliverData ==
    /\ \E p \in toRecv : p.seq = firstneedrecv /\ GetData(p)
    /\ UNCHANGED acked

DeliverAck ==
    \E p \in toSend, expired \in BOOLEAN :
        /\ p.seq \in base .. base + SndW - 1 /\ ~Flag(p.seq)
        /\ GetAck(p, expired)

(* Both processes keep running.  The timer is read after every revRTP, so  *)
(* it runs out again and again while no ACK stops it, which needs only     *)
(* that the network does not repeat ACKs without end.                      *)
FairSpec ==
    /\ Spec
    /\ WF_vars(SendFirst \/ (Finish /\ UNCHANGED acked))
    /\ SF_vars(Timeout)
    /\ WF_vars(IdleTimeout /\ UNCHANGED acked)
    /\ SF_vars(DeliverData)
    /\ SF_vars(DeliverAck)

-----------------------------------------------------------------------------
TypeOK == SessionTypeOK /\ acked \in [Flags -> BOOLEAN]

(* A chunk is held by the receiver when it is written or in the ring.      *)
Held(q) == q < firstneedrecv \/ pack_buf[q % BUFFSIZE] # NoData

(* Whatever the flags held at first, a flag that is set for a chunk that   *)
(* was sent means that the receiver holds the chunk, and base never passes *)
(* a chunk the receiver has not written or still holds in its ring.        *)
FlagMeansHeld ==
    sPhase \in {"top", "wait"} =>
        /\ \A q \in base .. nextseqnum - 1 : Flag(q) => Held(q)
        /\ \A q \in 0 .. base - 1 : Held(q)

-----------------------------------------------------------------------------
(* The inductive invariant behind the properties.                          *)

(* Held, for a chunk that is not beyond the receiver's window.             *)
Have(q) ==
    \/ q < firstneedrecv
    \/ q < firstneedrecv + RcvW /\ pack_buf[q % BUFFSIZE] # NoData

(* While the sender runs, every ACK in flight names a chunk the receiver   *)
(* has, or none at all: that of START, if it can come twice.               *)
AckInv ==
    sPhase \in {"connected", "top", "wait"} =>
        \A p \in toSend : Have(p.seq) \/ p.seq >= N

(* The chunks that may be acknowledged share no flag.                      *)
FlagInv ==
    /\ acked \in [Flags -> BOOLEAN]
    /\ nextseqnum <= base + SndW
    /\ sPhase \in {"top", "wait"} =>
          \A q \in base .. nextseqnum - 1 : Flag(q) => Have(q)

IInv == SessionInv /\ AckInv /\ FlagInv
=============================================================================
