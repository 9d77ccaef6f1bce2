----------------------------- MODULE RtpSession -----------------------------
(***************************************************************************)
(* What the two variants of the RTP file transfer share: the handshake     *)
(* (initSender, initReceiver), the sender's reading of the file, its END   *)
(* (terminateSender), the receiver's ring buffer and its ways to stop, and *)
(* the UDP network between the two processes.  RtpGbn and RtpOpt add the   *)
(* treatment of acknowledgements, where sendMessage and sendMessageOpt     *)
(* differ, and the acknowledgement that recvMessage and recvMessageOpt     *)
(* send.                                                                   *)
(*                                                                         *)
(* One action is one call of revRTP, with everything the caller does until *)
(* it calls it again, or one pass through the sending half of the loop.    *)
(***************************************************************************)
EXTENDS RtpPacket

CONSTANTS
    SndW,         \* window_size given to initSender
    RcvW,         \* window_size given to initReceiver
    StartSeqs,    \* the values rand() may give the sequence number of START
    LoseData,     \* the network loses packets on their way to the receiver
    LoseAck,      \* the network loses ACKs in the middle of a transfer
    DupStartAck,  \* the network may deliver the ACK of START a second time
    Patient       \* the receiver's 10 s pass only after the sender stopped

ASSUME SessionAssumption ==
    /\ SndW \in Nat
    /\ RcvW \in Nat
    /\ StartSeqs \subseteq Nat
    /\ {LoseData, LoseAck, DupStartAck, Patient} \subseteq BOOLEAN

VARIABLES
    toRecv, toSend,             \* packets in flight
    sPhase, startSeq,           \* where the sender is; the seq of its START
    base, nextseqnum, totseq,   \* locals of sendMessage
    rPhase,                     \* where the receiver is
    firstneedrecv, pack_buf,    \* locals of recvMessage
    file                        \* the chunks written to the output file

network == <<toRecv, toSend>>
window  == <<base, nextseqnum, totseq>>
sender  == <<sPhase, startSeq, window>>
ring    == <<firstneedrecv, pack_buf, file>>
receiver == <<rPhase, ring>>

SenderPhases == {"idle", "starting", "connected", "top", "wait",
                 "ok", "failed", "nofile", "crashed"}
ReceiverPhases == {"listen", "recv", "refused", "ended", "timedout"}

SenderStopped   == sPhase \in {"ok", "failed", "nofile", "crashed"}
ReceiverStopped == rPhase \in {"refused", "ended", "timedout"}

BUFFSIZE == 2 * RcvW
Slots == 0 .. BUFFSIZE - 1

SessionInit ==
    /\ toRecv = {} /\ toSend = {}
    /\ sPhase = "idle" /\ startSeq = 0
    /\ base = 0 /\ nextseqnum = 0 /\ totseq = 0
    /\ rPhase = "listen"
    /\ firstneedrecv = 0 /\ pack_buf = [s \in Slots |-> NoData] /\ file = <<>>

-----------------------------------------------------------------------------
(* The sender's half of the handshake.                                     *)

SendStart ==
    /\ sPhase = "idle"
    /\ \E seq \in StartSeqs :
          /\ startSeq' = seq
          /\ toRecv' = toRecv \cup {Start(seq)}
    /\ sPhase' = "starting"
    /\ UNCHANGED <<toSend, window, receiver>>

(* Fault: the ACK is looked at and left in the socket.                     *)
FaultStartAckPeeked ==
    /\ sPhase = "starting"
    /\ Ack(startSeq) \in toSend
    /\ sPhase' = "connected"
    /\ UNCHANGED <<network, startSeq, window, receiver>>

StartAcked ==
    /\ sPhase = "starting"
    /\ Ack(startSeq) \in toSend
    /\ toSend' \in IF DupStartAck THEN Received(toSend, Ack(startSeq))
                                  ELSE {toSend \ {Ack(startSeq)}}
    /\ sPhase' = "connected"
    /\ UNCHANGED <<toRecv, startSeq, window, receiver>>

(* Fault: the failed handshake is not returned to the caller.              *)
FaultStartFailureIgnored ==
    /\ sPhase = "starting"
    /\ toRecv' = toRecv \cup {End(startSeq)}
    /\ sPhase' = "connected"
    /\ UNCHANGED <<toSend, startSeq, window, receiver>>

(* 2 s without a packet, or a packet that is not the ACK: the sender sends *)
(* END and closes its socket, whatever becomes of the END.                 *)
StartFailed ==
    /\ sPhase = "starting"
    /\ toRecv' = toRecv \cup {End(startSeq)}
    /\ sPhase' = "failed"
    /\ UNCHANGED <<toSend, startSeq, window, receiver>>

(* fopen fails: sendMessage returns without END and without closing.       *)
OpenFails ==
    /\ sPhase = "connected"
    /\ sPhase' = "nofile"
    /\ UNCHANGED <<network, startSeq, window, receiver>>

OpenSucceeds ==
    /\ sPhase = "connected"
    /\ sPhase' = "top"
    /\ UNCHANGED <<network, startSeq, window, receiver>>

-----------------------------------------------------------------------------
(* The first half of the sender's loop: read, then send what is new.       *)

(* totseq after the reading loop: it stops at the window's end or at the   *)
(* end of the file.                                                        *)
FilledTo ==
    IF base + SndW <= totseq THEN totseq
    ELSE IF base + SndW <= N THEN base + SndW ELSE N

(* nextseqnum after the loop that sends what was never sent.               *)
SentTo ==
    LET limit == IF FilledTo < base + SndW THEN FilledTo ELSE base + SndW
    IN  IF nextseqnum < limit THEN limit ELSE nextseqnum

SendWindow ==
    /\ sPhase = "top"
    /\ base # FilledTo
    /\ totseq' = FilledTo
    /\ nextseqnum' = SentTo
    /\ toRecv' = toRecv \cup {Data(i) : i \in nextseqnum .. SentTo - 1}
    /\ sPhase' = "wait"
    /\ UNCHANGED <<toSend, startSeq, base, receiver>>

(* Fault: the loop ends when everything was sent.                          *)
FaultFinishUnacked ==
    /\ sPhase = "top"
    /\ nextseqnum = FilledTo
    /\ totseq' = FilledTo
    /\ toRecv' = toRecv \cup {End(FilledTo)}
    /\ sPhase' = "ok"
    /\ UNCHANGED <<toSend, startSeq, base, nextseqnum, receiver>>

(* Everything read is acknowledged: one END, nobody repeats it.            *)
Finish ==
    /\ sPhase = "top"
    /\ base = FilledTo
    /\ totseq' = FilledTo
    /\ toRecv' = toRecv \cup {End(FilledTo)}
    /\ sPhase' = "ok"
    /\ UNCHANGED <<toSend, startSeq, base, nextseqnum, receiver>>

-----------------------------------------------------------------------------
(* The receiver.                                                           *)

(* Fault: the START itself is sent back.                                   *)
FaultEchoStart(p) ==
    /\ rPhase = "listen"
    /\ p.type = "START"
    /\ toRecv' \in Received(toRecv, p)
    /\ toSend' = toSend \cup {p}
    /\ rPhase' = "recv"
    /\ UNCHANGED <<sender, ring>>

GetStart(p) ==
    /\ rPhase = "listen"
    /\ p.type = "START"
    /\ toRecv' \in Received(toRecv, p)
    /\ toSend' = toSend \cup {Ack(p.seq)}
    /\ rPhase' = "recv"
    /\ UNCHANGED <<sender, ring>>

(* 2 s without a packet, or a first packet that is not START.              *)
Refuse ==
    /\ rPhase = "listen"
    /\ rPhase' = "refused"
    /\ UNCHANGED <<network, sender, ring>>

GetEnd(p) ==
    /\ rPhase = "recv"
    /\ p.type = "END"
    /\ toRecv' \in Received(toRecv, p)
    /\ toSend' = toSend \cup {Ack(p.seq)}
    /\ rPhase' = "ended"
    /\ UNCHANGED <<sender, ring>>

(* Fault: old DATA is not filtered.                                        *)
FaultNoLowerBound(seq) == seq < firstneedrecv + RcvW

InWindow(seq) == firstneedrecv <= seq /\ seq < firstneedrecv + RcvW

(* A second START, and DATA outside the window, get no answer at all.      *)
Ignore(p) ==
    /\ rPhase = "recv"
    /\ p.type = "START" \/ (p.type = "DATA" /\ ~InWindow(p.seq))
    /\ toRecv' = toRecv \ {p}
    /\ UNCHANGED <<toSend, sender, receiver>>

(* The ring after the packet is stored, unless its slot is taken.          *)
Stored(p) ==
    IF pack_buf[p.seq % BUFFSIZE] = NoData
    THEN [pack_buf EXCEPT ![p.seq % BUFFSIZE] = p.payload]
    ELSE pack_buf

(* The ring buf holds k chunks in a row from the first one needed: the     *)
(* drain loop empties each slot it writes, so it stops after one round.    *)
RunOf(buf, k) ==
    /\ \A j \in 0 .. k - 1 : buf[(firstneedrecv + j) % BUFFSIZE] # NoData
    /\ k = BUFFSIZE \/ buf[(firstneedrecv + k) % BUFFSIZE] = NoData

Store(p) ==
    /\ rPhase = "recv"
    /\ p.type = "DATA"
    /\ InWindow(p.seq)
    /\ toRecv' \in Received(toRecv, p)
    /\ \E k \in 0 .. BUFFSIZE :
          /\ RunOf(Stored(p), k)
          /\ file' = file \o
                [j \in 1 .. k |-> Stored(p)[(firstneedrecv + j - 1) % BUFFSIZE]]
          /\ pack_buf' =
                [s \in Slots |->
                    IF \E j \in 0 .. k - 1 : s = (firstneedrecv + j) % BUFFSIZE
                    THEN NoData ELSE Stored(p)[s]]
          /\ firstneedrecv' = firstneedrecv + k
    /\ UNCHANGED <<rPhase, sender>>

IdleTimeout ==
    /\ rPhase = "recv"
    /\ Patient => SenderStopped
    /\ rPhase' = "timedout"
    /\ UNCHANGED <<network, sender, ring>>

-----------------------------------------------------------------------------
(* The network loses a packet, or damages it so that revRTP drops it.      *)
LosePacket ==
    /\ \/ /\ LoseData
          /\ \E p \in toRecv : toRecv' = toRecv \ {p}
          /\ UNCHANGED toSend
       \/ /\ LoseAck \/ sPhase = "starting"
          /\ \E p \in toSend : toSend' = toSend \ {p}
          /\ UNCHANGED toRecv
    /\ UNCHANGED <<sender, receiver>>

(* Both functions returned.                                                *)
Returned ==
    /\ SenderStopped /\ ReceiverStopped
    /\ UNCHANGED <<network, sender, receiver>>

-----------------------------------------------------------------------------
SessionTypeOK ==
    /\ toRecv \subseteq ToReceiver
    /\ toSend \subseteq ToSender
    /\ sPhase \in SenderPhases
    /\ {startSeq, base, nextseqnum, totseq, firstneedrecv} \subseteq Nat
    /\ rPhase \in ReceiverPhases
    /\ pack_buf \in [Slots -> Payload \cup {NoData}]
    /\ file \in Seq(Payload)

(* What the receiver writes is, at every moment, a prefix of what the      *)
(* sender was asked to send, whatever the network does to the packets      *)
(* (recvMessage's ring and Download).                                      *)
FileIsPrefix ==
    /\ Len(file) <= N
    /\ file = SubSeq(Message, 1, Len(file))

(* sendMessage returns 0 only when the whole file is in the receiver's     *)
(* output file, not merely received or in its ring.                        *)
SuccessMeansDelivered == sPhase = "ok" => file = Message

(* An END can reach the receiver after a failed handshake or after the     *)
(* last ACK, never in between: a receiver that ended holds the whole file  *)
(* or nothing, and the sender is not sending any more.                     *)
EndIsAllOrNothing ==
    rPhase = "ended" => SenderStopped /\ (file = <<>> \/ file = Message)

(* Every occupied slot of the ring holds the chunk of the one sequence     *)
(* number of the window that maps to it, and the slot of the first chunk   *)
(* needed is empty between two packets, so storing never loses a chunk.    *)
RingHolds ==
    \A s \in Slots : pack_buf[s] # NoData =>
        \E q \in firstneedrecv + 1 .. firstneedrecv + RcvW - 1 :
            /\ q % BUFFSIZE = s
            /\ q < nextseqnum
            /\ pack_buf[s] = Message[q + 1]

(* The inductive form: only chunks of the message, and only those the      *)
(* sender has reached, are in flight or in the ring, and what is written   *)
(* is the message up to the first chunk needed.                            *)
DataInv ==
    /\ \A p \in toRecv : p.type = "DATA" =>
          /\ p.seq < nextseqnum
          /\ p.payload = Message[p.seq + 1]
    /\ file = SubSeq(Message, 1, firstneedrecv)
    /\ RingHolds

(* Before the file is opened nothing is sent but START, and the only ACK   *)
(* that can be in flight is its own.                                       *)
HandshakeInv ==
    /\ rPhase \in {"listen", "refused"} => toSend = {} /\ firstneedrecv = 0
    /\ sPhase = "idle" => toRecv = {} /\ rPhase \in {"listen", "refused"}
    /\ sPhase = "starting" => toSend \subseteq {Ack(startSeq)}
    /\ sPhase # "idle" => startSeq \in StartSeqs
    /\ \A p \in toRecv : p.type = "START" => p.seq = startSeq
    /\ sPhase \in {"connected", "top", "wait"} =>
          rPhase \notin {"listen", "refused"}
    /\ sPhase \in {"idle", "starting", "connected", "failed", "nofile"} =>
          nextseqnum = 0

(* The counters of both sides in their order.                              *)
CounterInv ==
    /\ base <= firstneedrecv
    /\ firstneedrecv <= nextseqnum
    /\ nextseqnum <= totseq
    /\ totseq <= N

(* An END is in flight, or was received, only after the sender stopped.    *)
EndInv ==
    /\ \A p \in toRecv : p.type = "END" => sPhase \in {"ok", "failed"}
    /\ rPhase = "ended" => sPhase \in {"ok", "failed"}
    /\ sPhase = "ok" => base = N
    /\ sPhase # "crashed"

SessionInv ==
    SessionTypeOK /\ HandshakeInv /\ DataInv /\ CounterInv /\ EndInv

(* A transfer that starts completes: the file is written to its last chunk *)
(* and both functions return, however many packets the network loses,      *)
(* repeats or reorders on the way.                                         *)
TransferCompletes ==
    sPhase = "top" ~> sPhase = "ok" /\ ReceiverStopped /\ file = Message

(* sendMessage returns, with 0 or with -1: sender_def.h gives it no other  *)
(* outcome.                                                                *)
SendMessageReturns == sPhase = "top" ~> SenderStopped

(* The abstract view of a session.                                         *)
Outcome ==
    CASE sPhase = "ok"                             -> "ok"
      [] sPhase \in {"failed", "nofile", "crashed"} -> "failed"
      [] OTHER                                     -> "busy"

Listening == IF ReceiverStopped THEN rPhase ELSE "open"

Transfer == INSTANCE FileTransfer WITH out <- file, snd <- Outcome, rcv <- Listening

(* The session implements FileTransfer: whatever the network does, the     *)
(* output grows only while the sender runs, success is reported only for a *)
(* complete file, and an END never closes the file while it is being sent. *)
TransferSpec == Transfer!Spec
=============================================================================
