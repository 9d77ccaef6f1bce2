----------------------------- MODULE RtpPacket -----------------------------
(***************************************************************************)
(* The RTP packets of Lab2-RTP-Test/src/rtp.h and the file that a session  *)
(* carries.  The bytes of a packet are abstracted to its type, its         *)
(* sequence number and its payload; a payload is one chunk of at most      *)
(* PAYLOAD_SIZE-1 bytes of the file, as fread cuts it (an element of       *)
(* Payload).  A packet whose checksum fails is null for whoever receives   *)
(* it (revRTP), so damage is the same event as loss.                       *)
(***************************************************************************)
EXTENDS Integers, Sequences

CONSTANTS
    Payload,   \* the chunks a file is made of
    NoData,    \* the payload of START, END and ACK, and an empty buffer slot
    Message    \* the chunks of the file that is sent, in order

ASSUME MessageAssumption ==
    /\ NoData \notin Payload
    /\ Message \in Seq(Payload)

N == Len(Message)

Start(s) == [type |-> "START", seq |-> s, payload |-> NoData]
End(s)   == [type |-> "END",   seq |-> s, payload |-> NoData]
Ack(s)   == [type |-> "ACK",   seq |-> s, payload |-> NoData]
Data(s)  == [type |-> "DATA",  seq |-> s, payload |-> Message[s + 1]]

(* Packets from the sender to the receiver, and from the receiver back.    *)
ToReceiver == [type : {"START", "END", "DATA"}, seq : Nat,
               payload : Payload \cup {NoData}]
ToSender   == [type : {"ACK"}, seq : Nat, payload : {NoData}]

(* A channel is the set of the packets with a copy in flight: a delivery   *)
(* may leave another copy behind, and copies overtake each other.          *)
Received(channel, p) == {channel, channel \ {p}}
=============================================================================
