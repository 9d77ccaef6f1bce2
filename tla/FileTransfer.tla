---------------------------- MODULE FileTransfer ----------------------------
(***************************************************************************)
(* What one RTP session promises, with no packet in sight: the chunks of   *)
(* the message appear in the output in order and only while the sender is  *)
(* busy, the sender reports success only when all of them are there, and   *)
(* the receiver's side closes in one of three ways.                        *)
(***************************************************************************)
EXTENDS Integers, Sequences

CONSTANT Message

VARIABLES
    out,   \* the output file
    snd,   \* "busy", "ok" (sendMessage returned 0) or "failed"
    rcv    \* "open", "refused" (no connection), "ended" or "timedout"

vars == <<out, snd, rcv>>

Init == out = <<>> /\ snd = "busy" /\ rcv = "open"

(* One or more chunks at a time: a packet may fill a gap in the ring.      *)
Deliver ==
    /\ snd = "busy" /\ rcv = "open"
    /\ \E n \in Len(out) + 1 .. Len(Message) : out' = SubSeq(Message, 1, n)
    /\ UNCHANGED <<snd, rcv>>

Succeed ==
    /\ snd = "busy" /\ out = Message
    /\ snd' = "ok"
    /\ UNCHANGED <<out, rcv>>

(* The handshake fails or the file cannot be opened: nothing was sent.     *)
Fail ==
    /\ snd = "busy" /\ out = <<>>
    /\ snd' = "failed"
    /\ UNCHANGED <<out, rcv>>

Refuse ==
    /\ rcv = "open" /\ out = <<>>
    /\ rcv' = "refused"
    /\ UNCHANGED <<out, snd>>

EndOfFile ==
    /\ rcv = "open" /\ snd # "busy"
    /\ rcv' = "ended"
    /\ UNCHANGED <<out, snd>>

GiveUp ==
    /\ rcv = "open"
    /\ rcv' = "timedout"
    /\ UNCHANGED <<out, snd>>

Next == Deliver \/ Succeed \/ Fail \/ Refuse \/ EndOfFile \/ GiveUp

Spec == Init /\ [][Next]_vars
=============================================================================
