----------------------------- MODULE FtpFraming -----------------------------
(***************************************************************************)
(* Datagrams over a TCP socket: datatrans.cpp and the conversions of       *)
(* datagram.cpp, in one direction.  Memory and stream are cells of         *)
(* 0 .. Base - 1.  A header is one cell for the magic number, the type and *)
(* the status, which travel together, and two for the four of m_length.    *)
(*                                                                         *)
(* read and write move any part of what they are asked for.  A read from a *)
(* connection that was closed returns 0: readBuf tries again, and nothing  *)
(* happens any more.  One that was reset fails once, and is closed then.   *)
(***************************************************************************)
EXTENDS Naturals, Sequences

CONSTANTS
    Base,          \* 256 in the code
    Types,         \* types of datagrams
    SizeMax,       \* the largest size_t
    MaxPayload,    \* longest payload
    SocketBuffer,  \* cells that the connection holds
    MaxSent        \* bound: datagrams that are sent

HEADER_SIZE == 3

Cells == 0 .. Base - 1

ASSUME FramingAssumption ==
    /\ Base \in Nat \ {0, 1} /\ MaxPayload \in Nat
    /\ 0 \in Types /\ Types \subseteq Cells
    /\ SocketBuffer \in Nat \ {0} /\ MaxSent \in Nat
    /\ HEADER_SIZE + MaxPayload < Base * Base
    /\ SizeMax \in Nat /\ SizeMax > HEADER_SIZE + MaxPayload

Payloads == UNION {[1 .. n -> Cells] : n \in 0 .. MaxPayload}
Dgrams == [type : Types, payload : Payloads]

VARIABLES
    link, sock,        \* the connection and the cells on their way
    out, wRet,         \* bbuff of the writer, and ret of writeBuf
    phase,             \* what readDgram reads
    bbuff, payload, rRet,
    sent, got, bogus   \* history

writing == <<out, wRet>>
reading == <<phase, bbuff, payload, rRet>>
history == <<sent, got, bogus>>
vars == <<link, sock, writing, reading, history>>

-----------------------------------------------------------------------------
(* The four bytes in the other order.                                      *)
endianRev(n) == (n % Base) * Base + n \div Base

(* Header(type, status, HEADER_SIZE + len), as the machine lays it out.    *)
Header(type, len) ==
    LET m_length == endianRev(HEADER_SIZE + len)
    IN  <<type, m_length % Base, m_length \div Base>>

(* Fault: the header counts as payload.                                    *)
FaultWholeLength(hd) == endianRev(hd[2] + Base * hd[3])

payload_length(hd) == endianRev(hd[2] + Base * hd[3]) - HEADER_SIZE

dgram2bytes(d) == Header(d.type, Len(d.payload)) \o d.payload

Init ==
    /\ link = "open" /\ sock = <<>>
    /\ out = <<>> /\ wRet = 0
    /\ phase = "idle" /\ payload = <<>> /\ rRet = 0
    /\ bbuff \in {Header(t, n) : t \in Types, n \in 0 .. MaxPayload}
    /\ sent = <<>> /\ got = <<>> /\ bogus = FALSE

-----------------------------------------------------------------------------
(* Fault: writeBuf is content with a part.                                 *)
FaultWritesOnce == wRet > 0 \/ out = <<>>

(* writeBuf has returned.                                                  *)
Written == wRet >= Len(out)

writeDgram(d) ==
    /\ Written /\ link = "open" /\ Len(sent) < MaxSent
    /\ out' = dgram2bytes(d) /\ wRet' = 0
    /\ sent' = Append(sent, d)
    /\ UNCHANGED <<link, sock, reading, got, bogus>>

Write(b) ==
    /\ ~Written /\ link = "open"
    /\ b <= Len(out) - wRet /\ Len(sock) + b <= SocketBuffer
    /\ sock' = sock \o SubSeq(out, wRet + 1, wRet + b)
    /\ wRet' = wRet + b
    /\ UNCHANGED <<link, out, reading, history>>

(* The writer's process ends, in the middle of a datagram or not, or its   *)
(* end resets the connection and what is on its way may be lost.           *)
Hangup ==
    /\ link = "open"
    /\ \/ link' = "closed" /\ UNCHANGED sock
       \/ /\ link' = "reset"
          /\ \E n \in 0 .. Len(sock) : sock' = SubSeq(sock, 1, n)
    /\ UNCHANGED <<writing, reading, history>>

-----------------------------------------------------------------------------
(* Since it last called readDgram the reader may have sent a datagram of   *)
(* its own from the same bbuff.                                            *)
readDgram ==
    /\ phase = "idle" /\ phase' = "header" /\ rRet' = 0
    /\ bbuff' \in {bbuff, Header(0, 0), Header(0, MaxPayload)}
    /\ UNCHANGED <<link, sock, writing, payload, history>>

Asked == IF phase = "header" THEN HEADER_SIZE ELSE Len(payload)
Reading == phase # "idle" /\ rRet < Asked

Filled(buf, b) ==
    [i \in 1 .. Len(buf) |->
        IF i \in rRet + 1 .. rRet + b THEN sock[i - rRet] ELSE buf[i]]

Read(b) ==
    /\ Reading /\ b <= Len(sock) /\ b <= Asked - rRet
    /\ IF phase = "header"
       THEN bbuff' = Filled(bbuff, b) /\ UNCHANGED payload
       ELSE payload' = Filled(payload, b) /\ UNCHANGED bbuff
    /\ rRet' = rRet + b
    /\ sock' = SubSeq(sock, b + 1, Len(sock))
    /\ UNCHANGED <<link, writing, phase, history>>

(* Fault: ret is an int.                                                   *)
FaultSigned ==
    /\ Reading /\ link = "reset" /\ sock = <<>>
    /\ link' = "failed" /\ rRet' = rRet - 1
    /\ UNCHANGED <<sock, writing, phase, bbuff, payload, history>>

(* read returns -1 and ret is a size_t: before the first byte this ends    *)
(* the loop, later it goes back by one byte.                               *)
ReadFails ==
    /\ Reading /\ link = "reset" /\ sock = <<>>
    /\ link' = "failed"
    /\ rRet' = (rRet + SizeMax) % (SizeMax + 1)
    /\ UNCHANGED <<sock, writing, phase, bbuff, payload, history>>

Return(d) ==
    /\ phase' = "idle"
    /\ got' = Append(got, d)
    /\ bogus' = (link = "failed")
    /\ UNCHANGED <<link, sock, writing, bbuff, rRet, sent>>

(* bytes2dgram: the new payload holds whatever the heap held.              *)
HeaderRead ==
    /\ phase = "header" /\ ~Reading
    /\ LET len == payload_length(bbuff) IN
          \/ /\ len = 0 /\ payload' = <<>>
             /\ Return([type |-> bbuff[1], payload |-> <<>>])
          \/ /\ len # 0
             /\ payload' \in [1 .. len -> Cells]
             /\ phase' = "payload" /\ rRet' = 0
             /\ UNCHANGED <<link, sock, writing, bbuff, history>>

PayloadRead ==
    /\ phase = "payload" /\ ~Reading
    /\ Return([type |-> bbuff[1], payload |-> payload])
    /\ UNCHANGED payload

Reader ==
    \/ readDgram \/ ReadFails \/ HeaderRead \/ PayloadRead
    \/ \E b \in 1 .. SocketBuffer : Read(b)

Next ==
    \/ Hangup \/ Reader
    \/ \E d \in Dgrams : writeDgram(d)
    \/ \E b \in 1 .. SocketBuffer : Write(b)

Spec == Init /\ [][Next]_vars

(* Both processes run, and TCP goes on delivering.                         *)
FairSpec ==
    /\ Spec
    /\ WF_vars(Reader)
    /\ WF_vars(\E b \in 1 .. SocketBuffer : Write(b))

-----------------------------------------------------------------------------
TypeOK ==
    /\ link \in {"open", "closed", "reset", "failed"}
    /\ sock \in Seq(Cells) /\ Len(sock) <= SocketBuffer
    /\ out \in Seq(Cells) /\ wRet \in 0 .. Len(out)
    /\ phase \in {"idle", "header", "payload"}
    /\ bbuff \in [1 .. HEADER_SIZE -> Cells] /\ payload \in Payloads
    /\ rRet \in 0 .. SizeMax
    /\ sent \in Seq(Dgrams) /\ got \in Seq(Dgrams) /\ bogus \in BOOLEAN

Channel == INSTANCE DgramChannel WITH broken <- link = "failed"

(* Datagrams arrive whole and in order however read and write cut them up; *)
(* after an error at most one arrives that was not sent: DgramChannel.     *)
ChannelSpec == Channel!Spec

(* What writeDgram was called with arrives, as long as the connection is.  *)
Delivered ==
    \A n \in 1 .. MaxSent : Len(sent) >= n ~> Len(got) >= n \/ link # "open"
=============================================================================
