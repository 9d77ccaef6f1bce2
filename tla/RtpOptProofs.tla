---------------------------- MODULE RtpOptProofs ----------------------------
(***************************************************************************)
(* RtpOpt for every message, every window size, every way of losing,       *)
(* repeating and reordering packets, and whatever the memory of the flags  *)
(* held.  As for RtpGbn the sender's window must not be empty; the ACK of  *)
(* START may come twice if its number is not that of a chunk.              *)
(***************************************************************************)
EXTENDS RtpOpt, RtpSessionProofs

(* The number of START is not mistaken for that of a chunk.                *)
NoStaleAck == DupStartAck => \A s \in StartSeqs : s >= N

LEMMA Numbers ==
    ASSUME SessionInv
    PROVE  /\ base \in Nat /\ nextseqnum \in Nat /\ totseq \in Nat
           /\ firstneedrecv \in Nat /\ N \in Nat /\ SndW \in Nat /\ RcvW \in Nat
           /\ BUFFSIZE \in Nat /\ BUFFSIZE = 2 * RcvW
           /\ ACKBUFFSIZE \in Nat /\ ACKBUFFSIZE = 2 * SndW
           /\ base <= firstneedrecv /\ firstneedrecv <= nextseqnum
           /\ nextseqnum <= totseq /\ totseq <= N
           /\ \A p \in toSend : p.seq \in Nat
  BY SessionAssumption, MessageFacts
     DEF SessionInv, SessionTypeOK, CounterInv, BUFFSIZE, ACKBUFFSIZE, ToSender

-----------------------------------------------------------------------------
(* What the receiver has.                                                  *)

(* The first chunk needed is not there, so what is there up to some chunk  *)
(* is written up to that chunk.                                            *)
LEMMA FirstMissing ==
    ASSUME SessionInv
    PROVE  ~Have(firstneedrecv)
<1> SUFFICES ASSUME Have(firstneedrecv)
             PROVE  FALSE
  OBVIOUS
<1>1. /\ RcvW > 0 /\ pack_buf[firstneedrecv % BUFFSIZE] # NoData
      /\ BUFFSIZE > 0
  BY Numbers DEF Have
<1>2. firstneedrecv % BUFFSIZE \in Slots
  BY <1>1, Numbers, SMT DEF Slots
<1>3. PICK q \in firstneedrecv + 1 .. firstneedrecv + RcvW - 1 :
         q % BUFFSIZE = firstneedrecv % BUFFSIZE
  BY <1>1, <1>2 DEF SessionInv, DataInv, RingHolds
<1>4. /\ q \in Nat /\ firstneedrecv < q + BUFFSIZE
      /\ q < firstneedrecv + BUFFSIZE
  BY <1>3, Numbers
<1>5. q = firstneedrecv
  BY <1>1, <1>3, <1>4, Numbers, ModuloUnique
<1>6. QED
  BY <1>3, <1>5, Numbers

(* Storing a chunk takes none away, and the chunk is there afterwards.     *)
LEMMA HaveKept ==
    ASSUME SessionInv, NEW p \in toRecv, Store(p)
    PROVE  /\ \A q \in Nat : Have(q) => Have(q)'
           /\ Have(p.seq)'
<1>1. PICK k \in 0 .. BUFFSIZE :
         /\ pack_buf' =
               [s \in Slots |->
                   IF \E j \in 0 .. k - 1 : s = (firstneedrecv + j) % BUFFSIZE
                   THEN NoData ELSE Stored(p)[s]]
         /\ firstneedrecv' = firstneedrecv + k
  BY DEF Store
<1>a. /\ p.seq \in Nat /\ p.seq < nextseqnum /\ p.type = "DATA"
      /\ firstneedrecv' \in Nat
  BY StoreFacts
<1>b. firstneedrecv <= p.seq /\ p.seq < firstneedrecv + RcvW
  BY DEF Store, InWindow
<1>2. /\ p.seq \in Nat /\ firstneedrecv <= p.seq /\ p.seq < firstneedrecv + RcvW
      /\ k \in Nat /\ k <= BUFFSIZE /\ BUFFSIZE > 0
      /\ firstneedrecv' \in Nat
  BY <1>1, <1>a, <1>b, Numbers
<1>c. /\ pack_buf \in [Slots -> Payload \cup {NoData}]
      /\ \A q \in Nat : q % BUFFSIZE \in Slots
  <2>1. \A q \in Nat : q % BUFFSIZE \in Slots
    BY <1>2, Numbers, SMT DEF Slots
  <2>2. QED
    BY <2>1 DEF SessionInv, SessionTypeOK
<1>3. ASSUME NEW q \in Nat, firstneedrecv <= q, q < firstneedrecv + RcvW,
             Stored(p)[q % BUFFSIZE] # NoData
      PROVE  Have(q)'
  <2>1. CASE q < firstneedrecv + k
    BY <1>1, <2>1 DEF Have
  <2>2. CASE ~ (q < firstneedrecv + k)
    <3>1. q % BUFFSIZE \in Slots
      BY <1>c
    <3>2. ASSUME NEW j \in 0 .. k - 1, q % BUFFSIZE = (firstneedrecv + j) % BUFFSIZE
          PROVE  FALSE
      <4>1. /\ firstneedrecv + j \in Nat
            /\ q < firstneedrecv + j + BUFFSIZE
            /\ firstneedrecv + j < q + BUFFSIZE
        BY <1>2, <1>3, Numbers
      <4>2. q = firstneedrecv + j
        BY <1>2, <3>2, <4>1, Numbers, ModuloUnique
      <4>3. QED
        BY <1>2, <2>2, <4>2, Numbers
    <3>3. pack_buf'[q % BUFFSIZE] # NoData
      BY <1>1, <1>3, <3>1, <3>2
    <3>4. q < firstneedrecv' + RcvW
      BY <1>1, <1>2, <1>3, Numbers
    <3>5. QED
      BY <3>3, <3>4 DEF Have, BUFFSIZE
  <2>3. QED
    BY <2>1, <2>2
<1>4. ASSUME NEW q \in Nat, Have(q)
      PROVE  Have(q)'
  <2>1. CASE q < firstneedrecv
    <3>1. q < firstneedrecv'
      BY <1>1, <1>2, <2>1, Numbers
    <3>2. QED
      BY <3>1 DEF Have
  <2>2. CASE ~ (q < firstneedrecv)
    <3>1. /\ firstneedrecv <= q /\ q < firstneedrecv + RcvW
          /\ pack_buf[q % BUFFSIZE] # NoData
      BY <1>4, <2>2, Numbers DEF Have
    <3>2. Stored(p)[q % BUFFSIZE] # NoData
      <4>1. pack_buf[p.seq % BUFFSIZE] = NoData =>
               p.seq % BUFFSIZE # q % BUFFSIZE
        BY <3>1
      <4>2. QED
        BY <1>c, <3>1, <4>1 DEF Stored
    <3>3. QED
      BY <1>3, <3>1, <3>2
  <2>3. QED
    BY <2>1, <2>2
<1>5. Have(p.seq)'
  <2>1. Stored(p)[p.seq % BUFFSIZE] # NoData
    <3>1. p.seq % BUFFSIZE \in Slots
      BY <1>2, <1>c
    <3>2. p.payload # NoData
      <4>1. p.seq + 1 \in 1 .. N
        BY <1>a, Numbers
      <4>2. p.payload = Message[p.seq + 1]
        BY <1>a DEF SessionInv, DataInv
      <4>3. QED
        BY <4>1, <4>2, MessageFacts
    <3>3. QED
      BY <1>c, <3>1, <3>2 DEF Stored
  <2>2. QED
    BY <1>2, <1>3, <2>1
<1>6. QED
  BY <1>4, <1>5

-----------------------------------------------------------------------------
(* The flags.                                                              *)

LEMMA Below ==
    ASSUME NEW lo \in Nat, NEW hi \in Nat, NEW q \in Nat, lo <= q, q < hi
    PROVE  q \in lo .. hi - 1
  OBVIOUS

LEMMA FlagIndex ==
    ASSUME SessionInv, SndW > 0, NEW q \in Nat
    PROVE  q % ACKBUFFSIZE \in Flags
<1>1. ACKBUFFSIZE \in Nat /\ ACKBUFFSIZE > 0
  BY Numbers
<1>2. QED
  BY <1>1, SMT DEF Flags

(* base never passes a chunk the receiver does not have, so it stays below *)
(* the first one that is needed.                                           *)
LEMMA SlideBound ==
    ASSUME SessionInv, Slide,
           \A q \in base .. nextseqnum - 1 :
               acked'[q % ACKBUFFSIZE] => Have(q)
    PROVE  base' \in base .. firstneedrecv /\ base' \in base .. nextseqnum
<1>1. /\ base' \in base .. nextseqnum
      /\ \A q \in base .. base' - 1 : acked'[q % ACKBUFFSIZE]
  BY DEF Slide, SlidesTo
<1>n. /\ base \in Nat /\ nextseqnum \in Nat /\ base' \in Nat
      /\ base' <= nextseqnum
  BY <1>1, Numbers
<1>2. ASSUME NEW q \in Nat, base <= q, q < base'
      PROVE  Have(q)
  <2>a. q < nextseqnum
    BY <1>n, <1>2
  <2>1. q \in base .. nextseqnum - 1 /\ q \in base .. base' - 1
    BY <1>n, <1>2, <2>a, Below
  <2>2. acked'[q % ACKBUFFSIZE]
    BY <1>1, <2>1
  <2>3. QED
    BY <2>1, <2>2, Zenon
<1>3. CASE firstneedrecv < base'
  <2>1. Have(firstneedrecv)
    BY <1>2, <1>3, Numbers
  <2>2. QED
    BY <2>1, FirstMissing
<1>4. QED
  BY <1>1, <1>3, Numbers

(* A pass through the second half of the loop, for whatever it did to the  *)
(* flags of the chunks in the window.                                      *)
LEMMA FlagPass ==
    ASSUME IInv, sPhase = "wait", sPhase' = "top",
           UNCHANGED <<startSeq, nextseqnum, totseq, receiver>>,
           toSend' \subseteq toSend, Slide,
           acked' \in [Flags -> BOOLEAN],
           \A q \in base .. nextseqnum - 1 :
               acked'[q % ACKBUFFSIZE] => Have(q),
           NEW expired \in BOOLEAN, Resend(expired)
    PROVE  IInv'
<1>0. SessionInv
  BY DEF IInv
<1>1. /\ base' \in base .. firstneedrecv /\ base' \in base .. nextseqnum
      /\ base' \in Nat
  BY <1>0, SlideBound, Numbers
<1>2. toRecv' \subseteq toRecv \cup {Data(i) : i \in base' .. nextseqnum - 1}
  BY DEF Resend, Repeated
<1>3. SessionInv'
  BY <1>0, <1>1, <1>2, PassStep
<1>4. UNCHANGED <<firstneedrecv, pack_buf, nextseqnum>>
  BY DEF receiver, ring
<1>5. AckInv'
  BY <1>4 DEF IInv, AckInv, Have, BUFFSIZE
<1>6. FlagInv'
  <2>1. nextseqnum' <= base' + SndW
    BY <1>0, <1>1, <1>4, Numbers DEF IInv, FlagInv
  <2>2. ASSUME NEW q \in base' .. nextseqnum - 1, acked'[q % ACKBUFFSIZE]
        PROVE  Have(q)'
    <3>1. q \in base .. nextseqnum - 1
      BY <1>0, <1>1, Numbers
    <3>2. QED
      BY <1>4, <2>2, <3>1 DEF Have, BUFFSIZE
  <2>3. QED
    BY <1>4, <2>1, <2>2 DEF FlagInv, Flag, Flags, ACKBUFFSIZE
<1>7. QED
  BY <1>3, <1>5, <1>6 DEF IInv

LEMMA TimeoutKeeps ==
    ASSUME IInv, Timeout
    PROVE  IInv'
<1>1. /\ sPhase = "wait" /\ sPhase' = "top"
      /\ UNCHANGED <<startSeq, nextseqnum, totseq, receiver>>
      /\ toSend' \subseteq toSend /\ Slide /\ Resend(TRUE)
      /\ acked' = acked
  BY DEF Timeout
<1>2. acked' \in [Flags -> BOOLEAN]
  BY <1>1 DEF IInv, FlagInv
<1>3. \A q \in base .. nextseqnum - 1 : acked'[q % ACKBUFFSIZE] => Have(q)
  BY <1>1 DEF IInv, FlagInv, Flag
<1>4. QED
  BY <1>1, <1>2, <1>3, FlagPass

(* An ACK sets the flag of its own chunk and of no other in the window.    *)
LEMMA GetAckKeeps ==
    ASSUME IInv, SndW > 0,
           NEW p \in toSend, NEW expired \in BOOLEAN, GetAck(p, expired)
    PROVE  IInv'
<1>0. SessionInv
  BY DEF IInv
<1>1. /\ sPhase = "wait" /\ sPhase' = "top"
      /\ UNCHANGED <<startSeq, nextseqnum, totseq, receiver>>
      /\ toSend' \subseteq toSend /\ Slide /\ Resend(expired)
  BY DEF GetAck, Received
<1>2. /\ acked' = IF base <= p.seq /\ p.seq < base + SndW
                  THEN [acked EXCEPT ![p.seq % ACKBUFFSIZE] = TRUE]
                  ELSE acked
      /\ acked \in [Flags -> BOOLEAN]
  BY DEF GetAck, IInv, FlagInv
<1>3. acked' \in [Flags -> BOOLEAN]
  BY <1>2
<1>4. ASSUME NEW q \in base .. nextseqnum - 1, acked'[q % ACKBUFFSIZE]
      PROVE  Have(q)
  <2>1. CASE acked[q % ACKBUFFSIZE]
    BY <1>1, <2>1 DEF IInv, FlagInv, Flag
  <2>2. CASE ~acked[q % ACKBUFFSIZE]
    <3>1. /\ base <= p.seq /\ p.seq < base + SndW
          /\ q % ACKBUFFSIZE = p.seq % ACKBUFFSIZE
      BY <1>2, <1>4, <2>2
    <3>2. /\ q \in Nat /\ p.seq \in Nat /\ q < N
          /\ q < p.seq + ACKBUFFSIZE /\ p.seq < q + ACKBUFFSIZE
          /\ ACKBUFFSIZE > 0
      BY <1>0, <3>1, Numbers DEF IInv, FlagInv
    <3>3. q = p.seq
      BY <1>0, <3>1, <3>2, Numbers, ModuloUnique
    <3>4. QED
      BY <1>0, <1>1, <3>2, <3>3, Numbers DEF IInv, AckInv
  <2>3. QED
    BY <2>1, <2>2
<1>5. QED
  BY <1>1, <1>3, <1>4, FlagPass

(* Whatever the memory held, a chunk that is sent for the first time has   *)
(* its flag cleared.                                                       *)
LEMMA SendFirstKeeps ==
    ASSUME IInv, SndW > 0, SendFirst
    PROVE  IInv'
<1>0. SessionInv
  BY DEF IInv
<1>1. /\ SendWindow
      /\ acked' = [s \in Flags |->
                    IF \E i \in nextseqnum .. nextseqnum' - 1 : s = i % ACKBUFFSIZE
                    THEN FALSE ELSE acked[s]]
  BY DEF SendFirst
<1>2. SessionInv'
  BY <1>0, <1>1, SendWindowStep
<1>3. /\ sPhase = "top" /\ sPhase' = "wait"
      /\ UNCHANGED <<toSend, base, firstneedrecv, pack_buf>>
      /\ nextseqnum' = SentTo
  BY <1>1 DEF SendWindow, receiver, ring
<1>4. AckInv'
  BY <1>3 DEF IInv, AckInv, Have, BUFFSIZE
<1>5. /\ nextseqnum' \in Nat /\ nextseqnum <= nextseqnum'
      /\ nextseqnum' <= base + SndW /\ SndW > 0
  <2>1. /\ FilledTo \in Nat /\ SentTo \in Nat /\ nextseqnum <= SentTo /\ SndW > 0
    <3>1. SessionTypeOK
      BY <1>0 DEF SessionInv
    <3>2. QED
      BY <1>0, <3>1, FillBounds, Numbers
  <2>2. SentTo <= base + SndW
    BY <1>0, <2>1, Numbers DEF SentTo, IInv, FlagInv
  <2>3. QED
    BY <1>3, <2>1, <2>2
<1>6. acked \in [Flags -> BOOLEAN] /\ acked' \in [Flags -> BOOLEAN]
  BY <1>1 DEF IInv, FlagInv
<1>n. base \in Nat /\ nextseqnum \in Nat /\ nextseqnum' \in Nat
  BY <1>0, <1>5, Numbers
<1>7. ASSUME NEW q \in Nat, base <= q, q < nextseqnum', acked'[q % ACKBUFFSIZE]
      PROVE  Have(q)'
  <2>1. q % ACKBUFFSIZE \in Flags
    BY <1>0, FlagIndex
  <2>2. /\ q \notin nextseqnum .. nextseqnum' - 1
        /\ acked[q % ACKBUFFSIZE]
    BY <1>1, <1>6, <1>7, <2>1
  <2>a. q < nextseqnum
    <3>1. CASE nextseqnum <= q
      BY <1>7, <1>n, <2>2, <3>1, Below
    <3>2. QED
      BY <1>n, <3>1
  <2>3. q \in base .. nextseqnum - 1
    BY <1>7, <1>n, <2>a, Below
  <2>4. Have(q)
    BY <1>3, <2>2, <2>3 DEF IInv, FlagInv, Flag
  <2>5. QED
    BY <1>3, <2>4 DEF Have, BUFFSIZE
<1>8. FlagInv'
  <2>1. \A q \in base' .. nextseqnum' - 1 :
           /\ q \in Nat /\ base <= q /\ q < nextseqnum'
           /\ Flag(q)' => acked'[q % ACKBUFFSIZE]
    BY <1>3, <1>n DEF Flag, ACKBUFFSIZE
  <2>2. \A q \in base' .. nextseqnum' - 1 : Flag(q)' => Have(q)'
    BY <1>7, <2>1
  <2>3. QED
    BY <1>3, <1>5, <1>6, <2>2 DEF FlagInv, Flags, ACKBUFFSIZE
<1>9. QED
  BY <1>2, <1>4, <1>8 DEF IInv

(* Before the first chunk is sent no flag matters.                         *)
LEMMA OpenFileKeeps ==
    ASSUME IInv, OpenFile
    PROVE  IInv'
<1>0. SessionInv
  BY DEF IInv
<1>1. OpenSucceeds /\ acked' \in [Flags -> BOOLEAN]
  BY DEF OpenFile
<1>2. SessionInv'
  BY <1>0, <1>1, OpenSucceedsStep
<1>3. /\ sPhase = "connected"
      /\ UNCHANGED <<toSend, base, nextseqnum, firstneedrecv, pack_buf>>
  BY <1>1 DEF OpenSucceeds, network, window, receiver, ring
<1>4. AckInv'
  BY <1>3 DEF IInv, AckInv, Have, BUFFSIZE
<1>5. nextseqnum = 0 /\ nextseqnum <= base + SndW
  BY <1>3 DEF IInv, FlagInv, SessionInv, HandshakeInv
<1>6. base .. nextseqnum' - 1 = {}
  BY <1>0, <1>3, <1>5, Numbers
<1>7. FlagInv'
  BY <1>1, <1>3, <1>5, <1>6 DEF FlagInv, Flags, ACKBUFFSIZE
<1>8. QED
  BY <1>2, <1>4, <1>7 DEF IInv

-----------------------------------------------------------------------------
(* The steps that do not touch the flags.                                  *)

LEMMA FlagKept ==
    ASSUME IInv, UNCHANGED <<acked, base, nextseqnum>>,
           \A q \in Nat : Have(q) => Have(q)',
           sPhase' \in {"top", "wait"} => sPhase \in {"top", "wait"}
    PROVE  FlagInv'
<1>0. base \in Nat /\ nextseqnum \in Nat
  BY Numbers DEF IInv
<1>1. /\ acked' \in [Flags -> BOOLEAN]
      /\ nextseqnum' <= base' + SndW
  BY DEF IInv, FlagInv
<1>2. ASSUME sPhase' \in {"top", "wait"},
             NEW q \in base .. nextseqnum - 1, acked[q % ACKBUFFSIZE]
      PROVE  Have(q)'
  <2>1. q \in Nat
    BY <1>0
  <2>2. Have(q)
    BY <1>2 DEF IInv, FlagInv, Flag
  <2>3. QED
    BY <2>1, <2>2
<1>3. QED
  BY <1>1, <1>2 DEF FlagInv, Flag, Flags, ACKBUFFSIZE

(* Steps that leave the receiver's ring alone.                             *)
LEMMA HaveUnchanged ==
    ASSUME UNCHANGED <<firstneedrecv, pack_buf>>
    PROVE  \A q \in Nat : Have(q) => Have(q)'
  BY DEF Have, BUFFSIZE

(* Steps that send no ACK and leave the sender where it was, or put it     *)
(* where no ACK matters.                                                   *)
LEMMA AckKept ==
    ASSUME IInv, toSend' \subseteq toSend, UNCHANGED <<firstneedrecv, pack_buf>>,
           \/ sPhase' \notin {"connected", "top", "wait"}
           \/ sPhase \in {"connected", "top", "wait"}
    PROVE  AckInv'
<1>1. ASSUME sPhase' \in {"connected", "top", "wait"}, NEW p \in toSend'
      PROVE  Have(p.seq)' \/ p.seq >= N
  <2>1. Have(p.seq) \/ p.seq >= N
    BY <1>1 DEF IInv, AckInv
  <2>2. QED
    BY <2>1 DEF Have, BUFFSIZE
<1>2. QED
  BY <1>1 DEF AckInv

(* The ACK of START is gone when the file is opened, or is of no chunk.    *)
LEMMA StartAckedKeeps ==
    ASSUME NoStaleAck, IInv, StartAcked, UNCHANGED acked
    PROVE  IInv'
<1> USE DEF network, sender, window, receiver, ring
<1>1. SessionInv'
  BY StartAckedStep DEF IInv
<1>2. AckInv'
  <2>1. toSend \subseteq {Ack(startSeq)} /\ startSeq \in StartSeqs
    BY DEF StartAcked, IInv, SessionInv, HandshakeInv
  <2>2. \A p \in toSend' : p = Ack(startSeq) /\ DupStartAck
    BY <2>1 DEF StartAcked, Received
  <2>3. \A p \in toSend' : p.seq >= N
    BY <2>1, <2>2 DEF Ack, NoStaleAck
  <2>4. QED
    BY <2>3 DEF AckInv
<1>3. FlagInv'
  BY HaveUnchanged, FlagKept DEF StartAcked
<1>4. QED
  BY <1>1, <1>2, <1>3 DEF IInv

(* DATA is answered with its own number, and it is there.                  *)
LEMMA GetDataKeeps ==
    ASSUME IInv, NEW p \in toRecv, GetData(p), UNCHANGED acked
    PROVE  IInv'
<1>0. SessionInv
  BY DEF IInv
<1>1. /\ p.seq \in Nat /\ UNCHANGED <<sPhase, base, nextseqnum>>
      /\ toSend' = toSend \cup {Ack(p.seq)}
      /\ Store(p)
  BY <1>0, StoreFacts DEF GetData
<1>2. /\ \A q \in Nat : Have(q) => Have(q)'
      /\ Have(p.seq)'
  BY <1>0, <1>1, HaveKept
<1>3. toSend' \subseteq ToSender
  BY <1>0, <1>1 DEF SessionInv, SessionTypeOK, ToSender, Ack
<1>4. SessionInv'
  BY <1>0, <1>1, <1>3, TakeDataStep
<1>5. AckInv'
  <2>1. ASSUME sPhase' \in {"connected", "top", "wait"}, NEW a \in toSend'
        PROVE  Have(a.seq)' \/ a.seq >= N
    <3>1. CASE a \in toSend
      <4>1. a.seq \in Nat
        BY <1>0, <3>1, Numbers
      <4>2. Have(a.seq) \/ a.seq >= N
        BY <1>1, <2>1, <3>1 DEF IInv, AckInv
      <4>3. QED
        BY <1>2, <4>1, <4>2
    <3>2. CASE a = Ack(p.seq)
      <4>1. a.seq = p.seq
        BY <3>2 DEF Ack
      <4>2. QED
        BY <1>2, <4>1
    <3>3. QED
      BY <1>1, <2>1, <3>1, <3>2
  <2>2. QED
    BY <2>1 DEF AckInv
<1>6. FlagInv'
  BY <1>1, <1>2, FlagKept
<1>7. QED
  BY <1>4, <1>5, <1>6 DEF IInv

(* START and END are answered only while no ACK matters to the sender.     *)
LEMMA OtherAnswersKeep ==
    ASSUME IInv, NEW p \in toRecv, GetStart(p) \/ GetEnd(p), UNCHANGED acked
    PROVE  IInv'
<1>1. sPhase \notin {"connected", "top", "wait"}
  BY DEF GetStart, GetEnd, IInv, SessionInv, HandshakeInv, EndInv
<1>2. UNCHANGED <<sPhase, base, nextseqnum, firstneedrecv, pack_buf>>
  BY DEF GetStart, GetEnd, sender, window, ring
<1>3. SessionInv'
  BY GetStartStep, GetEndStep DEF IInv
<1>4. AckInv'
  BY <1>1, <1>2 DEF AckInv
<1>5. FlagInv'
  BY <1>2, HaveUnchanged, FlagKept
<1>6. QED
  BY <1>3, <1>4, <1>5 DEF IInv

(* The steps that answer nothing.                                          *)
LEMMA QuietKeeps ==
    ASSUME IInv, SndW > 0, UNCHANGED acked,
           \/ SendStart \/ StartFailed \/ OpenFails \/ Finish
           \/ Refuse \/ IdleTimeout \/ LosePacket \/ Returned
           \/ \E p \in toRecv : Ignore(p)
    PROVE  IInv'
<1>1. /\ toSend' \subseteq toSend
      /\ UNCHANGED <<base, nextseqnum, firstneedrecv, pack_buf>>
      /\ sPhase' = sPhase \/ sPhase' \notin {"connected", "top", "wait"}
  BY DEF SendStart, StartFailed, OpenFails, Finish, Refuse, IdleTimeout,
     LosePacket, Returned, Ignore, network, sender, window, receiver, ring
<1>2. SessionInv'
  <2>1. CASE Returned
    BY <2>1, SessionStutter DEF Returned, IInv
  <2>2. QED
    BY <2>1, SendStartStep, StartFailedStep, OpenFailsStep, FinishStep,
       RefuseStep, IdleTimeoutStep, LosePacketStep, IgnoreStep DEF IInv
<1>3. AckInv'
  <2>1. CASE sPhase' \notin {"connected", "top", "wait"}
    BY <1>1, <2>1, AckKept
  <2>2. CASE sPhase' \in {"connected", "top", "wait"}
    <3>1. sPhase \in {"connected", "top", "wait"}
      BY <1>1, <2>2
    <3>2. QED
      BY <1>1, <3>1, AckKept
  <2>3. QED
    BY <2>1, <2>2
<1>4. FlagInv'
  <2>1. sPhase' \in {"top", "wait"} => sPhase \in {"top", "wait"}
    BY <1>1
  <2>2. QED
    BY <1>1, <2>1, HaveUnchanged, FlagKept
<1>5. QED
  BY <1>2, <1>3, <1>4 DEF IInv

-----------------------------------------------------------------------------
LEMMA InitIInv == Init => IInv
<1> SUFFICES ASSUME Init PROVE IInv
  OBVIOUS
<1>1. SessionInv
  BY SessionInitInv DEF Init
<1>2. AckInv
  BY DEF Init, SessionInit, AckInv
<1>3. FlagInv
  BY SessionAssumption DEF Init, SessionInit, FlagInv
<1>4. QED
  BY <1>1, <1>2, <1>3 DEF IInv

(* Every step of the specification preserves the invariant.                *)
LEMMA StepIInv ==
    ASSUME NoStaleAck, SndW > 0, IInv, [Next]_vars
    PROVE  IInv'
<1>1. CASE StartAcked /\ UNCHANGED acked
  BY <1>1, StartAckedKeeps
<1>2. CASE /\ UNCHANGED acked
           /\ \/ SendStart \/ StartFailed \/ OpenFails \/ Finish
              \/ Refuse \/ IdleTimeout \/ LosePacket \/ Returned
              \/ \E p \in toRecv : Ignore(p)
  BY <1>2, QuietKeeps
<1>3. ASSUME NEW p \in toRecv, GetStart(p) \/ GetEnd(p), UNCHANGED acked
      PROVE  IInv'
  BY <1>3, OtherAnswersKeep
<1>4. ASSUME NEW p \in toRecv, GetData(p), UNCHANGED acked
      PROVE  IInv'
  BY <1>4, GetDataKeeps
<1>5. CASE OpenFile
  BY <1>5, OpenFileKeeps
<1>6. CASE SendFirst
  BY <1>6, SendFirstKeeps
<1>7. CASE Timeout
  BY <1>7, TimeoutKeeps
<1>8. ASSUME NEW p \in toSend, NEW expired \in BOOLEAN, GetAck(p, expired)
      PROVE  IInv'
  BY <1>8, GetAckKeeps
<1>9. CASE UNCHANGED vars
  <2>1. UNCHANGED <<network, sender, receiver, acked>>
    BY <1>9 DEF vars
  <2>2. SessionInv'
    BY <2>1, SessionStutter DEF IInv
  <2>3. UNCHANGED <<toSend, sPhase, base, nextseqnum, firstneedrecv, pack_buf>>
    BY <2>1 DEF network, sender, window, receiver, ring
  <2>4. AckInv'
    BY <2>3 DEF IInv, AckInv, Have, BUFFSIZE
  <2>5. FlagInv'
    BY <2>1, <2>3, HaveUnchanged, FlagKept
  <2>6. QED
    BY <2>2, <2>4, <2>5 DEF IInv
<1>10. QED
  BY <1>1, <1>2, <1>3, <1>4, <1>5, <1>6, <1>7, <1>8, <1>9 DEF Next, SharedStep

(* The inductive invariant holds in every reachable state.                 *)
THEOREM Invariance ==
    ASSUME NoStaleAck, SndW > 0
    PROVE  Spec => []IInv
<1>1. Init => IInv
  BY InitIInv
<1>2. IInv /\ [Next]_vars => IInv'
  BY StepIInv
<1>3. QED
  BY <1>1, <1>2, PTL DEF Spec

-----------------------------------------------------------------------------
(* What the invariant says of a state, property by property.               *)
LEMMA IInvImplies ==
    ASSUME IInv
    PROVE  TypeOK /\ FlagMeansHeld /\ RingHolds
<1>1. TypeOK /\ RingHolds
  BY SessionInvImplies DEF IInv, FlagInv, TypeOK
<1>2. ASSUME sPhase \in {"top", "wait"}
      PROVE  /\ \A q \in base .. nextseqnum - 1 : Flag(q) => Held(q)
             /\ \A q \in 0 .. base - 1 : Held(q)
  <2>1. \A q \in base .. nextseqnum - 1 : Flag(q) => Held(q)
    BY <1>2 DEF IInv, FlagInv, Have, Held
  <2>2. ASSUME NEW q \in 0 .. base - 1
        PROVE  q < firstneedrecv
    BY Numbers DEF IInv
  <2>3. QED
    BY <2>1, <2>2 DEF Held
<1>3. QED
  BY <1>1, <1>2 DEF FlagMeansHeld

(* Every variable keeps its type, the flags from their first value on.     *)
THEOREM TypeCorrect ==
    ASSUME NoStaleAck, SndW > 0
    PROVE  Spec => []TypeOK
<1>1. Spec => []IInv
  BY Invariance
<1>2. IInv => TypeOK
  BY IInvImplies
<1>3. QED
  BY <1>1, <1>2, PTL

(* No flag that decides anything is left over from the memory or from an   *)
(* earlier chunk: sendMessageOpt slides only over what the receiver has.   *)
THEOREM FlagTheorem ==
    ASSUME NoStaleAck, SndW > 0
    PROVE  Spec => []FlagMeansHeld
<1>1. Spec => []IInv
  BY Invariance
<1>2. IInv => FlagMeansHeld
  BY IInvImplies
<1>3. QED
  BY <1>1, <1>2, PTL

(* recvMessageOpt's ring never lets two chunks compete for a slot.         *)
THEOREM RingTheorem ==
    ASSUME NoStaleAck, SndW > 0
    PROVE  Spec => []RingHolds
<1>1. Spec => []IInv
  BY Invariance
<1>2. IInv => RingHolds
  BY IInvImplies
<1>3. QED
  BY <1>1, <1>2, PTL

-----------------------------------------------------------------------------
(* Every step of the protocol is a step of FileTransfer or a stutter.      *)
LEMMA TransferStep ==
    ASSUME SndW > 0, IInv, [Next]_vars
    PROVE  [Transfer!Next]_Transfer!vars
<1>1. CASE SessionStep
  BY <1>1, SessionTransfer DEF IInv
<1>2. CASE SharedStep \/ OpenFile \/ SendFirst
  BY <1>1, <1>2 DEF SharedStep, OpenFile, SendFirst, GetData, SessionStep
<1>3. CASE Timeout
  BY <1>3, PassTransfer DEF Timeout
<1>4. ASSUME NEW p \in toSend, NEW expired \in BOOLEAN, GetAck(p, expired)
      PROVE  UNCHANGED Transfer!vars
  BY <1>4, PassTransfer DEF GetAck
<1>5. CASE UNCHANGED vars
  <2>1. UNCHANGED <<file, rPhase, sPhase>>
    BY <1>5 DEF vars, sender, receiver, ring
  <2>2. QED
    BY <2>1, TransferStutter DEF Outcome, Listening, ReceiverStopped
<1>6. QED
  BY <1>2, <1>3, <1>4, <1>5 DEF Next

(* The selective transfer implements FileTransfer.                         *)
THEOREM Implementation ==
    ASSUME NoStaleAck, SndW > 0
    PROVE  Spec => TransferSpec
<1>1. Init => Transfer!Init
  BY TransferInit DEF Init
<1>2. IInv /\ [Next]_vars => [Transfer!Next]_Transfer!vars
  BY TransferStep
<1>3. Spec => []IInv
  BY Invariance
<1>4. QED
  BY <1>1, <1>2, <1>3, PTL DEF Spec, TransferSpec, Transfer!Spec
=============================================================================
