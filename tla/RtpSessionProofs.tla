-------------------------- MODULE RtpSessionProofs --------------------------
(***************************************************************************)
(* What the receiver's ring guarantees, proved once for both variants of   *)
(* the transfer: draining it appends to the file exactly the next chunks   *)
(* of the message.                                                         *)
(***************************************************************************)
EXTENDS RtpSession, SequenceTheorems, TLAPS

(* A message is a sequence of N chunks.                                    *)
LEMMA MessageFacts ==
    /\ N \in Nat
    /\ \A i \in 1 .. N : Message[i] \in Payload
    /\ NoData \notin Payload
  BY MessageAssumption, LenProperties, ElementOfSeq DEF N

(* Two numbers less than b apart with the same remainder are equal: a slot *)
(* of the ring belongs to one sequence number of any BUFFSIZE in a row.    *)
LEMMA ModuloUnique ==
    ASSUME NEW b \in Nat, b > 0,
           NEW m \in Nat, NEW n \in Nat,
           m % b = n % b, m < n + b, n < m + b
    PROVE  m = n
<1> DEFINE qm == m \div b
           qn == n \div b
           r  == m % b
<1>1. /\ qm \in Int /\ qn \in Int /\ r \in Int
      /\ m = b * qm + r
      /\ n = b * qn + r
  BY SMT
<1> HIDE DEF qm, qn, r
<1>2. /\ b * qm < b * qn + b
      /\ b * qn < b * qm + b
  BY <1>1
<1>3. qm < qn + 1 /\ qn < qm + 1
  BY <1>1, <1>2, SMT
<1>4. QED
  BY <1>1, <1>3

(* The chunks of a message after the first n, k of them, extend its prefix *)
(* of length n to the prefix of length n + k.                              *)
LEMMA PrefixExtends ==
    ASSUME NEW n \in Nat, NEW k \in Nat, n + k <= N,
           NEW chunk, chunk = [j \in 1 .. k |-> Message[n + j]]
    PROVE  SubSeq(Message, 1, n) \o chunk = SubSeq(Message, 1, n + k)
<1>1. Message \in Seq(Payload) /\ Len(Message) = N /\ N \in Nat
  BY MessageAssumption, MessageFacts DEF N
<1>2. \A i \in n + 1 .. n + k : Message[i] \in Payload
  BY <1>1, MessageFacts
<1>3. chunk \in Seq(Payload) /\ Len(chunk) = k
  <2>1. \A j \in 1 .. k : Message[n + j] \in Payload
    BY MessageFacts
  <2>2. QED
    BY <2>1
<1>4. /\ SubSeq(Message, n + 1, n + k) \in Seq(Payload)
      /\ Len(SubSeq(Message, n + 1, n + k)) = k
      /\ \A i \in 1 .. k : SubSeq(Message, n + 1, n + k)[i] = Message[n + i]
  <2>1. /\ SubSeq(Message, n + 1, n + k) \in Seq(Payload)
        /\ Len(SubSeq(Message, n + 1, n + k)) =
              IF n + 1 <= n + k THEN n + k - (n + 1) + 1 ELSE 0
        /\ \A i \in 1 .. n + k - (n + 1) + 1 :
              SubSeq(Message, n + 1, n + k)[i] = Message[n + 1 + i - 1]
    <3>1. n + 1 \in Int /\ n + k \in Int
      OBVIOUS
    <3>2. QED
      BY <1>2, <3>1, SubSeqProperties
  <2>2. QED
    BY <2>1
<1>5. \A i \in 1 .. Len(chunk) : chunk[i] = SubSeq(Message, n + 1, n + k)[i]
  BY <1>3, <1>4
<1>6. chunk = SubSeq(Message, n + 1, n + k)
  BY <1>3, <1>4, <1>5, SeqEqual
<1>7. /\ 1 \in 1 .. Len(Message) + 1
      /\ n \in 1 - 1 .. Len(Message)
      /\ n + k \in n .. Len(Message)
  BY <1>1
<1>8. QED
  BY <1>1, <1>6, <1>7, ConcatAdjacentSubSeq

(* A file that is the message up to n, n <= N, has n chunks.               *)
LEMMA PrefixLength ==
    ASSUME NEW n \in Nat, n <= N
    PROVE  /\ Len(SubSeq(Message, 1, n)) = n
           /\ SubSeq(Message, 1, n) \in Seq(Payload)
<1>1. \A i \in 1 .. n : Message[i] \in Payload
  BY MessageFacts
<1>2. /\ SubSeq(Message, 1, n) \in Seq(Payload)
      /\ Len(SubSeq(Message, 1, n)) = IF 1 <= n THEN n - 1 + 1 ELSE 0
  BY <1>1, SubSeqProperties
<1>3. QED
  BY <1>2

-----------------------------------------------------------------------------
(* Every slot of the ring that holds something holds the chunk of a number *)
(* of the receiver's window that was sent.                                 *)
Sound(buf) ==
    \A s \in Slots : buf[s] # NoData =>
        \E q \in firstneedrecv .. firstneedrecv + RcvW - 1 :
            q % BUFFSIZE = s /\ q < nextseqnum /\ buf[s] = Message[q + 1]

(* Storing a packet keeps the ring sound: its number is in the window.     *)
LEMMA StoredSound ==
    ASSUME SessionTypeOK, DataInv, nextseqnum <= N,
           NEW p \in toRecv, p.type = "DATA", InWindow(p.seq)
    PROVE  /\ RcvW > 0
           /\ Stored(p) \in [Slots -> Payload \cup {NoData}]
           /\ Sound(Stored(p))
<1>1. /\ firstneedrecv \in Nat /\ nextseqnum \in Nat /\ RcvW \in Nat
      /\ pack_buf \in [Slots -> Payload \cup {NoData}]
      /\ p.seq \in Nat
  BY SessionAssumption DEF SessionTypeOK, ToReceiver
<1>2. /\ p.seq < nextseqnum
      /\ p.payload = Message[p.seq + 1]
      /\ firstneedrecv <= p.seq /\ p.seq <= firstneedrecv + RcvW - 1
      /\ RcvW > 0
  BY <1>1 DEF DataInv, InWindow
<1>3. p.payload \in Payload /\ p.payload # NoData
  <2>1. p.seq + 1 \in 1 .. N
    BY <1>1, <1>2, MessageFacts
  <2>2. QED
    BY <1>2, <2>1, MessageFacts
<1>4. p.seq % BUFFSIZE \in Slots
  BY <1>1, <1>2, SMT DEF BUFFSIZE, Slots
<1>5. Sound(pack_buf)
  <2> SUFFICES ASSUME NEW s \in Slots, pack_buf[s] # NoData
               PROVE  \E q \in firstneedrecv .. firstneedrecv + RcvW - 1 :
                          /\ q % BUFFSIZE = s
                          /\ q < nextseqnum
                          /\ pack_buf[s] = Message[q + 1]
    BY DEF Sound
  <2>1. PICK q \in firstneedrecv + 1 .. firstneedrecv + RcvW - 1 :
           q % BUFFSIZE = s /\ q < nextseqnum /\ pack_buf[s] = Message[q + 1]
    BY DEF DataInv, RingHolds
  <2>2. q \in firstneedrecv .. firstneedrecv + RcvW - 1
    BY <1>1, <2>1
  <2>3. QED
    BY <2>1, <2>2
<1>6. CASE pack_buf[p.seq % BUFFSIZE] # NoData
  BY <1>1, <1>2, <1>5, <1>6 DEF Stored
<1>7. CASE pack_buf[p.seq % BUFFSIZE] = NoData
  <2>1. Stored(p) = [pack_buf EXCEPT ![p.seq % BUFFSIZE] = p.payload]
    BY <1>7 DEF Stored
  <2>2. Stored(p) \in [Slots -> Payload \cup {NoData}]
    BY <1>1, <1>3, <1>4, <2>1
  <2>3. Sound(Stored(p))
    <3> SUFFICES ASSUME NEW s \in Slots, Stored(p)[s] # NoData
                 PROVE  \E q \in firstneedrecv .. firstneedrecv + RcvW - 1 :
                            /\ q % BUFFSIZE = s
                            /\ q < nextseqnum
                            /\ Stored(p)[s] = Message[q + 1]
      BY DEF Sound
    <3>1. CASE s = p.seq % BUFFSIZE
      <4>1. Stored(p)[s] = Message[p.seq + 1]
        BY <1>1, <1>2, <2>1, <3>1
      <4>2. p.seq \in firstneedrecv .. firstneedrecv + RcvW - 1
        BY <1>1, <1>2
      <4>3. QED
        BY <1>2, <3>1, <4>1, <4>2
    <3>2. CASE s # p.seq % BUFFSIZE
      <4>1. Stored(p)[s] = pack_buf[s]
        BY <1>1, <2>1, <3>2
      <4>2. QED
        BY <1>5, <4>1 DEF Sound
    <3>3. QED
      BY <3>1, <3>2
  <2>4. QED
    BY <1>2, <2>2, <2>3
<1>8. QED
  BY <1>6, <1>7

(* The drain loop of recvMessage: from a sound ring it takes the chunks    *)
(* that follow the file in the message, no more than were sent, and leaves *)
(* a ring that is sound for the new firstneedrecv, whose slot is empty.    *)
LEMMA DrainTakesNextChunks ==
    ASSUME SessionTypeOK, firstneedrecv <= nextseqnum, nextseqnum <= N, RcvW > 0,
           NEW buf, Sound(buf),
           NEW k \in 0 .. BUFFSIZE, RunOf(buf, k)
    PROVE  /\ \A j \in 0 .. k - 1 :
                 buf[(firstneedrecv + j) % BUFFSIZE] = Message[firstneedrecv + j + 1]
           /\ firstneedrecv + k <= nextseqnum
           /\ buf[(firstneedrecv + k) % BUFFSIZE] = NoData
           /\ \A s \in Slots :
                 /\ buf[s] # NoData
                 /\ ~ \E j \in 0 .. k - 1 : s = (firstneedrecv + j) % BUFFSIZE
                 => \E q \in firstneedrecv + k + 1 .. firstneedrecv + k + RcvW - 1 :
                        /\ q % BUFFSIZE = s
                        /\ q < nextseqnum
                        /\ buf[s] = Message[q + 1]
<1>1. /\ firstneedrecv \in Nat /\ nextseqnum \in Nat /\ RcvW \in Nat
      /\ BUFFSIZE \in Nat /\ BUFFSIZE > 0 /\ k \in Nat
  BY SessionAssumption DEF SessionTypeOK, BUFFSIZE
<1>2. \A j \in 0 .. k - 1 :
         /\ buf[(firstneedrecv + j) % BUFFSIZE] = Message[firstneedrecv + j + 1]
         /\ firstneedrecv + j < nextseqnum
         /\ j < RcvW
  <2> SUFFICES ASSUME NEW j \in 0 .. k - 1
               PROVE  /\ buf[(firstneedrecv + j) % BUFFSIZE]
                            = Message[firstneedrecv + j + 1]
                      /\ firstneedrecv + j < nextseqnum
                      /\ j < RcvW
    OBVIOUS
  <2> DEFINE m == firstneedrecv + j
  <2>1. m \in Nat /\ m % BUFFSIZE \in Slots
    BY <1>1, SMT DEF Slots
  <2>2. buf[m % BUFFSIZE] # NoData
    BY DEF RunOf
  <2>3. PICK q \in firstneedrecv .. firstneedrecv + RcvW - 1 :
           /\ q % BUFFSIZE = m % BUFFSIZE
           /\ q < nextseqnum
           /\ buf[m % BUFFSIZE] = Message[q + 1]
    BY <2>1, <2>2 DEF Sound
  <2>4. q \in Nat /\ q < m + BUFFSIZE /\ m < q + BUFFSIZE
    BY <1>1 DEF BUFFSIZE
  <2>5. q = m
    BY <1>1, <2>1, <2>3, <2>4, ModuloUnique
  <2>6. QED
    BY <1>1, <2>3, <2>5
<1>3. k <= RcvW /\ k < BUFFSIZE
  <2>1. CASE k = 0
    BY <1>1, <2>1 DEF BUFFSIZE
  <2>2. CASE k # 0
    <3>1. k - 1 \in 0 .. k - 1
      BY <1>1, <2>2
    <3>2. k - 1 < RcvW
      BY <1>2, <3>1
    <3>3. QED
      BY <1>1, <3>2 DEF BUFFSIZE
  <2>3. QED
    BY <2>1, <2>2
<1>4. firstneedrecv + k <= nextseqnum
  <2>1. CASE k = 0
    BY <1>1, <2>1
  <2>2. CASE k # 0
    <3>1. k - 1 \in 0 .. k - 1
      BY <1>1, <2>2
    <3>2. firstneedrecv + (k - 1) < nextseqnum
      BY <1>2, <3>1
    <3>3. QED
      BY <1>1, <3>2
  <2>3. QED
    BY <2>1, <2>2
<1>5. buf[(firstneedrecv + k) % BUFFSIZE] = NoData
  BY <1>1, <1>3 DEF RunOf
<1>6. ASSUME NEW s \in Slots, buf[s] # NoData,
             ~ \E j \in 0 .. k - 1 : s = (firstneedrecv + j) % BUFFSIZE
      PROVE  \E q \in firstneedrecv + k + 1 .. firstneedrecv + k + RcvW - 1 :
                 q % BUFFSIZE = s /\ q < nextseqnum /\ buf[s] = Message[q + 1]
  <2>1. PICK q \in firstneedrecv .. firstneedrecv + RcvW - 1 :
           q % BUFFSIZE = s /\ q < nextseqnum /\ buf[s] = Message[q + 1]
    BY <1>6 DEF Sound
  <2>2. q # firstneedrecv + k
    BY <1>5, <1>6, <2>1
  <2>3. ~ (q < firstneedrecv + k)
    <3> SUFFICES ASSUME q < firstneedrecv + k PROVE FALSE
      OBVIOUS
    <3>1. q - firstneedrecv \in 0 .. k - 1
      BY <1>1, <2>1
    <3>2. q = firstneedrecv + (q - firstneedrecv)
      BY <1>1, <2>1
    <3>3. QED
      BY <1>6, <2>1, <3>1, <3>2
  <2>4. q \in firstneedrecv + k + 1 .. firstneedrecv + k + RcvW - 1
    BY <1>1, <2>1, <2>2, <2>3
  <2>5. QED
    BY <2>1, <2>4
<1>7. QED
  BY <1>2, <1>4, <1>5, <1>6

(* Store as a whole: the receiver's half of every step that takes DATA.    *)
LEMMA StoreStep ==
    ASSUME SessionTypeOK, DataInv,
           firstneedrecv <= nextseqnum, nextseqnum <= N,
           NEW p \in toRecv, Store(p)
    PROVE  /\ toRecv' \subseteq toRecv
           /\ firstneedrecv' \in Nat
           /\ firstneedrecv <= firstneedrecv' /\ firstneedrecv' <= nextseqnum
           /\ pack_buf' \in [Slots -> Payload \cup {NoData}]
           /\ file' \in Seq(Payload)
           /\ file' = SubSeq(Message, 1, firstneedrecv')
           /\ RingHolds'
<1>1. PICK k \in 0 .. BUFFSIZE :
         /\ RunOf(Stored(p), k)
         /\ file' = file \o
               [j \in 1 .. k |-> Stored(p)[(firstneedrecv + j - 1) % BUFFSIZE]]
         /\ pack_buf' =
               [s \in Slots |->
                   IF \E j \in 0 .. k - 1 : s = (firstneedrecv + j) % BUFFSIZE
                   THEN NoData ELSE Stored(p)[s]]
         /\ firstneedrecv' = firstneedrecv + k
  BY DEF Store
<1>2. /\ toRecv' \subseteq toRecv
      /\ p.type = "DATA" /\ InWindow(p.seq)
      /\ UNCHANGED nextseqnum
  BY DEF Store, Received, sender, window
<1>3. /\ RcvW > 0
      /\ Stored(p) \in [Slots -> Payload \cup {NoData}]
      /\ Sound(Stored(p))
  BY <1>2, StoredSound
<1>4. /\ firstneedrecv \in Nat /\ nextseqnum \in Nat /\ k \in Nat
      /\ N \in Nat /\ RcvW \in Nat
  BY SessionAssumption, MessageFacts DEF SessionTypeOK, BUFFSIZE
<1>5. /\ \A j \in 0 .. k - 1 :
            Stored(p)[(firstneedrecv + j) % BUFFSIZE]
                = Message[firstneedrecv + j + 1]
      /\ firstneedrecv + k <= nextseqnum
      /\ \A s \in Slots :
            /\ Stored(p)[s] # NoData
            /\ ~ \E j \in 0 .. k - 1 : s = (firstneedrecv + j) % BUFFSIZE
            => \E q \in firstneedrecv + k + 1 .. firstneedrecv + k + RcvW - 1 :
                   /\ q % BUFFSIZE = s
                   /\ q < nextseqnum
                   /\ Stored(p)[s] = Message[q + 1]
  BY <1>1, <1>3, DrainTakesNextChunks
<1>6. pack_buf' \in [Slots -> Payload \cup {NoData}]
  BY <1>1, <1>3
<1>7. file' = SubSeq(Message, 1, firstneedrecv + k)
  <2> DEFINE chunk ==
        [j \in 1 .. k |-> Stored(p)[(firstneedrecv + j - 1) % BUFFSIZE]]
  <2>1. ASSUME NEW j \in 1 .. k
        PROVE  Stored(p)[(firstneedrecv + j - 1) % BUFFSIZE]
                  = Message[firstneedrecv + j]
    <3>1. j - 1 \in 0 .. k - 1
      BY <1>4
    <3>2. Stored(p)[(firstneedrecv + (j - 1)) % BUFFSIZE]
             = Message[firstneedrecv + (j - 1) + 1]
      BY <1>5, <3>1
    <3>3. /\ firstneedrecv + (j - 1) = firstneedrecv + j - 1
          /\ firstneedrecv + (j - 1) + 1 = firstneedrecv + j
      BY <1>4
    <3>4. QED
      BY <3>2, <3>3
  <2>2. chunk = [j \in 1 .. k |-> Message[firstneedrecv + j]]
    BY <2>1
  <2>3. firstneedrecv + k <= N
    BY <1>4, <1>5
  <2>4. file = SubSeq(Message, 1, firstneedrecv)
    BY DEF DataInv
  <2> HIDE DEF chunk
  <2>5. SubSeq(Message, 1, firstneedrecv) \o chunk
           = SubSeq(Message, 1, firstneedrecv + k)
    BY <1>4, <2>2, <2>3, PrefixExtends
  <2>6. file' = file \o chunk
    BY <1>1 DEF chunk
  <2>7. QED
    BY <2>4, <2>5, <2>6
<1>8. file' \in Seq(Payload)
  <2>1. firstneedrecv + k \in Nat /\ firstneedrecv + k <= N
    BY <1>4, <1>5
  <2>2. QED
    BY <1>7, <2>1, PrefixLength
<1>9. RingHolds'
  <2> SUFFICES ASSUME NEW s \in Slots, pack_buf'[s] # NoData
               PROVE  \E q \in firstneedrecv' + 1 .. firstneedrecv' + RcvW - 1 :
                          /\ q % BUFFSIZE = s
                          /\ q < nextseqnum'
                          /\ pack_buf'[s] = Message[q + 1]
    BY DEF RingHolds, Slots, BUFFSIZE
  <2>1. /\ ~ \E j \in 0 .. k - 1 : s = (firstneedrecv + j) % BUFFSIZE
        /\ pack_buf'[s] = Stored(p)[s]
    BY <1>1
  <2>2. QED
    BY <1>1, <1>2, <1>5, <2>1
<1>10. /\ firstneedrecv' \in Nat
       /\ firstneedrecv <= firstneedrecv' /\ firstneedrecv' <= nextseqnum
  BY <1>1, <1>4, <1>5
<1>11. file' = SubSeq(Message, 1, firstneedrecv')
  BY <1>1, <1>7
<1>12. QED
  BY <1>2, <1>6, <1>8, <1>9, <1>10, <1>11

-----------------------------------------------------------------------------
(* The sender's counters after its reading and sending loops.              *)
LEMMA FillBounds ==
    ASSUME SessionTypeOK, nextseqnum <= totseq, totseq <= N
    PROVE  /\ FilledTo \in Nat /\ SentTo \in Nat
           /\ totseq <= FilledTo /\ FilledTo <= N
           /\ nextseqnum <= SentTo /\ SentTo <= FilledTo
           /\ SndW > 0 /\ base <= N /\ base = FilledTo => base = N
<1>1. /\ base \in Nat /\ nextseqnum \in Nat /\ totseq \in Nat
      /\ N \in Nat /\ SndW \in Nat
  BY SessionAssumption, MessageFacts DEF SessionTypeOK
<1>2. QED
  BY <1>1 DEF FilledTo, SentTo

(* What the sender puts in flight is well formed.                          *)
LEMMA DataPackets ==
    ASSUME NEW lo \in Nat, NEW hi \in Nat, hi <= N,
           NEW p \in {Data(i) : i \in lo .. hi - 1}
    PROVE  /\ p \in ToReceiver
           /\ p.type = "DATA" /\ p.seq < hi
           /\ p.payload = Message[p.seq + 1]
<1>1. PICK i \in lo .. hi - 1 : p = Data(i)
  OBVIOUS
<1>2. i \in Nat /\ i + 1 \in 1 .. N
  BY MessageFacts
<1>3. QED
  BY <1>1, <1>2, MessageFacts DEF Data, ToReceiver

-----------------------------------------------------------------------------
(* The part of the inductive invariant that the two variants share, kept   *)
(* by every step that is defined in RtpSession.                            *)

(* The initial state satisfies the inductive invariant.                    *)
LEMMA SessionInitInv == SessionInit => SessionInv
<1> SUFFICES ASSUME SessionInit PROVE SessionInv
  OBVIOUS
<1> USE DEF SessionInit
<1>1. SessionTypeOK
  <2>1. pack_buf \in [Slots -> Payload \cup {NoData}] /\ file \in Seq(Payload)
    OBVIOUS
  <2>2. QED
    BY <2>1 DEF SessionTypeOK, SenderPhases, ReceiverPhases
<1>2. HandshakeInv
  BY DEF HandshakeInv
<1>3. DataInv
  <2>1. file = SubSeq(Message, 1, firstneedrecv)
    BY SubSeqEmpty
  <2>2. RingHolds
    BY DEF RingHolds
  <2>3. QED
    BY <2>1, <2>2 DEF DataInv
<1>4. CounterInv
  BY MessageFacts DEF CounterInv
<1>5. EndInv
  BY DEF EndInv
<1>6. QED
  BY <1>1, <1>2, <1>3, <1>4, <1>5 DEF SessionInv

(* The invariant speaks about the variables alone.                         *)
LEMMA SessionStutter ==
    ASSUME SessionInv, UNCHANGED <<network, sender, receiver>>
    PROVE  SessionInv'
<1> USE DEF network, sender, window, receiver, ring
<1>1. SessionTypeOK'
  BY DEF SessionInv, SessionTypeOK, Slots, BUFFSIZE
<1>2. HandshakeInv'
  BY DEF SessionInv, HandshakeInv
<1>3. DataInv'
  BY DEF SessionInv, DataInv, RingHolds, Slots, BUFFSIZE
<1>4. CounterInv'
  BY DEF SessionInv, CounterInv
<1>5. EndInv'
  BY DEF SessionInv, EndInv
<1>6. QED
  BY <1>1, <1>2, <1>3, <1>4, <1>5 DEF SessionInv

(* A step that leaves the ring alone and takes no chunk back keeps what is *)
(* known of the chunks, if what it puts in flight is known too.            *)
LEMMA RingKept ==
    ASSUME SessionTypeOK, DataInv, UNCHANGED ring,
           nextseqnum' \in Nat, nextseqnum <= nextseqnum',
           \A x \in toRecv' \ toRecv : x.type = "DATA" =>
              x.seq < nextseqnum' /\ x.payload = Message[x.seq + 1],
           \A x \in toRecv : x.seq \in Nat
    PROVE  DataInv'
<1>1. nextseqnum \in Nat /\ firstneedrecv \in Nat
  BY DEF SessionTypeOK
<1>2. \A p \in toRecv' : p.type = "DATA" =>
         p.seq < nextseqnum' /\ p.payload = Message[p.seq + 1]
  <2> SUFFICES ASSUME NEW p \in toRecv', p.type = "DATA"
               PROVE  p.seq < nextseqnum' /\ p.payload = Message[p.seq + 1]
    OBVIOUS
  <2>1. CASE p \in toRecv
    BY <1>1, <2>1 DEF DataInv
  <2>2. CASE p \notin toRecv
    BY <2>2
  <2>3. QED
    BY <2>1, <2>2
<1>3. (file = SubSeq(Message, 1, firstneedrecv))'
  BY DEF DataInv, ring
<1>4. RingHolds'
  <2> SUFFICES ASSUME NEW s \in Slots, pack_buf'[s] # NoData
               PROVE  \E q \in firstneedrecv' + 1 .. firstneedrecv' + RcvW - 1 :
                          /\ q % BUFFSIZE = s
                          /\ q < nextseqnum'
                          /\ pack_buf'[s] = Message[q + 1]
    BY DEF RingHolds, Slots, BUFFSIZE
  <2>1. PICK q \in firstneedrecv + 1 .. firstneedrecv + RcvW - 1 :
           q % BUFFSIZE = s /\ q < nextseqnum /\ pack_buf[s] = Message[q + 1]
    BY DEF DataInv, RingHolds, ring
  <2>2. q < nextseqnum'
    BY <1>1, <2>1, SessionAssumption
  <2>3. QED
    BY <2>1, <2>2 DEF ring
<1>5. QED
  BY <1>2, <1>3, <1>4 DEF DataInv

(* START is the first packet in flight.                                    *)
LEMMA SendStartStep == ASSUME SessionInv, SendStart PROVE SessionInv'
<1> USE DEF network, sender, window, receiver, ring
<1>0. /\ SessionTypeOK /\ HandshakeInv /\ DataInv /\ CounterInv /\ EndInv
      /\ \A x \in toRecv : x.seq \in Nat
  BY DEF SessionInv, SessionTypeOK, ToReceiver
<1>1. SessionTypeOK'
  BY <1>0, SessionAssumption DEF SendStart, SessionTypeOK, Slots,
     BUFFSIZE, SenderPhases, ReceiverPhases, ToReceiver, ToSender, Start
<1>2. HandshakeInv'
  BY <1>0, SessionAssumption DEF SendStart, HandshakeInv, Start
<1>3. DataInv'
  <2>1. UNCHANGED ring /\ nextseqnum' \in Nat /\ nextseqnum <= nextseqnum'
    BY <1>0 DEF SendStart, SessionTypeOK
  <2>2. \A x \in toRecv' \ toRecv : x.type = "DATA" =>
           x.seq < nextseqnum' /\ x.payload = Message[x.seq + 1]
    BY <1>0 DEF SendStart, Start
  <2>3. QED
    BY <1>0, <2>1, <2>2, RingKept
<1>4. CounterInv'
  BY <1>0, SessionAssumption DEF SendStart, CounterInv, Start
<1>5. EndInv'
  BY <1>0, SessionAssumption DEF SendStart, EndInv, Start
<1>6. QED
  BY <1>1, <1>2, <1>3, <1>4, <1>5 DEF SessionInv

(* With its only copy taken, no ACK of START is left for sendMessage.      *)
LEMMA StartAckedStep == ASSUME SessionInv, StartAcked PROVE SessionInv'
<1> USE DEF network, sender, window, receiver, ring
<1>0. /\ SessionTypeOK /\ HandshakeInv /\ DataInv /\ CounterInv /\ EndInv
      /\ \A x \in toRecv : x.seq \in Nat
  BY DEF SessionInv, SessionTypeOK, ToReceiver
<1>1. SessionTypeOK'
  BY <1>0 DEF StartAcked, Received, SessionTypeOK, Slots, BUFFSIZE,
     SenderPhases, ReceiverPhases, ToReceiver, ToSender, Ack
<1>2. HandshakeInv'
  BY <1>0 DEF StartAcked, Received, HandshakeInv, Ack
<1>3. DataInv'
  <2>1. UNCHANGED ring /\ nextseqnum' \in Nat /\ nextseqnum <= nextseqnum'
    BY <1>0 DEF StartAcked, Received, SessionTypeOK
  <2>2. \A x \in toRecv' \ toRecv : x.type = "DATA" =>
           x.seq < nextseqnum' /\ x.payload = Message[x.seq + 1]
    BY <1>0 DEF StartAcked, Received, Ack
  <2>3. QED
    BY <1>0, <2>1, <2>2, RingKept
<1>4. CounterInv'
  BY <1>0 DEF StartAcked, Received, CounterInv, Ack
<1>5. EndInv'
  BY <1>0 DEF StartAcked, Received, EndInv, Ack
<1>6. QED
  BY <1>1, <1>2, <1>3, <1>4, <1>5 DEF SessionInv

(* A failed handshake sent no DATA.                                        *)
LEMMA StartFailedStep == ASSUME SessionInv, StartFailed PROVE SessionInv'
<1> USE DEF network, sender, window, receiver, ring
<1>0. /\ SessionTypeOK /\ HandshakeInv /\ DataInv /\ CounterInv /\ EndInv
      /\ \A x \in toRecv : x.seq \in Nat
  BY DEF SessionInv, SessionTypeOK, ToReceiver
<1>1. SessionTypeOK'
  BY <1>0 DEF StartFailed, SessionTypeOK, Slots, BUFFSIZE,
     SenderPhases, ReceiverPhases, ToReceiver, ToSender, End
<1>2. HandshakeInv'
  BY <1>0 DEF StartFailed, HandshakeInv, End
<1>3. DataInv'
  <2>1. UNCHANGED ring /\ nextseqnum' \in Nat /\ nextseqnum <= nextseqnum'
    BY <1>0 DEF StartFailed, SessionTypeOK
  <2>2. \A x \in toRecv' \ toRecv : x.type = "DATA" =>
           x.seq < nextseqnum' /\ x.payload = Message[x.seq + 1]
    BY <1>0 DEF StartFailed, End
  <2>3. QED
    BY <1>0, <2>1, <2>2, RingKept
<1>4. CounterInv'
  BY <1>0 DEF StartFailed, CounterInv, End
<1>5. EndInv'
  BY <1>0 DEF StartFailed, EndInv, End
<1>6. QED
  BY <1>1, <1>2, <1>3, <1>4, <1>5 DEF SessionInv

(* Nothing is sent when the file does not open.                            *)
LEMMA OpenFailsStep == ASSUME SessionInv, OpenFails PROVE SessionInv'
<1> USE DEF network, sender, window, receiver, ring
<1>0. /\ SessionTypeOK /\ HandshakeInv /\ DataInv /\ CounterInv /\ EndInv
      /\ \A x \in toRecv : x.seq \in Nat
  BY DEF SessionInv, SessionTypeOK, ToReceiver
<1>1. SessionTypeOK'
  BY <1>0 DEF OpenFails, SessionTypeOK, Slots, BUFFSIZE, SenderPhases,
     ReceiverPhases, ToReceiver, ToSender
<1>2. HandshakeInv'
  BY <1>0 DEF OpenFails, HandshakeInv
<1>3. DataInv'
  <2>1. UNCHANGED ring /\ nextseqnum' \in Nat /\ nextseqnum <= nextseqnum'
    BY <1>0 DEF OpenFails, SessionTypeOK
  <2>2. \A x \in toRecv' \ toRecv : x.type = "DATA" =>
           x.seq < nextseqnum' /\ x.payload = Message[x.seq + 1]
    BY <1>0 DEF OpenFails
  <2>3. QED
    BY <1>0, <2>1, <2>2, RingKept
<1>4. CounterInv'
  BY <1>0 DEF OpenFails, CounterInv
<1>5. EndInv'
  BY <1>0 DEF OpenFails, EndInv
<1>6. QED
  BY <1>1, <1>2, <1>3, <1>4, <1>5 DEF SessionInv

(* Nothing is sent yet.                                                    *)
LEMMA OpenSucceedsStep == ASSUME SessionInv, OpenSucceeds PROVE SessionInv'
<1> USE DEF network, sender, window, receiver, ring
<1>0. /\ SessionTypeOK /\ HandshakeInv /\ DataInv /\ CounterInv /\ EndInv
      /\ \A x \in toRecv : x.seq \in Nat
  BY DEF SessionInv, SessionTypeOK, ToReceiver
<1>1. SessionTypeOK'
  BY <1>0 DEF OpenSucceeds, SessionTypeOK, Slots, BUFFSIZE,
     SenderPhases, ReceiverPhases, ToReceiver, ToSender
<1>2. HandshakeInv'
  BY <1>0 DEF OpenSucceeds, HandshakeInv
<1>3. DataInv'
  <2>1. UNCHANGED ring /\ nextseqnum' \in Nat /\ nextseqnum <= nextseqnum'
    BY <1>0 DEF OpenSucceeds, SessionTypeOK
  <2>2. \A x \in toRecv' \ toRecv : x.type = "DATA" =>
           x.seq < nextseqnum' /\ x.payload = Message[x.seq + 1]
    BY <1>0 DEF OpenSucceeds
  <2>3. QED
    BY <1>0, <2>1, <2>2, RingKept
<1>4. CounterInv'
  BY <1>0 DEF OpenSucceeds, CounterInv
<1>5. EndInv'
  BY <1>0 DEF OpenSucceeds, EndInv
<1>6. QED
  BY <1>1, <1>2, <1>3, <1>4, <1>5 DEF SessionInv

(* Only chunks that were read are sent.                                    *)
LEMMA SendWindowStep ==
    ASSUME SessionInv, SendWindow
    PROVE  SessionInv'
<1> USE DEF network, sender, window, receiver, ring
<1>0. /\ SessionTypeOK /\ HandshakeInv /\ DataInv /\ CounterInv /\ EndInv
      /\ \A x \in toRecv : x.seq \in Nat
  BY DEF SessionInv, SessionTypeOK, ToReceiver
<1>f. /\ FilledTo \in Nat /\ SentTo \in Nat
      /\ totseq <= FilledTo /\ FilledTo <= N
      /\ nextseqnum <= SentTo /\ SentTo <= FilledTo
      /\ SndW > 0 /\ base <= N /\ base = FilledTo => base = N
  BY <1>0, FillBounds DEF CounterInv
<1>n. /\ base \in Nat /\ nextseqnum \in Nat /\ totseq \in Nat
      /\ firstneedrecv \in Nat /\ N \in Nat
  BY <1>0, MessageFacts DEF SessionTypeOK
<1>d. \A p \in {Data(i) : i \in nextseqnum .. SentTo - 1} :
         /\ p \in ToReceiver
         /\ p.type = "DATA" /\ p.seq < SentTo
         /\ p.payload = Message[p.seq + 1]
  BY <1>f, <1>n, DataPackets
<1>r. toRecv' = toRecv \cup {Data(i) : i \in nextseqnum .. SentTo - 1}
  BY DEF SendWindow
<1> HIDE DEF FilledTo, SentTo
<1>1. SessionTypeOK'
  BY <1>0, <1>f, <1>n, <1>d, <1>r DEF SendWindow, SessionTypeOK,
     Slots, BUFFSIZE, SenderPhases, ReceiverPhases, ToReceiver, ToSender
<1>2. HandshakeInv'
  BY <1>0, <1>f, <1>n, <1>d, <1>r DEF SendWindow, HandshakeInv
<1>3. DataInv'
  <2>1. UNCHANGED ring /\ nextseqnum' \in Nat /\ nextseqnum <= nextseqnum'
    BY <1>0, <1>f, <1>n, <1>d, <1>r DEF SendWindow, SessionTypeOK
  <2>2. \A x \in toRecv' \ toRecv : x.type = "DATA" =>
           x.seq < nextseqnum' /\ x.payload = Message[x.seq + 1]
    BY <1>0, <1>f, <1>n, <1>d, <1>r DEF SendWindow
  <2>3. QED
    BY <1>0, <2>1, <2>2, RingKept
<1>4. CounterInv'
  BY <1>0, <1>f, <1>n, <1>d, <1>r DEF SendWindow, CounterInv
<1>5. EndInv'
  BY <1>0, <1>f, <1>n, <1>d, <1>r DEF SendWindow, EndInv
<1>6. QED
  BY <1>1, <1>2, <1>3, <1>4, <1>5 DEF SessionInv

(* END follows the acknowledgement of all N chunks.                        *)
LEMMA FinishStep ==
    ASSUME SessionInv, Finish, SndW > 0
    PROVE  SessionInv'
<1> USE DEF network, sender, window, receiver, ring
<1>0. /\ SessionTypeOK /\ HandshakeInv /\ DataInv /\ CounterInv /\ EndInv
      /\ \A x \in toRecv : x.seq \in Nat
  BY DEF SessionInv, SessionTypeOK, ToReceiver
<1>f. /\ FilledTo \in Nat /\ SentTo \in Nat
      /\ totseq <= FilledTo /\ FilledTo <= N
      /\ nextseqnum <= SentTo /\ SentTo <= FilledTo
      /\ SndW > 0 /\ base <= N /\ base = FilledTo => base = N
  BY <1>0, FillBounds DEF CounterInv
<1>n. /\ base \in Nat /\ nextseqnum \in Nat /\ totseq \in Nat
      /\ firstneedrecv \in Nat /\ N \in Nat
  BY <1>0, MessageFacts DEF SessionTypeOK
<1>1. SessionTypeOK'
  BY <1>0, <1>f, <1>n DEF Finish, SessionTypeOK, Slots, BUFFSIZE,
     SenderPhases, ReceiverPhases, ToReceiver, ToSender, End
<1>2. HandshakeInv'
  BY <1>0, <1>f, <1>n DEF Finish, HandshakeInv, End
<1>3. DataInv'
  <2>1. UNCHANGED ring /\ nextseqnum' \in Nat /\ nextseqnum <= nextseqnum'
    BY <1>0, <1>f, <1>n DEF Finish, SessionTypeOK
  <2>2. \A x \in toRecv' \ toRecv : x.type = "DATA" =>
           x.seq < nextseqnum' /\ x.payload = Message[x.seq + 1]
    BY <1>0, <1>f, <1>n DEF Finish, End
  <2>3. QED
    BY <1>0, <2>1, <2>2, RingKept
<1>4. CounterInv'
  BY <1>0, <1>f, <1>n DEF Finish, CounterInv, End
<1>5. EndInv'
  BY <1>0, <1>f, <1>n DEF Finish, EndInv, End
<1>6. QED
  BY <1>1, <1>2, <1>3, <1>4, <1>5 DEF SessionInv

(* A pass through the second half of the sender's loop: base may rise to a *)
(* chunk the receiver had reached, and what was sent may be sent again.    *)
LEMMA PassStep ==
    ASSUME SessionInv, sPhase = "wait", sPhase' = "top",
           UNCHANGED <<startSeq, nextseqnum, totseq, receiver>>,
           toSend' \subseteq toSend,
           base' \in base .. firstneedrecv,
           NEW lo \in Nat,
           toRecv' \subseteq toRecv \cup {Data(i) : i \in lo .. nextseqnum - 1}
    PROVE  SessionInv'
<1> USE DEF network, sender, window, receiver, ring
<1>0. /\ SessionTypeOK /\ HandshakeInv /\ DataInv /\ CounterInv /\ EndInv
      /\ \A x \in toRecv : x.seq \in Nat
  BY DEF SessionInv, SessionTypeOK, ToReceiver
<1>n. /\ base \in Nat /\ nextseqnum \in Nat /\ N \in Nat /\ firstneedrecv \in Nat
      /\ nextseqnum <= N /\ base' \in Nat /\ base <= base'
      /\ base' <= firstneedrecv
  BY <1>0, MessageFacts DEF SessionTypeOK, CounterInv
<1> DEFINE Again == {Data(i) : i \in lo .. nextseqnum - 1}
<1>d. \A x \in Again :
         /\ x \in ToReceiver
         /\ x.type = "DATA" /\ x.seq < nextseqnum
         /\ x.payload = Message[x.seq + 1]
  BY <1>n, DataPackets
<1>r. toRecv' \subseteq toRecv \cup Again
  OBVIOUS
<1> HIDE DEF Again
<1>1. SessionTypeOK'
  BY <1>0, <1>n, <1>d, <1>r DEF SessionTypeOK, Slots,
     BUFFSIZE, SenderPhases, ReceiverPhases, ToReceiver, ToSender
<1>2. HandshakeInv'
  BY <1>0, <1>n, <1>d, <1>r DEF HandshakeInv
<1>3. DataInv'
  <2>1. UNCHANGED ring /\ nextseqnum' \in Nat /\ nextseqnum <= nextseqnum'
    BY <1>0, <1>n
  <2>2. \A x \in toRecv' \ toRecv : x.type = "DATA" =>
           x.seq < nextseqnum' /\ x.payload = Message[x.seq + 1]
    BY <1>d, <1>r
  <2>3. QED
    BY <1>0, <2>1, <2>2, RingKept
<1>4. CounterInv'
  BY <1>0, <1>n DEF CounterInv
<1>5. EndInv'
  BY <1>0, <1>d, <1>r DEF EndInv
<1>6. QED
  BY <1>1, <1>2, <1>3, <1>4, <1>5 DEF SessionInv

(* The only answer to START is the ACK of its number.                      *)
LEMMA GetStartStep ==
    ASSUME SessionInv, NEW p \in toRecv, GetStart(p)
    PROVE  SessionInv'
<1> USE DEF network, sender, window, receiver, ring
<1>0. /\ SessionTypeOK /\ HandshakeInv /\ DataInv /\ CounterInv /\ EndInv
      /\ \A x \in toRecv : x.seq \in Nat
  BY DEF SessionInv, SessionTypeOK, ToReceiver
<1>1. SessionTypeOK'
  BY <1>0 DEF GetStart, SessionTypeOK, Slots, BUFFSIZE, SenderPhases,
     ReceiverPhases, ToReceiver, ToSender, Received, Ack
<1>2. HandshakeInv'
  BY <1>0 DEF GetStart, HandshakeInv, Received, Ack
<1>3. DataInv'
  <2>1. UNCHANGED ring /\ nextseqnum' \in Nat /\ nextseqnum <= nextseqnum'
    BY <1>0 DEF GetStart, SessionTypeOK
  <2>2. \A x \in toRecv' \ toRecv : x.type = "DATA" =>
           x.seq < nextseqnum' /\ x.payload = Message[x.seq + 1]
    BY <1>0 DEF GetStart, Received, Ack
  <2>3. QED
    BY <1>0, <2>1, <2>2, RingKept
<1>4. CounterInv'
  BY <1>0 DEF GetStart, CounterInv, Received, Ack
<1>5. EndInv'
  BY <1>0 DEF GetStart, EndInv, Received, Ack
<1>6. QED
  BY <1>1, <1>2, <1>3, <1>4, <1>5 DEF SessionInv

(* An END is taken only when the sender has stopped.                       *)
LEMMA GetEndStep ==
    ASSUME SessionInv, NEW p \in toRecv, GetEnd(p)
    PROVE  SessionInv'
<1> USE DEF network, sender, window, receiver, ring
<1>0. /\ SessionTypeOK /\ HandshakeInv /\ DataInv /\ CounterInv /\ EndInv
      /\ \A x \in toRecv : x.seq \in Nat
  BY DEF SessionInv, SessionTypeOK, ToReceiver
<1>1. SessionTypeOK'
  BY <1>0 DEF GetEnd, SessionTypeOK, Slots, BUFFSIZE, SenderPhases,
     ReceiverPhases, ToReceiver, ToSender, Received, Ack
<1>2. HandshakeInv'
  <2>1. sPhase \in {"ok", "failed"}
    BY <1>0 DEF GetEnd, EndInv
  <2>2. /\ toRecv' \subseteq toRecv
        /\ UNCHANGED <<sPhase, startSeq, nextseqnum, firstneedrecv>>
        /\ rPhase' = "ended"
    BY DEF GetEnd, Received
  <2>3. QED
    BY <1>0, <2>1, <2>2 DEF HandshakeInv
<1>3. DataInv'
  <2>1. UNCHANGED ring /\ nextseqnum' \in Nat /\ nextseqnum <= nextseqnum'
    BY <1>0 DEF GetEnd, SessionTypeOK
  <2>2. \A x \in toRecv' \ toRecv : x.type = "DATA" =>
           x.seq < nextseqnum' /\ x.payload = Message[x.seq + 1]
    BY <1>0 DEF GetEnd, Received, Ack
  <2>3. QED
    BY <1>0, <2>1, <2>2, RingKept
<1>4. CounterInv'
  BY <1>0 DEF GetEnd, CounterInv, Received, Ack
<1>5. EndInv'
  BY <1>0 DEF GetEnd, EndInv, Received, Ack
<1>6. QED
  BY <1>1, <1>2, <1>3, <1>4, <1>5 DEF SessionInv

(* A packet without an answer only leaves the channel.                     *)
LEMMA IgnoreStep ==
    ASSUME SessionInv, NEW p \in toRecv, Ignore(p)
    PROVE  SessionInv'
<1> USE DEF network, sender, window, receiver, ring
<1>0. /\ SessionTypeOK /\ HandshakeInv /\ DataInv /\ CounterInv /\ EndInv
      /\ \A x \in toRecv : x.seq \in Nat
  BY DEF SessionInv, SessionTypeOK, ToReceiver
<1>1. SessionTypeOK'
  BY <1>0 DEF Ignore, SessionTypeOK, Slots, BUFFSIZE, SenderPhases,
     ReceiverPhases, ToReceiver, ToSender
<1>2. HandshakeInv'
  BY <1>0 DEF Ignore, HandshakeInv
<1>3. DataInv'
  <2>1. UNCHANGED ring /\ nextseqnum' \in Nat /\ nextseqnum <= nextseqnum'
    BY <1>0 DEF Ignore, SessionTypeOK
  <2>2. \A x \in toRecv' \ toRecv : x.type = "DATA" =>
           x.seq < nextseqnum' /\ x.payload = Message[x.seq + 1]
    BY <1>0 DEF Ignore
  <2>3. QED
    BY <1>0, <2>1, <2>2, RingKept
<1>4. CounterInv'
  BY <1>0 DEF Ignore, CounterInv
<1>5. EndInv'
  BY <1>0 DEF Ignore, EndInv
<1>6. QED
  BY <1>1, <1>2, <1>3, <1>4, <1>5 DEF SessionInv

(* What storing a packet does to the receiver, with the phases it needs.   *)
LEMMA StoreFacts ==
    ASSUME SessionInv, NEW p \in toRecv, Store(p)
    PROVE  /\ toRecv' \subseteq toRecv
           /\ firstneedrecv' \in Nat
           /\ firstneedrecv <= firstneedrecv' /\ firstneedrecv' <= nextseqnum
           /\ pack_buf' \in [Slots -> Payload \cup {NoData}]
           /\ file' \in Seq(Payload)
           /\ file' = SubSeq(Message, 1, firstneedrecv')
           /\ RingHolds'
           /\ UNCHANGED <<rPhase, sPhase, startSeq, base, nextseqnum, totseq>>
           /\ rPhase = "recv"
           /\ p.type = "DATA" /\ p.seq \in Nat /\ p.seq < nextseqnum
           /\ sPhase \in {"top", "wait", "ok"}
<1>0. /\ SessionTypeOK /\ HandshakeInv /\ DataInv /\ CounterInv /\ EndInv
      /\ p.seq \in Nat /\ nextseqnum \in Nat
  BY DEF SessionInv, SessionTypeOK, ToReceiver
<1>1. firstneedrecv <= nextseqnum /\ nextseqnum <= N
  BY <1>0, MessageFacts DEF CounterInv, SessionTypeOK
<1>2. /\ UNCHANGED <<rPhase, sPhase, startSeq, base, nextseqnum, totseq>>
      /\ rPhase = "recv"
      /\ p.type = "DATA" /\ p.seq < nextseqnum
  BY <1>0 DEF Store, DataInv, sender, window
<1>3. sPhase \in {"top", "wait", "ok"}
  <2>1. nextseqnum # 0
    BY <1>0, <1>2
  <2>2. QED
    BY <1>0, <2>1 DEF HandshakeInv, EndInv, SessionTypeOK, SenderPhases
<1>4. QED
  BY <1>0, <1>1, <1>2, <1>3, StoreStep

(* The ring is drained, whatever ACK is sent.                              *)
LEMMA TakeDataStep ==
    ASSUME SessionInv, NEW p \in toRecv, Store(p), toSend' \subseteq ToSender
    PROVE  SessionInv'
<1>0. /\ SessionTypeOK /\ HandshakeInv /\ DataInv /\ CounterInv /\ EndInv
  BY DEF SessionInv
<1>s. /\ toRecv' \subseteq toRecv
      /\ firstneedrecv' \in Nat
      /\ firstneedrecv <= firstneedrecv' /\ firstneedrecv' <= nextseqnum
      /\ pack_buf' \in [Slots -> Payload \cup {NoData}]
      /\ file' \in Seq(Payload)
      /\ file' = SubSeq(Message, 1, firstneedrecv')
      /\ RingHolds'
  BY StoreFacts
<1>u. /\ UNCHANGED <<rPhase, sPhase, startSeq, base, nextseqnum, totseq>>
      /\ rPhase = "recv" /\ sPhase \in {"top", "wait", "ok"}
  BY StoreFacts
<1>n. /\ base \in Nat /\ nextseqnum \in Nat /\ totseq \in Nat
      /\ firstneedrecv \in Nat /\ N \in Nat
  BY <1>0, MessageFacts DEF SessionTypeOK
<1>1. SessionTypeOK'
  BY <1>0, <1>s, <1>u DEF SessionTypeOK, Slots, BUFFSIZE, SenderPhases,
     ReceiverPhases
<1>2. HandshakeInv'
  BY <1>0, <1>s, <1>u DEF HandshakeInv
<1>3. DataInv'
  BY <1>0, <1>s, <1>u DEF DataInv
<1>4. CounterInv'
  BY <1>0, <1>s, <1>u, <1>n DEF CounterInv
<1>5. EndInv'
  BY <1>0, <1>s, <1>u DEF EndInv
<1>6. QED
  BY <1>1, <1>2, <1>3, <1>4, <1>5 DEF SessionInv

(* A refused connection sends nothing.                                     *)
LEMMA RefuseStep ==
    ASSUME SessionInv, Refuse
    PROVE  SessionInv'
<1> USE DEF network, sender, window, receiver, ring
<1>0. /\ SessionTypeOK /\ HandshakeInv /\ DataInv /\ CounterInv /\ EndInv
      /\ \A x \in toRecv : x.seq \in Nat
  BY DEF SessionInv, SessionTypeOK, ToReceiver
<1>1. SessionTypeOK'
  BY <1>0 DEF Refuse, SessionTypeOK, Slots, BUFFSIZE, SenderPhases,
     ReceiverPhases, ToReceiver, ToSender
<1>2. HandshakeInv'
  BY <1>0 DEF Refuse, HandshakeInv
<1>3. DataInv'
  <2>1. UNCHANGED ring /\ nextseqnum' \in Nat /\ nextseqnum <= nextseqnum'
    BY <1>0 DEF Refuse, SessionTypeOK
  <2>2. \A x \in toRecv' \ toRecv : x.type = "DATA" =>
           x.seq < nextseqnum' /\ x.payload = Message[x.seq + 1]
    BY <1>0 DEF Refuse
  <2>3. QED
    BY <1>0, <2>1, <2>2, RingKept
<1>4. CounterInv'
  BY <1>0 DEF Refuse, CounterInv
<1>5. EndInv'
  BY <1>0 DEF Refuse, EndInv
<1>6. QED
  BY <1>1, <1>2, <1>3, <1>4, <1>5 DEF SessionInv

(* A receiver that gives up sends nothing.                                 *)
LEMMA IdleTimeoutStep ==
    ASSUME SessionInv, IdleTimeout
    PROVE  SessionInv'
<1> USE DEF network, sender, window, receiver, ring
<1>0. /\ SessionTypeOK /\ HandshakeInv /\ DataInv /\ CounterInv /\ EndInv
      /\ \A x \in toRecv : x.seq \in Nat
  BY DEF SessionInv, SessionTypeOK, ToReceiver
<1>1. SessionTypeOK'
  BY <1>0 DEF IdleTimeout, SessionTypeOK, Slots, BUFFSIZE,
     SenderPhases, ReceiverPhases, ToReceiver, ToSender
<1>2. HandshakeInv'
  BY <1>0 DEF IdleTimeout, HandshakeInv
<1>3. DataInv'
  <2>1. UNCHANGED ring /\ nextseqnum' \in Nat /\ nextseqnum <= nextseqnum'
    BY <1>0 DEF IdleTimeout, SessionTypeOK
  <2>2. \A x \in toRecv' \ toRecv : x.type = "DATA" =>
           x.seq < nextseqnum' /\ x.payload = Message[x.seq + 1]
    BY <1>0 DEF IdleTimeout
  <2>3. QED
    BY <1>0, <2>1, <2>2, RingKept
<1>4. CounterInv'
  BY <1>0 DEF IdleTimeout, CounterInv
<1>5. EndInv'
  BY <1>0 DEF IdleTimeout, EndInv
<1>6. QED
  BY <1>1, <1>2, <1>3, <1>4, <1>5 DEF SessionInv

(* Losing packets makes nothing true.                                      *)
LEMMA LosePacketStep ==
    ASSUME SessionInv, LosePacket
    PROVE  SessionInv'
<1> USE DEF network, sender, window, receiver, ring
<1>0. /\ SessionTypeOK /\ HandshakeInv /\ DataInv /\ CounterInv /\ EndInv
      /\ \A x \in toRecv : x.seq \in Nat
  BY DEF SessionInv, SessionTypeOK, ToReceiver
<1>1. SessionTypeOK'
  BY <1>0 DEF LosePacket, SessionTypeOK, Slots, BUFFSIZE,
     SenderPhases, ReceiverPhases, ToReceiver, ToSender
<1>2. HandshakeInv'
  BY <1>0 DEF LosePacket, HandshakeInv
<1>3. DataInv'
  <2>1. UNCHANGED ring /\ nextseqnum' \in Nat /\ nextseqnum <= nextseqnum'
    BY <1>0 DEF LosePacket, SessionTypeOK
  <2>2. \A x \in toRecv' \ toRecv : x.type = "DATA" =>
           x.seq < nextseqnum' /\ x.payload = Message[x.seq + 1]
    BY <1>0 DEF LosePacket
  <2>3. QED
    BY <1>0, <2>1, <2>2, RingKept
<1>4. CounterInv'
  BY <1>0 DEF LosePacket, CounterInv
<1>5. EndInv'
  BY <1>0 DEF LosePacket, EndInv
<1>6. QED
  BY <1>1, <1>2, <1>3, <1>4, <1>5 DEF SessionInv

-----------------------------------------------------------------------------
(* What the invariant says of a state, property by property.               *)
LEMMA SessionInvImplies ==
    ASSUME SessionInv
    PROVE  /\ SessionTypeOK /\ FileIsPrefix /\ SuccessMeansDelivered
           /\ EndIsAllOrNothing /\ RingHolds
           /\ firstneedrecv = Len(file)
<1>1. /\ firstneedrecv \in Nat /\ base \in Nat /\ nextseqnum \in Nat
      /\ totseq \in Nat /\ N \in Nat
      /\ base <= firstneedrecv /\ firstneedrecv <= nextseqnum
      /\ nextseqnum <= totseq /\ totseq <= N
  BY MessageFacts DEF SessionInv, SessionTypeOK, CounterInv
<1>2. file = SubSeq(Message, 1, firstneedrecv) /\ Len(file) = firstneedrecv
  BY <1>1, PrefixLength DEF SessionInv, DataInv
<1>3. FileIsPrefix
  BY <1>1, <1>2 DEF FileIsPrefix
<1>4. SubSeq(Message, 1, N) = Message
  BY MessageAssumption, SubSeqFull DEF N
<1>5. SuccessMeansDelivered
  <2> SUFFICES ASSUME sPhase = "ok" PROVE file = Message
    BY DEF SuccessMeansDelivered
  <2>1. base = N
    BY DEF SessionInv, EndInv
  <2>2. firstneedrecv = N
    BY <1>1, <2>1
  <2>3. QED
    BY <1>2, <1>4, <2>2
<1>6. EndIsAllOrNothing
  <2> SUFFICES ASSUME rPhase = "ended"
               PROVE  SenderStopped /\ (file = <<>> \/ file = Message)
    BY DEF EndIsAllOrNothing
  <2>1. sPhase \in {"ok", "failed"}
    BY DEF SessionInv, EndInv
  <2>2. CASE sPhase = "ok"
    BY <1>5, <2>2 DEF SuccessMeansDelivered, SenderStopped
  <2>3. CASE sPhase = "failed"
    <3>1. nextseqnum = 0
      BY <2>3 DEF SessionInv, HandshakeInv
    <3>2. firstneedrecv = 0
      BY <1>1, <3>1
    <3>3. file = <<>>
      BY <1>2, <3>2, SubSeqEmpty
    <3>4. QED
      BY <2>3, <3>3 DEF SenderStopped
  <2>4. QED
    BY <2>1, <2>2, <2>3
<1>7. QED
  BY <1>2, <1>3, <1>5, <1>6 DEF SessionInv, DataInv

-----------------------------------------------------------------------------
(* Refinement.                                                             *)

LEMMA TransferInit == SessionInit => Transfer!Init
  BY DEF SessionInit, Transfer!Init, Outcome, Listening, ReceiverStopped

(* A step that leaves both phases and the file alone is a stutter.         *)
LEMMA TransferStutter ==
    ASSUME UNCHANGED file, Outcome' = Outcome, Listening' = Listening
    PROVE  UNCHANGED Transfer!vars
  BY DEF Transfer!vars

(* Before DATA is sent nothing is written.                                 *)
LEMMA NothingWritten ==
    ASSUME SessionInv, firstneedrecv = 0 \/ nextseqnum = 0
    PROVE  file = <<>>
<1>1. firstneedrecv = 0
  BY DEF SessionInv, SessionTypeOK, CounterInv
<1>2. QED
  BY <1>1, SubSeqEmpty DEF SessionInv, DataInv

(* A packet that is stored is stored while the sender is busy, and what it *)
(* adds to the file makes a longer prefix, or nothing.                     *)
LEMMA StoreDelivers ==
    ASSUME SessionInv, NEW p \in toRecv, Store(p)
    PROVE  Transfer!Deliver \/ UNCHANGED Transfer!vars
<1> USE DEF sender, window
<1>0. /\ SessionTypeOK /\ HandshakeInv /\ DataInv /\ CounterInv /\ EndInv
      /\ p.seq \in Nat
  BY DEF SessionInv, SessionTypeOK, ToReceiver
<1>1. /\ firstneedrecv \in Nat /\ nextseqnum \in Nat /\ totseq \in Nat
      /\ base \in Nat /\ N \in Nat
  BY <1>0, MessageFacts DEF SessionTypeOK
<1>2. /\ firstneedrecv' \in Nat
      /\ firstneedrecv <= firstneedrecv' /\ firstneedrecv' <= N
      /\ file' = SubSeq(Message, 1, firstneedrecv')
  <2>1. Store(p) /\ firstneedrecv <= nextseqnum /\ nextseqnum <= N
    BY <1>0, <1>1 DEF CounterInv
  <2>2. /\ firstneedrecv' \in Nat
        /\ firstneedrecv <= firstneedrecv' /\ firstneedrecv' <= nextseqnum
        /\ file' = SubSeq(Message, 1, firstneedrecv')
    BY <1>0, <2>1, StoreStep
  <2>3. QED
    BY <1>1, <2>1, <2>2
<1>3. /\ p.seq < nextseqnum /\ firstneedrecv <= p.seq
      /\ rPhase = "recv" /\ UNCHANGED <<rPhase, sPhase>>
  BY <1>0 DEF Store, InWindow, DataInv
<1>4. sPhase # "ok"
  BY <1>0, <1>1, <1>3 DEF EndInv, CounterInv
<1>5. sPhase \notin {"failed", "nofile", "crashed"}
  BY <1>0, <1>1, <1>3 DEF EndInv, HandshakeInv
<1>6. /\ Outcome = "busy" /\ Outcome' = "busy"
      /\ Listening = "open" /\ Listening' = "open"
  BY <1>3, <1>4, <1>5 DEF Outcome, Listening, ReceiverStopped
<1>7. Len(file) = firstneedrecv /\ file = SubSeq(Message, 1, firstneedrecv)
  BY <1>0, <1>1, PrefixLength DEF DataInv, CounterInv
<1>8. CASE firstneedrecv' = firstneedrecv
  BY <1>2, <1>6, <1>7, <1>8, TransferStutter
<1>9. CASE firstneedrecv' # firstneedrecv
  <2>1. firstneedrecv' \in Len(file) + 1 .. Len(Message)
    BY <1>1, <1>2, <1>7, <1>9 DEF N
  <2>2. QED
    BY <1>2, <1>6, <2>1 DEF Transfer!Deliver
<1>10. QED
  BY <1>8, <1>9

(* END is sent when the file is complete.                                  *)
LEMMA FinishDelivers ==
    ASSUME SndW > 0, SessionInv, Finish
    PROVE  file = Message
<1>1. /\ firstneedrecv \in Nat /\ base \in Nat /\ nextseqnum \in Nat
      /\ totseq \in Nat /\ N \in Nat
      /\ base <= firstneedrecv /\ firstneedrecv <= nextseqnum
      /\ nextseqnum <= totseq /\ totseq <= N
  BY MessageFacts DEF SessionInv, SessionTypeOK, CounterInv
<1>2. base = N
  BY <1>1, FillBounds DEF Finish, SessionInv, SessionTypeOK
<1>3. firstneedrecv = N
  BY <1>1, <1>2
<1>4. QED
  BY <1>3, MessageAssumption, SubSeqFull DEF SessionInv, DataInv, N

(* A pass through the second half of the sender's loop changes nothing     *)
(* that FileTransfer sees.                                                 *)
LEMMA PassTransfer ==
    ASSUME sPhase = "wait", sPhase' = "top", UNCHANGED receiver
    PROVE  UNCHANGED Transfer!vars
<1>1. UNCHANGED <<file, rPhase>>
  BY DEF receiver, ring
<1>2. QED
  BY <1>1, TransferStutter DEF Outcome, Listening, ReceiverStopped

(* The steps that the two variants share.                                  *)
SessionStep ==
    \/ SendStart \/ StartAcked \/ StartFailed \/ OpenFails \/ OpenSucceeds
    \/ SendWindow \/ Finish
    \/ \E p \in toRecv : GetStart(p) \/ GetEnd(p) \/ Ignore(p) \/ Store(p)
    \/ Refuse \/ IdleTimeout \/ LosePacket \/ Returned

(* Each of them is a step of FileTransfer or a stutter.                    *)
LEMMA SessionTransfer ==
    ASSUME SndW > 0, SessionInv, SessionStep
    PROVE  [Transfer!Next]_Transfer!vars
<1> USE DEF network, sender, window, receiver, ring
<1>1. CASE SendStart \/ StartAcked \/ OpenSucceeds \/ SendWindow
  <2>1. /\ UNCHANGED <<file, rPhase>>
        /\ sPhase \in {"idle", "starting", "connected", "top", "wait"}
        /\ sPhase' \in {"idle", "starting", "connected", "top", "wait"}
    BY <1>1 DEF SendStart, StartAcked, OpenSucceeds, SendWindow
  <2>2. QED
    BY <2>1, TransferStutter DEF Outcome, Listening, ReceiverStopped
<1>2. CASE StartFailed \/ OpenFails
  <2>1. /\ UNCHANGED <<file, rPhase>>
        /\ sPhase \in {"starting", "connected"}
        /\ sPhase' \in {"failed", "nofile"}
    BY <1>2 DEF StartFailed, OpenFails
  <2>2. file = <<>>
    BY <2>1, NothingWritten DEF SessionInv, HandshakeInv
  <2>3. Transfer!Fail
    BY <2>1, <2>2 DEF Transfer!Fail, Outcome, Listening, ReceiverStopped
  <2>4. QED
    BY <2>3 DEF Transfer!Next
<1>3. CASE Finish
  <2>1. UNCHANGED <<file, rPhase>> /\ sPhase = "top" /\ sPhase' = "ok"
    BY <1>3 DEF Finish
  <2>2. file = Message
    BY <1>3, FinishDelivers
  <2>3. Transfer!Succeed
    BY <2>1, <2>2 DEF Transfer!Succeed, Outcome, Listening, ReceiverStopped
  <2>4. QED
    BY <2>3 DEF Transfer!Next
<1>6. ASSUME NEW p \in toRecv, GetStart(p) \/ Ignore(p)
      PROVE  UNCHANGED Transfer!vars
  <2>1. /\ UNCHANGED <<file, sPhase>>
        /\ rPhase \in {"listen", "recv"} /\ rPhase' \in {"listen", "recv"}
    BY <1>6 DEF GetStart, Ignore
  <2>2. QED
    BY <2>1, TransferStutter DEF Outcome, Listening, ReceiverStopped
<1>7. ASSUME NEW p \in toRecv, GetEnd(p)
      PROVE  Transfer!EndOfFile
  <2>1. /\ UNCHANGED <<file, sPhase>> /\ rPhase = "recv" /\ rPhase' = "ended"
        /\ sPhase \in {"ok", "failed"}
    BY <1>7 DEF GetEnd, SessionInv, EndInv
  <2>2. QED
    BY <2>1 DEF Transfer!EndOfFile, Outcome, Listening, ReceiverStopped
<1>8. ASSUME NEW p \in toRecv, Store(p)
      PROVE  Transfer!Deliver \/ UNCHANGED Transfer!vars
  BY <1>8, StoreDelivers
<1>9. CASE Refuse
  <2>1. UNCHANGED <<file, sPhase>> /\ rPhase = "listen" /\ rPhase' = "refused"
    BY <1>9 DEF Refuse
  <2>2. file = <<>>
    BY <2>1, NothingWritten DEF SessionInv, HandshakeInv
  <2>3. Transfer!Refuse
    BY <2>1, <2>2 DEF Transfer!Refuse, Outcome, Listening, ReceiverStopped
  <2>4. QED
    BY <2>3 DEF Transfer!Next
<1>10. CASE IdleTimeout
  <2>1. UNCHANGED <<file, sPhase>> /\ rPhase = "recv" /\ rPhase' = "timedout"
    BY <1>10 DEF IdleTimeout
  <2>2. Transfer!GiveUp
    BY <2>1 DEF Transfer!GiveUp, Outcome, Listening, ReceiverStopped
  <2>3. QED
    BY <2>2 DEF Transfer!Next
<1>11. CASE LosePacket \/ Returned
  <2>1. UNCHANGED <<file, rPhase, sPhase>>
    BY <1>11 DEF LosePacket, Returned
  <2>2. QED
    BY <2>1, TransferStutter DEF Outcome, Listening, ReceiverStopped
<1>12. QED
  BY <1>1, <1>2, <1>3, <1>6, <1>7, <1>8, <1>9, <1>10, <1>11
     DEF SessionStep, Transfer!Next
=============================================================================
