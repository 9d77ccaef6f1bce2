-------------------------- MODULE FtpFramingProofs --------------------------
(***************************************************************************)
(* Proofs about FtpFraming, for every base, every set of types, every      *)
(* length of a payload and of the socket's buffer, and every number of     *)
(* datagrams.                                                              *)
(*                                                                         *)
(* The invariant TLC checks says nothing of where the reader is in the     *)
(* stream.  The inductive one does: there is one sequence of cells S, the  *)
(* bytes of all of sent one after the other, with a place st[k] where each *)
(* datagram starts (Laid), of which the socket and the rest of out are     *)
(* what comes next (Carried), and the header and the part of the payload   *)
(* the reader holds are what came before (Taken).  It holds until read     *)
(* fails.  After that Whole is enough: the buffer held a whole header when *)
(* the loop began, so that the loop that ends without a byte returns       *)
(* something well formed, and there is no second one.                      *)
(***************************************************************************)
EXTENDS FtpFraming, Integers, TLAPS, SequenceTheorems

-----------------------------------------------------------------------------
(* Numbers.                                                                *)

(* The digits of a number of two digits.                                   *)
LEMMA Digits ==
    ASSUME NEW b \in Nat, b > 0, NEW hi \in Nat, NEW lo \in Nat, lo < b
    PROVE  (hi * b + lo) % b = lo /\ (hi * b + lo) \div b = hi
<1> DEFINE n == hi * b + lo
           q == n \div b
           r == n % b
<1>1. n \in Nat /\ q \in Int /\ r \in 0 .. b - 1 /\ n = b * q + r
  BY SMT
<1>2. n = b * hi + lo
  BY SMT
<1> HIDE DEF n, q, r
<1>3. b * q < b * hi + b /\ b * hi < b * q + b
  BY <1>1, <1>2
<1>4. q < hi + 1 /\ hi < q + 1
  BY <1>1, <1>3, SMT
<1>5. q = hi
  BY <1>1, <1>4
<1>6. r = lo
  BY <1>1, <1>2, <1>5
<1>7. QED
  BY <1>5, <1>6 DEF q, r, n

(* A number below the square of the base has two digits.                   *)
LEMMA TwoDigits ==
    ASSUME NEW b \in Nat, b > 0, NEW n \in Nat, n < b * b
    PROVE  /\ n % b \in 0 .. b - 1 /\ n \div b \in 0 .. b - 1
           /\ n = (n \div b) * b + (n % b)
<1> DEFINE q == n \div b
           r == n % b
<1>1. q \in Int /\ r \in 0 .. b - 1 /\ n = b * q + r
  BY SMT
<1> HIDE DEF q, r
<1>2. b * q < b * b /\ b * q > b * (-1)
  BY <1>1
<1>3. q < b /\ q > -1
  BY <1>1, <1>2, SMT
<1>4. n = q * b + r
  BY <1>1, SMT
<1>5. q \in 0 .. b - 1
  BY <1>1, <1>3
<1>6. QED
  BY <1>1, <1>4, <1>5, Zenon DEF q, r

(* Reversed twice, a number is itself again.                               *)
LEMMA endianRevTwice ==
    ASSUME NEW n \in 0 .. HEADER_SIZE + MaxPayload
    PROVE  LET m == endianRev(n)
           IN  /\ m % Base \in Cells /\ m \div Base \in Cells
               /\ endianRev((m % Base) + Base * (m \div Base)) = n
<1> DEFINE b == Base
           lo == n % b
           hi == n \div b
           m == endianRev(n)
<1>1. b \in Nat /\ b > 0 /\ n \in Nat /\ n < b * b /\ Cells = 0 .. b - 1
  BY FramingAssumption DEF HEADER_SIZE, Cells
<1>2. lo \in 0 .. b - 1 /\ hi \in 0 .. b - 1 /\ n = hi * b + lo
  <2> HIDE DEF b
  <2>1. QED
    BY <1>1, TwoDigits
<1>3. m = lo * b + hi
  BY DEF endianRev
<1> HIDE DEF b, lo, hi, m
<1>4. m % b = hi /\ m \div b = lo
  BY <1>1, <1>2, <1>3, Digits
<1>5. hi + b * lo = m
  BY <1>1, <1>2, <1>3, SMT
<1>6. endianRev(m) = (m % b) * b + (m \div b)
  BY DEF endianRev, b
<1>7. endianRev((m % b) + b * (m \div b)) = n
  BY <1>2, <1>4, <1>5, <1>6
<1>8. QED
  BY <1>1, <1>2, <1>4, <1>7 DEF m, b

(* A size_t that is given an error back: one less, or all ones.            *)
LEMMA Backwards ==
    ASSUME NEW M \in Nat, M > 0, NEW r \in 0 .. M
    PROVE  (r + M) % (M + 1) = IF r = 0 THEN M ELSE r - 1
<1>1. CASE r = 0
  <2>1. (0 * (M + 1) + M) % (M + 1) = M
    BY Digits
  <2>2. 0 * (M + 1) + M = r + M
    BY <1>1
  <2>3. QED
    BY <1>1, <2>1, <2>2
<1>2. CASE r # 0
  <2>1. r - 1 \in Nat /\ r - 1 < M + 1 /\ M + 1 \in Nat /\ M + 1 > 0
    BY <1>2
  <2>2. (1 * (M + 1) + (r - 1)) % (M + 1) = r - 1
    BY <2>1, Digits
  <2>3. 1 * (M + 1) + (r - 1) = r + M
    OBVIOUS
  <2>4. QED
    BY <1>2, <2>2, <2>3
<1>3. QED
  BY <1>1, <1>2

-----------------------------------------------------------------------------
(* Datagrams and their bytes.                                              *)

LEMMA PayloadFacts ==
    \A p : p \in Payloads <=> p \in Seq(Cells) /\ Len(p) <= MaxPayload
<1>1. ASSUME NEW p, p \in Payloads
      PROVE  p \in Seq(Cells) /\ Len(p) <= MaxPayload
  <2>1. PICK n \in 0 .. MaxPayload : p \in [1 .. n -> Cells]
    BY <1>1 DEF Payloads
  <2>2. n \in Nat
    BY FramingAssumption
  <2>3. p \in Seq(Cells) /\ Len(p) = n
    BY <2>1, <2>2
  <2>4. QED
    BY <2>3
<1>2. ASSUME NEW p, p \in Seq(Cells), Len(p) <= MaxPayload
      PROVE  p \in Payloads
  <2>1. p \in [1 .. Len(p) -> Cells] /\ Len(p) \in 0 .. MaxPayload
    BY <1>2, FramingAssumption
  <2>2. QED
    BY <2>1 DEF Payloads
<1>3. QED
  BY <1>1, <1>2

(* What the reader's buffer holds before the first byte of a header.       *)
Headers == {Header(t, n) : t \in Types, n \in 0 .. MaxPayload}

LEMMA HeaderFacts ==
    ASSUME NEW t \in Types, NEW n \in 0 .. MaxPayload
    PROVE  LET hd == Header(t, n)
           IN  /\ hd \in Seq(Cells) /\ Len(hd) = HEADER_SIZE
               /\ hd \in [1 .. HEADER_SIZE -> Cells]
               /\ hd[1] = t /\ payload_length(hd) = n
<1> DEFINE m == endianRev(HEADER_SIZE + n)
           hd == Header(t, n)
           lo == m % Base
           hi == m \div Base
<1>1. HEADER_SIZE + n \in 0 .. HEADER_SIZE + MaxPayload /\ n \in Nat
      /\ t \in Cells
  BY FramingAssumption DEF HEADER_SIZE
<1>2. /\ lo \in Cells /\ hi \in Cells
      /\ endianRev(lo + Base * hi) = HEADER_SIZE + n
  BY <1>1, endianRevTwice
<1>3. hd = <<t, lo, hi>>
  BY DEF Header
<1> HIDE DEF hd, lo, hi, m
<1>4. /\ hd \in Seq(Cells) /\ Len(hd) = 3
      /\ hd[1] = t /\ hd[2] = lo /\ hd[3] = hi
  BY <1>1, <1>2, <1>3
<1>5. hd \in [1 .. 3 -> Cells]
  BY <1>4, SMTT(30)
<1>6. payload_length(hd) = n
  BY <1>1, <1>2, <1>4 DEF payload_length, HEADER_SIZE
<1>7. QED
  BY <1>4, <1>5, <1>6 DEF hd, HEADER_SIZE

(* A header is known by its three cells.                                   *)
LEMMA HeaderKnown ==
    ASSUME NEW t \in Types, NEW n \in 0 .. MaxPayload,
           NEW buf \in [1 .. HEADER_SIZE -> Cells],
           \A i \in 1 .. HEADER_SIZE : buf[i] = Header(t, n)[i]
    PROVE  buf = Header(t, n)
<1> DEFINE hd == Header(t, n)
<1>1. hd \in [1 .. HEADER_SIZE -> Cells]
  BY HeaderFacts
<1>2. \A i \in 1 .. HEADER_SIZE : buf[i] = hd[i]
  OBVIOUS
<1> HIDE DEF hd
<1>3. buf = hd
  <2>1. /\ buf = [i \in 1 .. HEADER_SIZE |-> buf[i]]
        /\ hd = [i \in 1 .. HEADER_SIZE |-> hd[i]]
    BY <1>1
  <2>2. QED
    BY <1>2, <2>1, Zenon
<1>4. QED
  BY <1>3 DEF hd

LEMMA BytesFacts ==
    ASSUME NEW d \in Dgrams
    PROVE  LET b == dgram2bytes(d)
               hd == Header(d.type, Len(d.payload))
           IN  /\ d.type \in Types /\ d.payload \in Seq(Cells)
               /\ Len(d.payload) \in 0 .. MaxPayload
               /\ b \in Seq(Cells) /\ Len(b) = HEADER_SIZE + Len(d.payload)
               /\ \A i \in 1 .. HEADER_SIZE : b[i] = hd[i]
               /\ \A i \in 1 .. Len(d.payload) : b[HEADER_SIZE + i] = d.payload[i]
<1> DEFINE b == dgram2bytes(d)
           hd == Header(d.type, Len(d.payload))
           p == d.payload
<1>1. d.type \in Types /\ p \in Seq(Cells) /\ Len(p) \in 0 .. MaxPayload
      /\ Len(p) \in Nat
  <2>1. d.type \in Types /\ p \in Payloads
    BY DEF Dgrams
  <2>2. p \in Seq(Cells) /\ Len(p) <= MaxPayload
    BY <2>1, PayloadFacts
  <2>3. QED
    BY <2>1, <2>2, FramingAssumption
<1>2. hd \in Seq(Cells) /\ Len(hd) = HEADER_SIZE
  BY <1>1, HeaderFacts
<1>3. b = hd \o p
  BY DEF dgram2bytes
<1> HIDE DEF b, hd, p
<1>4. /\ b \in Seq(Cells) /\ Len(b) = HEADER_SIZE + Len(p)
      /\ \A i \in 1 .. HEADER_SIZE + Len(p) :
            b[i] = IF i <= HEADER_SIZE THEN hd[i] ELSE p[i - HEADER_SIZE]
  BY <1>1, <1>2, <1>3, ConcatProperties
<1>5. /\ \A i \in 1 .. HEADER_SIZE : b[i] = hd[i]
      /\ \A i \in 1 .. Len(p) : b[HEADER_SIZE + i] = p[i]
  BY <1>1, <1>4 DEF HEADER_SIZE
<1>6. QED
  BY <1>1, <1>4, <1>5 DEF b, hd, p

-----------------------------------------------------------------------------
(* The inductive invariant.                                                *)

(* The loop of readBuf has ended.                                          *)
Over == phase # "idle" /\ ~Reading

(* What the reader holds besides the bytes it has read: between two loops  *)
(* a whole header, and after an error no more than one datagram.           *)
Whole ==
    /\ phase # "header" => bbuff \in Headers
    /\ phase = "payload" => payload # <<>>
    /\ link # "failed" =>
          /\ ~bogus
          /\ phase = "header" => rRet <= HEADER_SIZE
          /\ phase = "header" /\ rRet = 0 => bbuff \in Headers
          /\ phase = "payload" => rRet <= Len(payload)
    /\ link = "failed" =>
          /\ sock = <<>>
          /\ Over => ~bogus /\ (phase = "header" => bbuff \in Headers)

(* What the reader has taken of the datagram that starts at Here, and the  *)
(* place in the stream it has come to.                                     *)
Consumed == IF phase = "idle" THEN 0
            ELSE IF phase = "header" THEN rRet ELSE HEADER_SIZE + rRet
Here(st) == st[Len(got) + 1]
At(st) == Here(st) + Consumed

(* S is all that was ever to be written, and st[k] is where the datagram k *)
(* of sent starts in it.                                                   *)
Laid(S, st) ==
    /\ S \in Seq(Cells)
    /\ \A k \in 1 .. Len(sent) + 1 : st[k] \in 0 .. Len(S)
    /\ st[Len(sent) + 1] = Len(S)
    /\ \A k \in 1 .. Len(sent) :
          /\ st[k + 1] = st[k] + HEADER_SIZE + Len(sent[k].payload)
          /\ \A i \in 1 .. HEADER_SIZE + Len(sent[k].payload) :
                S[st[k] + i] = dgram2bytes(sent[k])[i]

(* The socket holds what comes next in the stream, and out is its end.     *)
Carried(S, st) ==
    /\ Len(got) <= Len(sent)
    /\ Len(out) <= Len(S)
    /\ \A i \in 1 .. Len(out) : out[i] = S[Len(S) - Len(out) + i]
    /\ At(st) + Len(sock) <= Len(S)
    /\ link = "open" => At(st) + Len(sock) = Len(S) - Len(out) + wRet
    /\ \A i \in 1 .. Len(sock) : sock[i] = S[At(st) + i]

(* The cells that were read are those of the stream.                       *)
Taken(S, st) ==
    /\ phase = "header" => \A i \in 1 .. rRet : bbuff[i] = S[Here(st) + i]
    /\ phase = "payload" =>
          /\ Len(got) < Len(sent)
          /\ bbuff[1] = sent[Len(got) + 1].type
          /\ Len(payload) = Len(sent[Len(got) + 1].payload)
          /\ \A i \in 1 .. rRet : payload[i] = S[Here(st) + HEADER_SIZE + i]

Framed == \E S, st : Laid(S, st) /\ Carried(S, st) /\ Taken(S, st)

IInv ==
    /\ TypeOK
    /\ Whole
    /\ link # "failed" => Framed

-----------------------------------------------------------------------------
LEMMA Shapes ==
    ASSUME TypeOK
    PROVE  /\ link \in {"open", "closed", "reset", "failed"}
           /\ phase \in {"idle", "header", "payload"}
           /\ sock \in Seq(Cells) /\ Len(sock) \in Nat
           /\ out \in Seq(Cells) /\ Len(out) \in Nat /\ wRet \in 0 .. Len(out)
           /\ bbuff \in [1 .. HEADER_SIZE -> Cells]
           /\ payload \in Payloads
           /\ payload \in Seq(Cells) /\ Len(payload) \in 0 .. MaxPayload
           /\ rRet \in 0 .. SizeMax /\ rRet \in Nat
           /\ sent \in Seq(Dgrams) /\ Len(sent) \in Nat
           /\ got \in Seq(Dgrams) /\ Len(got) \in Nat
           /\ bogus \in BOOLEAN
           /\ MaxPayload \in Nat /\ SizeMax \in Nat
           /\ SizeMax > HEADER_SIZE + MaxPayload
<1>1. payload \in Seq(Cells) /\ Len(payload) <= MaxPayload
  BY PayloadFacts DEF TypeOK
<1>2. Len(payload) \in Nat
  BY <1>1
<1>3. QED
  BY <1>1, <1>2, FramingAssumption DEF TypeOK

(* The reader never is ahead of the stream.                                *)
LEMMA Places ==
    ASSUME TypeOK, NEW S, NEW st, Laid(S, st), Carried(S, st)
    PROVE  /\ S \in Seq(Cells) /\ Len(S) \in Nat
           /\ Here(st) \in Nat /\ Consumed \in Nat /\ At(st) \in Nat
           /\ At(st) = Here(st) + Consumed
           /\ phase = "idle" => Consumed = 0
           /\ phase = "header" => Consumed = rRet
           /\ phase = "payload" => Consumed = HEADER_SIZE + rRet
           /\ At(st) <= Len(S)
<1>1. /\ S \in Seq(Cells) /\ Len(S) \in Nat
      /\ Len(got) \in Nat /\ Len(sent) \in Nat /\ Len(got) <= Len(sent)
      /\ Len(sock) \in Nat /\ rRet \in Nat
  BY Shapes DEF Laid, Carried
<1>2. Len(got) + 1 \in 1 .. Len(sent) + 1
  BY <1>1
<1>3. Here(st) \in Nat
  BY <1>1, <1>2 DEF Here, Laid
<1>4. /\ Consumed \in Nat
      /\ phase = "idle" => Consumed = 0
      /\ phase = "header" => Consumed = rRet
      /\ phase = "payload" => Consumed = HEADER_SIZE + rRet
  BY <1>1 DEF Consumed, HEADER_SIZE
<1>5. At(st) + Len(sock) <= Len(S) /\ At(st) = Here(st) + Consumed
  BY DEF Carried, At
<1>6. At(st) \in Nat /\ At(st) <= Len(S)
  BY <1>1, <1>3, <1>4, <1>5
<1>7. QED
  BY <1>1, <1>3, <1>4, <1>5, <1>6

LEMMA InitInv == Init => IInv
<1> SUFFICES ASSUME Init PROVE IInv
  OBVIOUS
<1>1. bbuff \in Headers
  BY DEF Init, Headers
<1>2. bbuff \in [1 .. HEADER_SIZE -> Cells]
  BY <1>1, HeaderFacts DEF Headers
<1>3. TypeOK
  <2>1. /\ <<>> \in Seq(Cells) /\ <<>> \in Seq(Dgrams) /\ Len(<<>>) = 0
    OBVIOUS
  <2>2. /\ Len(<<>>) <= MaxPayload /\ Len(<<>>) <= SocketBuffer
        /\ 0 \in 0 .. SizeMax /\ 0 \in 0 .. Len(<<>>)
    BY <2>1, FramingAssumption
  <2>3. <<>> \in Payloads
    BY <2>1, <2>2, PayloadFacts
  <2>4. /\ link \in {"open", "closed", "reset", "failed"}
        /\ phase \in {"idle", "header", "payload"} /\ bogus \in BOOLEAN
    BY DEF Init
  <2>5. /\ sock = <<>> /\ out = <<>> /\ wRet = 0 /\ payload = <<>>
        /\ rRet = 0 /\ sent = <<>> /\ got = <<>>
    BY DEF Init
  <2>6. /\ sock \in Seq(Cells) /\ Len(sock) <= SocketBuffer
        /\ out \in Seq(Cells) /\ wRet \in 0 .. Len(out)
    BY <2>1, <2>2, <2>5, Zenon
  <2>7. /\ payload \in Payloads /\ rRet \in 0 .. SizeMax
        /\ sent \in Seq(Dgrams) /\ got \in Seq(Dgrams)
    BY <2>1, <2>2, <2>3, <2>5, Zenon
  <2>8. QED
    BY <1>2, <2>4, <2>6, <2>7 DEF TypeOK
<1>4. Whole
  BY <1>1, FramingAssumption DEF Init, Whole, HEADER_SIZE
<1>5. Framed
  <2> DEFINE S == <<>>
             st == [k \in {1} |-> 0]
  <2>1. S \in Seq(Cells) /\ Len(S) = 0 /\ Len(sent) = 0 /\ Len(got) = 0
        /\ Len(out) = 0 /\ Len(sock) = 0 /\ st[1] = 0 /\ sent = <<>> /\ got = <<>>
    BY DEF Init
  <2> HIDE DEF S, st
  <2>2. Laid(S, st)
    <3>1. \A k \in 1 .. Len(sent) + 1 : k = 1
      BY <2>1
    <3>2. \A k \in 1 .. Len(sent) : FALSE
      BY <2>1
    <3>3. QED
      BY <2>1, <3>1, <3>2 DEF Laid
  <2>3. At(st) = 0
    BY <2>1 DEF Init, At, Here, Consumed
  <2>4. Carried(S, st)
    <3>1. /\ \A i \in 1 .. Len(out) : FALSE
          /\ \A i \in 1 .. Len(sock) : FALSE
      BY <2>1
    <3>2. /\ Len(got) <= Len(sent) /\ Len(out) <= Len(S)
          /\ At(st) + Len(sock) <= Len(S)
      BY <2>1, <2>3
    <3>3. At(st) + Len(sock) = Len(S) - Len(out) + wRet
      <4>1. wRet = 0
        BY DEF Init
      <4>2. QED
        BY <2>1, <2>3, <4>1
    <3>4. QED
      BY <3>1, <3>2, <3>3 DEF Carried
  <2>5. Taken(S, st)
    BY DEF Init, Taken
  <2>6. QED
    BY <2>2, <2>4, <2>5 DEF Framed
<1>6. QED
  BY <1>3, <1>4, <1>5 DEF IInv

(* A reader that has a whole header, and no error, has the header of the   *)
(* datagram it is at.                                                      *)
LEMMA HeaderOf ==
    ASSUME TypeOK, Whole, NEW S, NEW st,
           Laid(S, st), Carried(S, st), Taken(S, st),
           phase = "header", ~Reading, link # "failed"
    PROVE  LET d == sent[Len(got) + 1]
           IN  /\ rRet = HEADER_SIZE /\ Len(got) + 1 \in 1 .. Len(sent)
               /\ d \in Dgrams
               /\ bbuff = Header(d.type, Len(d.payload))
<1> DEFINE g == Len(got) + 1
           d == sent[g]
<1>1. /\ rRet \in Nat /\ Len(got) \in Nat /\ Len(sent) \in Nat
      /\ sent \in Seq(Dgrams) /\ bbuff \in [1 .. HEADER_SIZE -> Cells]
  BY Shapes
<1>2. rRet = 3
  BY <1>1 DEF Whole, Reading, Asked, HEADER_SIZE
<1>3. Here(st) + 3 <= Len(S) /\ Here(st) \in Nat /\ Len(S) \in Nat
  BY <1>2, Places
<1>4. g \in 1 .. Len(sent)
  <2>1. Len(got) # Len(sent)
    BY <1>3 DEF Here, Laid
  <2>2. Len(got) <= Len(sent)
    BY DEF Carried
  <2>3. QED
    BY <1>1, <2>1, <2>2
<1>5. d \in Dgrams
  BY <1>1, <1>4
<1>6. Here(st) = st[g]
  BY DEF Here
<1> HIDE DEF g, d
<1>7. /\ d.type \in Types /\ Len(d.payload) \in 0 .. MaxPayload
      /\ \A i \in 1 .. HEADER_SIZE :
            dgram2bytes(d)[i] = Header(d.type, Len(d.payload))[i]
  BY <1>5, BytesFacts
<1>8. \A i \in 1 .. HEADER_SIZE : S[st[g] + i] = dgram2bytes(d)[i]
  <2>1. \A i \in 1 .. HEADER_SIZE + Len(d.payload) :
           S[st[g] + i] = dgram2bytes(d)[i]
    BY <1>4 DEF Laid, d
  <2>2. \A i \in 1 .. HEADER_SIZE : i \in 1 .. HEADER_SIZE + Len(d.payload)
    BY <1>7 DEF HEADER_SIZE
  <2>3. QED
    BY <2>1, <2>2
<1>9. \A i \in 1 .. HEADER_SIZE : bbuff[i] = S[Here(st) + i]
  BY <1>2 DEF Taken, HEADER_SIZE
<1>10. \A i \in 1 .. HEADER_SIZE : bbuff[i] = Header(d.type, Len(d.payload))[i]
  BY <1>6, <1>7, <1>8, <1>9
<1>11. bbuff = Header(d.type, Len(d.payload))
  BY <1>1, <1>7, <1>10, HeaderKnown
<1>12. QED
  BY <1>2, <1>4, <1>5, <1>11 DEF HEADER_SIZE, d, g

(* Whatever happened, what counts as a header when a loop has ended is one. *)
LEMMA HeaderHeld ==
    ASSUME IInv, Over
    PROVE  bbuff \in Headers
<1>1. CASE phase # "header"
  BY <1>1 DEF IInv, Whole
<1>2. CASE phase = "header" /\ link = "failed"
  BY <1>2 DEF IInv, Whole
<1>3. CASE phase = "header" /\ link # "failed"
  <2>1. PICK S, st : Laid(S, st) /\ Carried(S, st) /\ Taken(S, st)
    BY <1>3 DEF IInv, Framed
  <2>2. ~Reading /\ TypeOK /\ Whole
    BY DEF Over, IInv
  <2>3. LET d == sent[Len(got) + 1]
        IN  /\ rRet = HEADER_SIZE /\ Len(got) + 1 \in 1 .. Len(sent)
            /\ d \in Dgrams
            /\ bbuff = Header(d.type, Len(d.payload))
    BY <1>3, <2>1, <2>2, HeaderOf, Zenon
  <2>4. PICK d \in Dgrams : bbuff = Header(d.type, Len(d.payload))
    BY <2>3
  <2>5. d.type \in Types /\ Len(d.payload) \in 0 .. MaxPayload
    BY BytesFacts
  <2>6. QED
    BY <2>4, <2>5 DEF Headers
<1>4. QED
  BY <1>1, <1>2, <1>3

LEMMA HeaderRanges ==
    ASSUME bbuff \in Headers
    PROVE  /\ bbuff \in [1 .. HEADER_SIZE -> Cells] /\ bbuff[1] \in Types
           /\ payload_length(bbuff) \in 0 .. MaxPayload
           /\ \E t \in Types : bbuff = Header(t, payload_length(bbuff))
<1>1. PICK t \in Types, n \in 0 .. MaxPayload : bbuff = Header(t, n)
  BY DEF Headers
<1>2. /\ bbuff \in [1 .. HEADER_SIZE -> Cells] /\ bbuff[1] = t
      /\ payload_length(bbuff) = n
  BY <1>1, HeaderFacts
<1>3. QED
  BY <1>1, <1>2

-----------------------------------------------------------------------------
(* One lemma for each action.                                              *)

LEMMA HangupStep ==
    ASSUME IInv, Hangup
    PROVE  IInv'
<1>1. TypeOK /\ Whole /\ Framed /\ link = "open" /\ link' \in {"closed", "reset"}
  BY DEF IInv, Hangup
<1>2. \E n \in 0 .. Len(sock) : sock' = SubSeq(sock, 1, n)
  <2>1. CASE sock' = sock
    <3>1. sock = SubSeq(sock, 1, Len(sock)) /\ Len(sock) \in 0 .. Len(sock)
      BY <1>1, Shapes
    <3>2. QED
      BY <2>1, <3>1
  <2>2. sock' = sock \/ \E n \in 0 .. Len(sock) : sock' = SubSeq(sock, 1, n)
    BY Zenon DEF Hangup
  <2>3. CASE \E n \in 0 .. Len(sock) : sock' = SubSeq(sock, 1, n)
    BY <2>3
  <2>4. QED
    BY <2>1, <2>2, <2>3, Zenon
<1>3. PICK n \in 0 .. Len(sock) : sock' = SubSeq(sock, 1, n)
  BY <1>2
<1>4. sock' \in Seq(Cells) /\ Len(sock') = n /\ n <= Len(sock) /\ n \in Nat
      /\ \A i \in 1 .. n : sock'[i] = sock[i] /\ i \in 1 .. Len(sock)
  BY <1>1, <1>3, Shapes, SubSeqProperties
<1>5. /\ UNCHANGED <<out, wRet, phase, bbuff, payload, rRet, sent, got, bogus>>
  BY DEF Hangup, writing, reading, history
<1>6. TypeOK'
  <2>1. Len(sock') <= SocketBuffer
    BY <1>1, <1>4, FramingAssumption, Shapes DEF TypeOK
  <2>2. QED
    BY <1>1, <1>4, <1>5, <2>1 DEF TypeOK
<1>7. Whole'
  BY <1>1, <1>5 DEF Whole
<1>8. Framed'
  <2>1. PICK S, st : Laid(S, st) /\ Carried(S, st) /\ Taken(S, st)
    BY <1>1 DEF Framed
  <2>2. Laid(S, st)' /\ Taken(S, st)'
    BY <1>5, <2>1 DEF Laid, Taken, Here
  <2>3. Carried(S, st)'
    <3>1. At(st)' = At(st)
      BY <1>5 DEF At, Here, Consumed
    <3>2. At(st) \in Nat /\ Len(S) \in Nat /\ Len(sock) \in Nat
      BY <1>1, <2>1, Places, Shapes
    <3>3. At(st)' + Len(sock') <= Len(S)
      BY <1>4, <2>1, <3>1, <3>2 DEF Carried
    <3>4. \A i \in 1 .. Len(sock') : sock'[i] = S[At(st)' + i]
      BY <1>4, <2>1, <3>1 DEF Carried
    <3>5. link' # "open"
      BY <1>1
    <3>6. /\ Len(got') <= Len(sent') /\ Len(out') <= Len(S)
          /\ \A i \in 1 .. Len(out') : out'[i] = S[Len(S) - Len(out') + i]
      BY <1>5, <2>1 DEF Carried
    <3>7. QED
      BY <3>3, <3>4, <3>5, <3>6 DEF Carried
  <2>4. QED
    BY <2>2, <2>3 DEF Framed
<1>9. QED
  BY <1>6, <1>7, <1>8 DEF IInv

LEMMA readDgramStep ==
    ASSUME IInv, readDgram
    PROVE  IInv'
<1>1. TypeOK /\ Whole /\ phase = "idle" /\ phase' = "header" /\ rRet' = 0
  BY DEF IInv, readDgram
<1>2. UNCHANGED <<link, sock, out, wRet, payload, sent, got, bogus>>
  BY DEF readDgram, writing, history
<1>3. bbuff' \in Headers
  <2>1. bbuff \in Headers
    BY <1>1 DEF Whole
  <2>2. 0 \in Types /\ 0 \in 0 .. MaxPayload /\ MaxPayload \in 0 .. MaxPayload
    BY FramingAssumption
  <2>3. bbuff' = bbuff \/ bbuff' = Header(0, 0) \/ bbuff' = Header(0, MaxPayload)
    BY DEF readDgram
  <2>4. QED
    BY <2>1, <2>2, <2>3 DEF Headers
<1>4. bbuff' \in [1 .. HEADER_SIZE -> Cells]
  BY <1>3, HeaderFacts DEF Headers
<1>5. TypeOK'
  <2>1. rRet' \in 0 .. SizeMax
    BY <1>1, FramingAssumption
  <2>2. QED
    BY <1>1, <1>2, <1>4, <2>1 DEF TypeOK
<1>6. Whole'
  <2>1. Reading'
    BY <1>1 DEF Reading, Asked, HEADER_SIZE
  <2>2. rRet' <= HEADER_SIZE
    BY <1>1 DEF HEADER_SIZE
  <2>3. QED
    BY <1>1, <1>2, <1>3, <2>1, <2>2 DEF Whole, Over
<1>7. link' # "failed" => Framed'
  <2> SUFFICES ASSUME link' # "failed" PROVE Framed'
    OBVIOUS
  <2>1. PICK S, st : Laid(S, st) /\ Carried(S, st) /\ Taken(S, st)
    BY <1>2 DEF IInv, Framed
  <2>2. At(st)' = At(st)
    BY <1>1, <1>2 DEF At, Here, Consumed
  <2>3. Laid(S, st)'
    BY <1>2, <2>1 DEF Laid
  <2>4. Carried(S, st)'
    BY <1>2, <2>1, <2>2 DEF Carried
  <2>5. Taken(S, st)'
    <3>1. \A i \in 1 .. rRet' : FALSE
      BY <1>1
    <3>2. QED
      BY <1>1, <3>1 DEF Taken
  <2>6. QED
    BY <2>3, <2>4, <2>5 DEF Framed
<1>8. QED
  BY <1>5, <1>6, <1>7 DEF IInv

LEMMA ReadFailsStep ==
    ASSUME IInv, ReadFails
    PROVE  IInv'
<1>1. /\ TypeOK /\ Whole /\ Reading /\ link = "reset" /\ sock = <<>>
      /\ link' = "failed" /\ rRet' = (rRet + SizeMax) % (SizeMax + 1)
  BY DEF IInv, ReadFails
<1>2. UNCHANGED <<sock, out, wRet, phase, bbuff, payload, sent, got, bogus>>
  BY DEF ReadFails, writing, history
<1>3. /\ rRet \in 0 .. SizeMax /\ rRet \in Nat /\ SizeMax \in Nat /\ SizeMax > 0
      /\ Len(payload) \in Nat
  BY <1>1, Shapes, FramingAssumption DEF HEADER_SIZE
<1>4. rRet' = IF rRet = 0 THEN SizeMax ELSE rRet - 1
  BY <1>1, <1>3, Backwards
<1>5. TypeOK'
  <2>1. rRet' \in 0 .. SizeMax
    BY <1>3, <1>4
  <2>2. QED
    BY <1>1, <1>2, <2>1 DEF TypeOK
<1>6. Whole'
  <2>1. /\ phase' # "header" => bbuff' \in Headers
        /\ phase' = "payload" => payload' # <<>>
        /\ sock' = <<>> /\ ~bogus'
    BY <1>1, <1>2 DEF Whole
  <2>2. ASSUME Over', phase' = "header" PROVE bbuff' \in Headers
    <3>1. rRet < HEADER_SIZE
      BY <1>1, <1>2, <2>2 DEF Reading, Asked
    <3>2. ~(rRet' < HEADER_SIZE)
      BY <2>2 DEF Over, Reading, Asked
    <3>3. rRet = 0
      BY <1>3, <1>4, <3>1, <3>2 DEF HEADER_SIZE
    <3>4. QED
      BY <1>1, <1>2, <2>2, <3>3 DEF Whole
  <2>3. QED
    BY <1>1, <2>1, <2>2 DEF Whole
<1>7. QED
  BY <1>1, <1>5, <1>6 DEF IInv

(* b cells of a sequence, after the first a.                               *)
LEMMA SliceFacts ==
    ASSUME NEW s \in Seq(Cells), NEW a \in Nat, NEW b \in Nat, a + b <= Len(s)
    PROVE  LET part == SubSeq(s, a + 1, a + b)
           IN  /\ part \in Seq(Cells) /\ Len(part) = b
               /\ \A j \in 1 .. b : part[j] = s[a + j]
<1> DEFINE part == SubSeq(s, a + 1, a + b)
<1>1. a + 1 \in Int /\ a + b \in Int /\ Len(s) \in Nat
  OBVIOUS
<1>2. \A i \in a + 1 .. a + b : s[i] \in Cells
  <2>1. \A i \in a + 1 .. a + b : i \in 1 .. Len(s)
    BY <1>1
  <2>2. QED
    BY <2>1
<1>3. /\ part \in Seq(Cells)
      /\ Len(part) = IF a + 1 <= a + b THEN (a + b) - (a + 1) + 1 ELSE 0
      /\ \A i \in 1 .. (a + b) - (a + 1) + 1 : part[i] = s[(a + 1) + i - 1]
  <2>1. PICK m, n : m = a + 1 /\ n = a + b
    OBVIOUS
  <2>2. m \in Int /\ n \in Int /\ \A i \in m .. n : s[i] \in Cells
    BY <1>1, <1>2, <2>1
  <2>3. /\ SubSeq(s, m, n) \in Seq(Cells)
        /\ Len(SubSeq(s, m, n)) = IF m <= n THEN n - m + 1 ELSE 0
        /\ \A i \in 1 .. n - m + 1 : SubSeq(s, m, n)[i] = s[m + i - 1]
    BY <2>2, SubSeqProperties
  <2>4. QED
    BY <2>1, <2>3, Zenon
<1> HIDE DEF part
<1>4. (a + b) - (a + 1) + 1 = b /\ (a + 1 <= a + b <=> b # 0)
  OBVIOUS
<1>5. Len(part) = b
  BY <1>3, <1>4
<1>6. \A j \in 1 .. b : part[j] = s[a + j]
  <2>1. \A j \in 1 .. b : (a + 1) + j - 1 = a + j
    OBVIOUS
  <2>2. QED
    BY <1>3, <1>4, <2>1
<1>7. QED
  BY <1>3, <1>5, <1>6 DEF part

LEMMA WriteStep ==
    ASSUME IInv, NEW b \in 1 .. SocketBuffer, Write(b)
    PROVE  IInv'
<1>1. /\ TypeOK /\ Whole /\ Framed /\ link = "open" /\ b \in Nat
      /\ b <= Len(out) - wRet /\ Len(sock) + b <= SocketBuffer
      /\ sock' = sock \o SubSeq(out, wRet + 1, wRet + b)
      /\ wRet' = wRet + b
  BY FramingAssumption DEF IInv, Write
<1>2. UNCHANGED <<link, out, phase, bbuff, payload, rRet, sent, got, bogus>>
  BY DEF Write, reading, history
<1>3. /\ sock \in Seq(Cells) /\ Len(sock) \in Nat
      /\ out \in Seq(Cells) /\ Len(out) \in Nat /\ wRet \in 0 .. Len(out)
  BY <1>1, Shapes
<1>4. PICK part : part = SubSeq(out, wRet + 1, wRet + b)
  OBVIOUS
<1>5. /\ part \in Seq(Cells) /\ Len(part) = b
      /\ \A j \in 1 .. b : part[j] = out[wRet + j]
  <2>1. wRet \in Nat /\ wRet + b <= Len(out)
    BY <1>1, <1>3
  <2>2. QED
    BY <1>1, <1>3, <1>4, <2>1, SliceFacts
<1>6. /\ sock' \in Seq(Cells) /\ Len(sock') = Len(sock) + b
      /\ \A i \in 1 .. Len(sock) + b :
            sock'[i] = IF i <= Len(sock) THEN sock[i] ELSE part[i - Len(sock)]
  <2>1. /\ sock \o part \in Seq(Cells)
        /\ Len(sock \o part) = Len(sock) + Len(part)
        /\ \A i \in 1 .. Len(sock) + Len(part) :
              (sock \o part)[i] =
                 IF i <= Len(sock) THEN sock[i] ELSE part[i - Len(sock)]
    BY <1>3, <1>5, ConcatProperties
  <2>2. sock' = sock \o part /\ Len(part) = b
    BY <1>1, <1>4, <1>5
  <2>3. QED
    BY <2>1, <2>2, Zenon
<1>7. TypeOK'
  <2>1. Len(sock') <= SocketBuffer /\ wRet' \in 0 .. Len(out')
    BY <1>1, <1>2, <1>3, <1>6
  <2>2. QED
    BY <1>1, <1>2, <1>6, <2>1 DEF TypeOK
<1>8. Whole'
  BY <1>1, <1>2 DEF Whole
<1>9. Framed'
  <2>1. PICK S, st : Laid(S, st) /\ Carried(S, st) /\ Taken(S, st)
    BY <1>1 DEF Framed
  <2>2. Laid(S, st)' /\ Taken(S, st)'
    BY <1>2, <2>1 DEF Laid, Taken, Here
  <2>3. At(st)' = At(st)
    BY <1>2 DEF At, Here, Consumed
  <2>4. /\ At(st) \in Nat /\ Len(S) \in Nat
        /\ At(st) + Len(sock) = Len(S) - Len(out) + wRet
    BY <1>1, <2>1, Places DEF Carried
  <2>4a. /\ \A i \in 1 .. Len(sock) : sock[i] = S[At(st) + i]
        /\ \A i \in 1 .. Len(out) : out[i] = S[Len(S) - Len(out) + i]
    BY <2>1 DEF Carried
  <2>4b. /\ Len(sock') = Len(sock) + b /\ Len(sock) \in Nat /\ b \in Nat
        /\ Len(out) \in Nat /\ wRet \in Nat /\ wRet' = wRet + b
        /\ b <= Len(out) - wRet
    BY <1>1, <1>3, <1>6
  <2>5. At(st)' + Len(sock') = Len(S) - Len(out) + wRet'
    BY <2>3, <2>4, <2>4b
  <2>6. At(st)' + Len(sock') <= Len(S)
    BY <2>3, <2>4, <2>4b
  <2>7. ASSUME NEW i \in 1 .. Len(sock') PROVE sock'[i] = S[At(st)' + i]
    <3>0. i \in 1 .. Len(sock) + b
      BY <2>4b
    <3>1. CASE i <= Len(sock)
      <4>1. i \in 1 .. Len(sock)
        BY <2>4b, <3>0, <3>1
      <4>2. sock'[i] = sock[i]
        BY <1>6, <3>0, <3>1
      <4>3. QED
        BY <2>3, <2>4a, <4>1, <4>2
    <3>2. CASE i > Len(sock)
      <4>1. i - Len(sock) \in 1 .. b /\ wRet + (i - Len(sock)) \in 1 .. Len(out)
        BY <2>4b, <3>0, <3>2
      <4>2. sock'[i] = part[i - Len(sock)]
        <5>1. ~(i <= Len(sock))
          BY <2>4b, <3>0, <3>2
        <5>2. QED
          BY <1>6, <3>0, <5>1
      <4>3. sock'[i] = out[wRet + (i - Len(sock))]
        BY <1>5, <4>1, <4>2
      <4>4. sock'[i] = S[Len(S) - Len(out) + (wRet + (i - Len(sock)))]
        BY <2>4a, <4>1, <4>3
      <4>5. Len(S) - Len(out) + (wRet + (i - Len(sock))) = At(st)' + i
        BY <2>3, <2>4, <2>4b, <3>0, SMTT(30)
      <4>6. QED
        BY <4>4, <4>5, Zenon
    <3>3. QED
      BY <2>4b, <3>0, <3>1, <3>2
  <2>8. /\ Len(got') <= Len(sent') /\ Len(out') <= Len(S)
        /\ \A i \in 1 .. Len(out') : out'[i] = S[Len(S) - Len(out') + i]
    BY <1>2, <2>1 DEF Carried
  <2>9. Carried(S, st)'
    BY <1>2, <2>5, <2>6, <2>7, <2>8 DEF Carried
  <2>10. QED
    BY <2>2, <2>9 DEF Framed
<1>10. QED
  BY <1>7, <1>8, <1>9 DEF IInv

LEMMA writeDgramStep ==
    ASSUME IInv, NEW d \in Dgrams, writeDgram(d)
    PROVE  IInv'
<1>1. /\ TypeOK /\ Whole /\ Framed /\ link = "open" /\ wRet >= Len(out)
      /\ out' = dgram2bytes(d) /\ wRet' = 0 /\ sent' = Append(sent, d)
  BY DEF IInv, writeDgram, Written
<1>2. UNCHANGED <<link, sock, phase, bbuff, payload, rRet, got, bogus>>
  BY DEF writeDgram, reading
<1>3. /\ sock \in Seq(Cells) /\ Len(sock) \in Nat
      /\ Len(out) \in Nat /\ wRet \in 0 .. Len(out)
      /\ sent \in Seq(Dgrams) /\ Len(sent) \in Nat
      /\ got \in Seq(Dgrams) /\ Len(got) \in Nat /\ rRet \in Nat
  BY <1>1, Shapes
<1>4. PICK b : b = dgram2bytes(d)
  OBVIOUS
<1>5. /\ b \in Seq(Cells) /\ Len(b) \in Nat
      /\ Len(b) = HEADER_SIZE + Len(d.payload)
  BY <1>4, BytesFacts
<1>6. /\ sent' \in Seq(Dgrams) /\ Len(sent') = Len(sent) + 1
      /\ sent'[Len(sent) + 1] = d
      /\ \A k \in 1 .. Len(sent) : sent'[k] = sent[k]
  BY <1>1, <1>3
<1>7. TypeOK'
  <2>1. out' \in Seq(Cells) /\ wRet' \in 0 .. Len(out')
    BY <1>1, <1>4, <1>5
  <2>2. QED
    BY <1>1, <1>2, <1>6, <2>1 DEF TypeOK
<1>8. Whole'
  BY <1>1, <1>2 DEF Whole
<1>9. Framed'
  <2>1. PICK S, st : Laid(S, st) /\ Carried(S, st) /\ Taken(S, st)
    BY <1>1 DEF Framed
  <2>2. PICK S2 : S2 = S \o b
    OBVIOUS
  <2>3. PICK n : n = Len(sent) + 1
    OBVIOUS
  <2>4. PICK st2 : st2 = [k \in 1 .. n + 1 |->
                            IF k <= n THEN st[k] ELSE Len(S) + Len(b)]
    OBVIOUS
  <2>5. S \in Seq(Cells) /\ Len(S) \in Nat
    BY <1>1, <2>1, Places
  <2>6. n \in Nat /\ n >= 1 /\ Len(sent') = n
    BY <1>3, <1>6, <2>3
  <2>7. /\ S2 \in Seq(Cells) /\ Len(S2) = Len(S) + Len(b)
        /\ \A i \in 1 .. Len(S) : S2[i] = S[i]
        /\ \A i \in 1 .. Len(b) : S2[Len(S) + i] = b[i]
    <3>1. /\ S2 \in Seq(Cells) /\ Len(S2) = Len(S) + Len(b)
          /\ \A i \in 1 .. Len(S) + Len(b) :
                S2[i] = IF i <= Len(S) THEN S[i] ELSE b[i - Len(S)]
      <4>1. /\ S \o b \in Seq(Cells) /\ Len(S \o b) = Len(S) + Len(b)
            /\ \A i \in 1 .. Len(S) + Len(b) :
                  (S \o b)[i] = IF i <= Len(S) THEN S[i] ELSE b[i - Len(S)]
        BY <1>5, <2>5, ConcatProperties
      <4>2. QED
        BY <2>2, <4>1, Zenon
    <3>2. \A i \in 1 .. Len(S) : i \in 1 .. Len(S) + Len(b) /\ i <= Len(S)
      BY <1>5, <2>5
    <3>3. \A i \in 1 .. Len(b) : /\ Len(S) + i \in 1 .. Len(S) + Len(b)
                                 /\ ~(Len(S) + i <= Len(S))
                                 /\ Len(S) + i - Len(S) = i
      BY <1>5, <2>5
    <3>4. QED
      BY <3>1, <3>2, <3>3
  <2>8. /\ \A k \in 1 .. n : st2[k] = st[k]
        /\ st2[n + 1] = Len(S2)
    BY <2>4, <2>6, <2>7
  <2>9. /\ \A k \in 1 .. n : st[k] \in 0 .. Len(S)
        /\ st[n] = Len(S)
    BY <2>1, <2>3 DEF Laid
  <2>10. Laid(S2, st2)'
    <3>1. \A k \in 1 .. Len(sent') + 1 : st2[k] \in 0 .. Len(S2)
      <4>1. Len(S) <= Len(S2) /\ Len(S2) \in Nat
        BY <1>5, <2>5, <2>7
      <4>2. /\ \A k \in 1 .. n : st2[k] \in 0 .. Len(S)
            /\ st2[n + 1] \in 0 .. Len(S2)
        BY <2>8, <2>9, <4>1
      <4>3. \A k \in 1 .. n + 1 : k \in 1 .. n \/ k = n + 1
        BY <2>6
      <4>4. \A k \in 1 .. n + 1 : st2[k] \in 0 .. Len(S2)
        BY <2>5, <4>1, <4>2, <4>3
      <4>5. QED
        BY <2>6, <4>4
    <3>2. st2[Len(sent') + 1] = Len(S2)
      BY <2>6, <2>8
    <3>3. ASSUME NEW k \in 1 .. Len(sent')
          PROVE  /\ st2[k + 1] = st2[k] + HEADER_SIZE + Len(sent'[k].payload)
                 /\ \A i \in 1 .. HEADER_SIZE + Len(sent'[k].payload) :
                       S2[st2[k] + i] = dgram2bytes(sent'[k])[i]
      <4>1. CASE k = n
        <5>1. sent'[k] = d
          BY <1>6, <2>3, <4>1
        <5>2. st2[k] = Len(S) /\ st2[k + 1] = Len(S) + Len(b)
          BY <2>6, <2>7, <2>8, <2>9, <4>1
        <5>3. \A i \in 1 .. Len(b) : S2[st2[k] + i] = b[i]
          BY <2>7, <5>2
        <5>4. Len(sent'[k].payload) = Len(d.payload)
              /\ dgram2bytes(sent'[k]) = b
          BY <1>4, <5>1
        <5>5. st2[k] + HEADER_SIZE + Len(d.payload) = Len(S) + Len(b)
          <6>1. Len(d.payload) \in Nat
            BY BytesFacts
          <6>2. st2[k] = Len(S) /\ Len(b) = 3 + Len(d.payload)
            BY <1>5, <5>2 DEF HEADER_SIZE
          <6>3. \A s, l \in Nat : s + 3 + l = s + (3 + l)
            OBVIOUS
          <6>4. Len(S) + 3 + Len(d.payload) = Len(S) + (3 + Len(d.payload))
            BY <2>5, <6>1, <6>3
          <6>5. QED
            BY <6>2, <6>4, Zenon DEF HEADER_SIZE
        <5>6. QED
          BY <1>5, <5>2, <5>3, <5>4, <5>5
      <4>2. CASE k # n
        <5>1. k \in 1 .. Len(sent) /\ k \in 1 .. n /\ k + 1 \in 1 .. n
          BY <1>3, <2>3, <2>6, <4>2
        <5>2. PICK c : c = sent[k]
          OBVIOUS
        <5>3. sent'[k] = c /\ c \in Dgrams
          BY <1>3, <1>6, <5>1, <5>2
        <5>4. Len(c.payload) \in Nat
          BY <5>3, BytesFacts
        <5>5. /\ st[k + 1] = st[k] + HEADER_SIZE + Len(c.payload)
              /\ \A i \in 1 .. HEADER_SIZE + Len(c.payload) :
                    S[st[k] + i] = dgram2bytes(c)[i]
          BY <2>1, <5>1, <5>2 DEF Laid
        <5>6. /\ st2[k] = st[k] /\ st2[k + 1] = st[k + 1]
              /\ st[k] \in 0 .. Len(S) /\ st[k + 1] \in 0 .. Len(S)
          BY <2>8, <2>9, <5>1
        <5>7. \A i \in 1 .. HEADER_SIZE + Len(c.payload) :
                 st[k] + i \in 1 .. Len(S)
          <6>1. /\ st[k + 1] = st[k] + 3 + Len(c.payload)
                /\ st[k] \in Nat /\ st[k + 1] <= Len(S)
            BY <2>5, <5>5, <5>6 DEF HEADER_SIZE
          <6>2. \A i \in 1 .. 3 + Len(c.payload) : st[k] + i \in 1 .. Len(S)
            <7>1. \A x, l, m \in Nat : x + 3 + l <= m =>
                     \A i \in 1 .. 3 + l : x + i \in 1 .. m
              OBVIOUS
            <7>2. st[k] + 3 + Len(c.payload) <= Len(S)
              BY <6>1
            <7>3. QED
              BY <2>5, <5>4, <6>1, <7>1, <7>2, Zenon
          <6>3. QED
            BY <6>2 DEF HEADER_SIZE
        <5>8. \A i \in 1 .. HEADER_SIZE + Len(c.payload) :
                 S2[st2[k] + i] = dgram2bytes(c)[i]
          BY <2>7, <5>5, <5>6, <5>7
        <5>9. QED
          BY <5>3, <5>5, <5>6, <5>8
      <4>3. QED
        BY <4>1, <4>2
    <3>4. QED
      BY <2>7, <3>1, <3>2, <3>3 DEF Laid
  <2>11. /\ Len(got) <= Len(sent) /\ Len(got) + 1 \in 1 .. n
    BY <1>3, <2>1, <2>3 DEF Carried
  <2>12. Here(st2)' = Here(st) /\ At(st2)' = At(st)
    <3>1. Here(st2)' = Here(st)
      BY <1>2, <2>8, <2>11 DEF Here
    <3>2. Consumed' = Consumed
      BY <1>2 DEF Consumed
    <3>3. QED
      BY <3>1, <3>2 DEF At
  <2>13. /\ Here(st) \in Nat /\ At(st) \in Nat /\ At(st) <= Len(S)
         /\ At(st) = Here(st) + Consumed
         /\ phase = "header" => Consumed = rRet
         /\ phase = "payload" => Consumed = HEADER_SIZE + rRet
    BY <1>1, <2>1, Places
  <2>14. Carried(S2, st2)'
    <3>1. /\ Len(got') <= Len(sent') /\ Len(out') = Len(b) /\ out' = b
      BY <1>1, <1>2, <1>3, <1>4, <2>3, <2>6, <2>11
    <3>2. Len(out') <= Len(S2) /\ Len(S2) - Len(out') = Len(S)
      BY <1>5, <2>5, <2>7, <3>1
    <3>3. \A i \in 1 .. Len(out') : out'[i] = S2[Len(S2) - Len(out') + i]
      BY <2>7, <3>1, <3>2
    <3>4. At(st) + Len(sock) = Len(S)
      <4>1. At(st) + Len(sock) = Len(S) - Len(out) + wRet /\ wRet = Len(out)
        BY <1>1, <1>3, <2>1 DEF Carried
      <4>2. QED
        BY <1>3, <2>5, <4>1
    <3>5. At(st2)' + Len(sock') = Len(S2) - Len(out') + wRet'
      <4>1. wRet' = 0 /\ Len(sock') = Len(sock) /\ At(st2)' = At(st)
        BY <1>1, <1>2, <2>12
      <4>2. QED
        BY <2>5, <3>2, <3>4, <4>1
    <3>6. At(st2)' + Len(sock') <= Len(S2)
      BY <1>2, <1>5, <2>5, <2>7, <2>12, <3>4
    <3>7. \A i \in 1 .. Len(sock') : sock'[i] = S2[At(st2)' + i]
      <4>1. \A i \in 1 .. Len(sock) : At(st) + i \in 1 .. Len(S)
        BY <1>3, <2>5, <2>13, <3>4
      <4>2. \A i \in 1 .. Len(sock) : sock[i] = S[At(st) + i]
        BY <2>1 DEF Carried
      <4>3. QED
        BY <1>2, <2>7, <2>12, <4>1, <4>2
    <3>8. QED
      BY <3>1, <3>2, <3>3, <3>5, <3>6, <3>7 DEF Carried
  <2>15. Taken(S2, st2)'
    <3>1. ASSUME phase = "header"
          PROVE  \A i \in 1 .. rRet : bbuff[i] = S2[Here(st) + i]
      <4>1. \A i \in 1 .. rRet : Here(st) + i \in 1 .. Len(S)
        BY <1>3, <2>5, <2>13, <3>1
      <4>2. QED
        BY <2>1, <2>7, <3>1, <4>1 DEF Taken
    <3>2. ASSUME phase = "payload"
          PROVE  /\ Len(got) < Len(sent)
                 /\ bbuff[1] = sent[Len(got) + 1].type
                 /\ Len(payload) = Len(sent[Len(got) + 1].payload)
                 /\ \A i \in 1 .. rRet :
                       payload[i] = S2[Here(st) + HEADER_SIZE + i]
      <4>1. \A i \in 1 .. rRet : Here(st) + HEADER_SIZE + i \in 1 .. Len(S)
        BY <1>3, <2>5, <2>13, <3>2 DEF HEADER_SIZE
      <4>2. QED
        BY <2>1, <2>7, <3>2, <4>1 DEF Taken
    <3>3. phase = "payload" => /\ Len(got) < Len(sent')
                               /\ sent'[Len(got) + 1] = sent[Len(got) + 1]
      <4>1. phase = "payload" => Len(got) + 1 \in 1 .. Len(sent)
        BY <1>3, <3>2
      <4>2. QED
        BY <1>3, <1>6, <2>3, <2>6, <4>1
    <3>4. QED
      BY <1>2, <2>12, <3>1, <3>2, <3>3 DEF Taken
  <2>16. QED
    BY <2>10, <2>14, <2>15 DEF Framed
<1>10. QED
  BY <1>7, <1>8, <1>9 DEF IInv

(* What b more bytes do to a buffer.                                       *)
LEMMA Filling ==
    ASSUME NEW n \in Nat, NEW buf \in [1 .. n -> Cells], NEW b \in Nat,
           sock \in Seq(Cells), b <= Len(sock),
           rRet \in Nat, rRet + b <= n
    PROVE  /\ Len(buf) = n /\ Len(Filled(buf, b)) = n
           /\ Filled(buf, b) \in [1 .. n -> Cells]
           /\ \A i \in 1 .. rRet : Filled(buf, b)[i] = buf[i]
           /\ \A i \in 1 .. b : Filled(buf, b)[rRet + i] = sock[i]
<1> DEFINE f == Filled(buf, b)
<1>1. Len(buf) = n
  OBVIOUS
<1>2. f = [i \in 1 .. n |->
             IF i \in rRet + 1 .. rRet + b THEN sock[i - rRet] ELSE buf[i]]
  BY <1>1 DEF Filled
<1> HIDE DEF f
<1>3. ASSUME NEW i \in 1 .. n PROVE f[i] \in Cells
  <2>1. CASE i \in rRet + 1 .. rRet + b
    <3>1. i - rRet \in 1 .. Len(sock)
      BY <2>1
    <3>2. QED
      BY <1>2, <2>1, <3>1
  <2>2. CASE i \notin rRet + 1 .. rRet + b
    BY <1>2, <2>2
  <2>3. QED
    BY <2>1, <2>2
<1>4. f \in [1 .. n -> Cells]
  <2>1. f = [i \in 1 .. n |-> f[i]]
    BY <1>2
  <2>2. QED
    BY <1>3, <2>1
<1>5. Len(f) = n
  BY <1>4
<1>6. \A i \in 1 .. rRet : f[i] = buf[i]
  <2>1. \A i \in 1 .. rRet : i \in 1 .. n /\ i \notin rRet + 1 .. rRet + b
    OBVIOUS
  <2>2. QED
    BY <1>2, <2>1
<1>7. \A i \in 1 .. b : f[rRet + i] = sock[i]
  <2>1. \A i \in 1 .. b : /\ rRet + i \in 1 .. n
                          /\ rRet + i \in rRet + 1 .. rRet + b
                          /\ rRet + i - rRet = i
    OBVIOUS
  <2>2. QED
    BY <1>2, <2>1
<1>8. QED
  BY <1>1, <1>4, <1>5, <1>6, <1>7 DEF f

(* The part of reading b bytes that does not depend on where they go.      *)
LEMMA ReadCommon ==
    ASSUME IInv, NEW b \in 1 .. SocketBuffer, Read(b)
    PROVE  /\ TypeOK /\ Whole /\ link # "failed" /\ Framed /\ phase # "idle"
           /\ b \in Nat /\ b > 0 /\ b <= Len(sock) /\ rRet + b <= Asked
           /\ Asked <= SizeMax /\ rRet + b \in 0 .. SizeMax
           /\ rRet' = rRet + b
           /\ sock' \in Seq(Cells) /\ Len(sock') = Len(sock) - b
           /\ Len(sock') <= SocketBuffer
           /\ \A i \in 1 .. Len(sock') :
                 b + i \in 1 .. Len(sock) /\ sock'[i] = sock[b + i]
           /\ UNCHANGED <<link, out, wRet, phase, sent, got, bogus>>
<1>1. TypeOK /\ Whole /\ phase # "idle" /\ rRet < Asked
  BY DEF IInv, Read, Reading
<1>2. /\ b \in Nat /\ b > 0 /\ b <= Len(sock) /\ b <= Asked - rRet
      /\ rRet' = rRet + b /\ sock' = SubSeq(sock, b + 1, Len(sock))
  BY FramingAssumption DEF Read
<1>3. UNCHANGED <<link, out, wRet, phase, sent, got, bogus>>
  BY DEF Read, writing, history
<1>4. /\ sock \in Seq(Cells) /\ Len(sock) \in Nat /\ rRet \in Nat
      /\ Len(payload) \in 0 .. MaxPayload /\ MaxPayload \in Nat
      /\ SizeMax \in Nat /\ SizeMax > 3 + MaxPayload
  BY <1>1, Shapes DEF HEADER_SIZE
<1>5. Len(sock) <= SocketBuffer /\ SocketBuffer \in Nat
  BY <1>1, FramingAssumption DEF TypeOK
<1>6. link # "failed"
  <2>1. sock # <<>>
    BY <1>2
  <2>2. QED
    BY <1>1, <2>1 DEF Whole
<1>7. Asked \in Nat /\ Asked <= SizeMax
  BY <1>4 DEF Asked, HEADER_SIZE
<1>8. rRet + b <= Asked /\ rRet + b \in 0 .. SizeMax
  BY <1>2, <1>4, <1>7
<1>9. /\ sock' \in Seq(Cells) /\ Len(sock') = Len(sock) - b
      /\ \A i \in 1 .. Len(sock') : sock'[i] = sock[b + i]
  <2>1. b + 1 \in 1 .. Len(sock) + 1 /\ Len(sock) \in b .. Len(sock)
    BY <1>2, <1>4
  <2>2. /\ sock' \in Seq(Cells) /\ Len(sock') = Len(sock) - (b + 1) + 1
        /\ \A i \in 1 .. Len(sock) - (b + 1) + 1 : sock'[i] = sock[b + 1 + i - 1]
    BY <1>2, <1>4, <2>1, SubSeqProperties
  <2>3. Len(sock) - (b + 1) + 1 = Len(sock) - b
    BY <1>2, <1>4
  <2>4. \A i \in 1 .. Len(sock) - b : b + 1 + i - 1 = b + i
    BY <1>2, <1>4
  <2>5. QED
    BY <2>2, <2>3, <2>4
<1>10. \A i \in 1 .. Len(sock') : b + i \in 1 .. Len(sock)
  BY <1>2, <1>4, <1>9
<1>11. Len(sock') <= SocketBuffer
  BY <1>2, <1>4, <1>5, <1>9, SMTT(30)
<1>12. QED
  BY <1>1, <1>2, <1>3, <1>6, <1>7, <1>8, <1>9, <1>10, <1>11 DEF IInv

(* The frame moves on by b bytes.                                          *)
LEMMA ReadFrame ==
    ASSUME IInv, NEW b \in 1 .. SocketBuffer, Read(b),
           NEW S, NEW st, Laid(S, st), Carried(S, st)
    PROVE  /\ Laid(S, st)' /\ Carried(S, st)' /\ Here(st)' = Here(st)
           /\ At(st) = Here(st) + Consumed /\ Here(st) \in Nat
           /\ \A i \in 1 .. b : sock[i] = S[At(st) + i]
<1>1. /\ TypeOK /\ phase # "idle"
      /\ b \in Nat /\ b <= Len(sock) /\ rRet' = rRet + b
      /\ Len(sock') = Len(sock) - b
      /\ UNCHANGED <<link, out, wRet, phase, sent, got, bogus>>
  BY ReadCommon
<1>2. \A i \in 1 .. Len(sock') :
         b + i \in 1 .. Len(sock) /\ sock'[i] = sock[b + i]
  BY ReadCommon
<1>3. Len(sock) \in Nat /\ rRet \in Nat
  BY <1>1, Shapes
<1>4. /\ Here(st) \in Nat /\ At(st) \in Nat /\ Len(S) \in Nat
      /\ At(st) = Here(st) + Consumed
  BY <1>1, Places
<1>5. Here(st)' = Here(st)
  BY <1>1 DEF Here
<1>6. Consumed \in Nat /\ Consumed' = Consumed + b
  BY <1>1, <1>3 DEF Consumed, HEADER_SIZE
<1>7. At(st)' = At(st) + b
  <2>1. At(st)' = Here(st)' + Consumed'
    BY DEF At
  <2>2. QED
    BY <1>1, <1>4, <1>5, <1>6, <2>1
<1>8. Laid(S, st)'
  BY <1>1 DEF Laid
<1>9. \A i \in 1 .. Len(sock) : sock[i] = S[At(st) + i]
  BY DEF Carried
<1>10. Carried(S, st)'
  <2>1. At(st)' + Len(sock') = At(st) + Len(sock)
    BY <1>1, <1>3, <1>4, <1>7
  <2>2. ASSUME NEW i \in 1 .. Len(sock') PROVE sock'[i] = S[At(st)' + i]
    <3>1. sock'[i] = S[At(st) + (b + i)]
      BY <1>2, <1>9
    <3>2. At(st) + (b + i) = At(st)' + i
      <4>1. Len(sock') \in Nat /\ i \in Nat
        BY <1>1, <1>3
      <4>2. QED
        BY <1>1, <1>4, <1>7, <4>1
    <3>3. QED
      BY <3>1, <3>2, Zenon
  <2>3. /\ Len(got) <= Len(sent) /\ Len(out) <= Len(S)
        /\ \A i \in 1 .. Len(out) : out[i] = S[Len(S) - Len(out) + i]
        /\ At(st) + Len(sock) <= Len(S)
        /\ link = "open" => At(st) + Len(sock) = Len(S) - Len(out) + wRet
    BY DEF Carried
  <2>4. QED
    BY <1>1, <2>1, <2>2, <2>3 DEF Carried
<1>11. \A i \in 1 .. b : sock[i] = S[At(st) + i]
  <2>1. \A i \in 1 .. b : i \in 1 .. Len(sock)
    BY <1>1, <1>3
  <2>2. QED
    BY <1>9, <2>1
<1>12. QED
  BY <1>4, <1>5, <1>8, <1>10, <1>11

LEMMA ReadHeaderStep ==
    ASSUME IInv, NEW b \in 1 .. SocketBuffer, Read(b), phase = "header"
    PROVE  IInv'
<1>1. /\ TypeOK /\ Whole /\ link # "failed" /\ Framed
      /\ b \in Nat /\ b > 0 /\ b <= Len(sock) /\ rRet + b <= HEADER_SIZE
      /\ rRet + b \in 0 .. SizeMax /\ rRet' = rRet + b
      /\ sock' \in Seq(Cells) /\ Len(sock') <= SocketBuffer
      /\ UNCHANGED <<link, out, wRet, phase, sent, got, bogus>>
  BY ReadCommon DEF Asked
<1>2. bbuff' = Filled(bbuff, b) /\ payload' = payload
  BY DEF Read
<1>3. /\ bbuff \in [1 .. HEADER_SIZE -> Cells] /\ HEADER_SIZE \in Nat
      /\ sock \in Seq(Cells) /\ rRet \in Nat
  BY <1>1, Shapes DEF HEADER_SIZE
<1>4. /\ bbuff' \in [1 .. HEADER_SIZE -> Cells]
      /\ \A i \in 1 .. rRet : bbuff'[i] = bbuff[i]
      /\ \A i \in 1 .. b : bbuff'[rRet + i] = sock[i]
  <2>1. PICK n : n = HEADER_SIZE
    OBVIOUS
  <2>2. /\ Filled(bbuff, b) \in [1 .. n -> Cells]
        /\ \A i \in 1 .. rRet : Filled(bbuff, b)[i] = bbuff[i]
        /\ \A i \in 1 .. b : Filled(bbuff, b)[rRet + i] = sock[i]
    BY <1>1, <1>3, <2>1, Filling
  <2>3. QED
    BY <1>2, <2>1, <2>2, Zenon
<1>5. TypeOK'
  BY <1>1, <1>2, <1>4 DEF TypeOK
<1>6. Whole'
  <2>1. rRet' # 0 /\ rRet' <= HEADER_SIZE
    BY <1>1, <1>3
  <2>2. QED
    BY <1>1, <2>1 DEF Whole
<1>7. Framed'
  <2>1. PICK S, st : Laid(S, st) /\ Carried(S, st) /\ Taken(S, st)
    BY <1>1 DEF Framed
  <2>2. /\ Laid(S, st)' /\ Carried(S, st)' /\ Here(st)' = Here(st)
        /\ At(st) = Here(st) + Consumed /\ Here(st) \in Nat
        /\ \A i \in 1 .. b : sock[i] = S[At(st) + i]
    BY <2>1, ReadFrame
  <2>3. At(st) = Here(st) + rRet
    BY <2>2 DEF Consumed
  <2>4. ASSUME NEW i \in 1 .. rRet + b PROVE bbuff'[i] = S[Here(st) + i]
    <3>1. CASE i <= rRet
      <4>1. i \in 1 .. rRet
        BY <1>1, <1>3, <3>1
      <4>2. bbuff[i] = S[Here(st) + i]
        BY <2>1, <4>1 DEF Taken
      <4>3. QED
        BY <1>4, <4>1, <4>2
    <3>2. CASE i > rRet
      <4>1. PICK j : j = i - rRet
        OBVIOUS
      <4>2. j \in 1 .. b /\ i = rRet + j /\ j \in Int
        BY <1>1, <1>3, <3>2, <4>1
      <4>3. bbuff'[i] = S[At(st) + j]
        BY <1>4, <2>2, <4>2
      <4>4. At(st) + j = Here(st) + i
        BY <1>3, <2>2, <2>3, <4>2
      <4>5. QED
        BY <4>3, <4>4, Zenon
    <3>3. QED
      BY <1>1, <1>3, <3>1, <3>2
  <2>5. Taken(S, st)'
    BY <1>1, <2>2, <2>4 DEF Taken
  <2>6. QED
    BY <2>2, <2>5 DEF Framed
<1>8. QED
  BY <1>5, <1>6, <1>7 DEF IInv

LEMMA ReadPayloadStep ==
    ASSUME IInv, NEW b \in 1 .. SocketBuffer, Read(b), phase # "header"
    PROVE  IInv'
<1>1. /\ TypeOK /\ Whole /\ link # "failed" /\ Framed /\ phase = "payload"
      /\ b \in Nat /\ b > 0 /\ b <= Len(sock) /\ rRet + b <= Len(payload)
      /\ rRet + b \in 0 .. SizeMax /\ rRet' = rRet + b
      /\ sock' \in Seq(Cells) /\ Len(sock') <= SocketBuffer
      /\ UNCHANGED <<link, out, wRet, phase, sent, got, bogus>>
  BY ReadCommon, Shapes DEF Asked
<1>2. payload' = Filled(payload, b) /\ bbuff' = bbuff
  BY DEF Read
<1>3. PICK n : n = Len(payload)
  OBVIOUS
<1>4. /\ payload \in [1 .. n -> Cells] /\ n \in Nat /\ n <= MaxPayload
      /\ sock \in Seq(Cells) /\ rRet \in Nat
  BY <1>1, <1>3, Shapes, SMTT(30)
<1>5. /\ payload' \in [1 .. n -> Cells] /\ Len(payload') = n
      /\ \A i \in 1 .. rRet : payload'[i] = payload[i]
      /\ \A i \in 1 .. b : payload'[rRet + i] = sock[i]
  <2>1. /\ Filled(payload, b) \in [1 .. n -> Cells]
        /\ Len(Filled(payload, b)) = n
        /\ \A i \in 1 .. rRet : Filled(payload, b)[i] = payload[i]
        /\ \A i \in 1 .. b : Filled(payload, b)[rRet + i] = sock[i]
    BY <1>1, <1>3, <1>4, Filling, SMTT(30)
  <2>2. QED
    BY <1>2, <2>1, Zenon
<1>6. payload' \in Payloads
  <2>1. n \in 0 .. MaxPayload
    BY <1>4, FramingAssumption
  <2>2. QED
    BY <1>5, <2>1 DEF Payloads
<1>7. TypeOK'
  BY <1>1, <1>2, <1>6 DEF TypeOK
<1>8. Whole'
  <2>1. payload' # <<>> /\ rRet' <= Len(payload')
    BY <1>1, <1>3, <1>4, <1>5
  <2>2. QED
    BY <1>1, <1>2, <2>1 DEF Whole
<1>9. Framed'
  <2>1. PICK S, st : Laid(S, st) /\ Carried(S, st) /\ Taken(S, st)
    BY <1>1 DEF Framed
  <2>2. /\ Laid(S, st)' /\ Carried(S, st)' /\ Here(st)' = Here(st)
        /\ At(st) = Here(st) + Consumed /\ Here(st) \in Nat
        /\ \A i \in 1 .. b : sock[i] = S[At(st) + i]
    BY <2>1, ReadFrame
  <2>3. At(st) = Here(st) + (3 + rRet)
    BY <1>1, <2>2 DEF Consumed, HEADER_SIZE
  <2>4. ASSUME NEW i \in 1 .. rRet + b
        PROVE  payload'[i] = S[Here(st) + HEADER_SIZE + i]
    <3>1. CASE i <= rRet
      <4>1. i \in 1 .. rRet
        BY <1>1, <1>4, <3>1
      <4>2. payload[i] = S[Here(st) + HEADER_SIZE + i]
        BY <1>1, <2>1, <4>1 DEF Taken
      <4>3. QED
        BY <1>5, <4>1, <4>2
    <3>2. CASE i > rRet
      <4>1. PICK j : j = i - rRet
        OBVIOUS
      <4>2. j \in 1 .. b /\ i = rRet + j /\ j \in Int
        BY <1>1, <1>4, <3>2, <4>1
      <4>3. payload'[i] = S[At(st) + j]
        BY <1>5, <2>2, <4>2
      <4>4. At(st) + j = Here(st) + 3 + i
        BY <1>4, <2>2, <2>3, <4>2
      <4>5. QED
        BY <4>3, <4>4, Zenon DEF HEADER_SIZE
    <3>3. QED
      BY <1>1, <1>4, <3>1, <3>2
  <2>5. Taken(S, st)'
    <3>1. /\ Len(got) < Len(sent)
          /\ bbuff[1] = sent[Len(got) + 1].type
          /\ Len(payload) = Len(sent[Len(got) + 1].payload)
      BY <1>1, <2>1 DEF Taken
    <3>2. QED
      BY <1>1, <1>2, <1>3, <1>5, <2>2, <2>4, <3>1 DEF Taken
  <2>6. QED
    BY <2>2, <2>5 DEF Framed
<1>10. QED
  BY <1>7, <1>8, <1>9 DEF IInv

(* All of the next datagram of the stream has been read, and it is d.      *)
Complete(d) ==
    \E S, st :
        /\ Laid(S, st) /\ Carried(S, st)
        /\ Len(got) + 1 \in 1 .. Len(sent)
        /\ d = sent[Len(got) + 1]
        /\ Consumed = HEADER_SIZE + Len(d.payload)

LEMMA ReturnStep ==
    ASSUME IInv, Over, NEW d \in Dgrams, Return(d), payload' \in Payloads,
           link # "failed" => Complete(d)
    PROVE  IInv'
<1>1. TypeOK /\ Whole /\ phase' = "idle" /\ bogus' = (link = "failed")
      /\ got' = Append(got, d)
      /\ UNCHANGED <<link, sock, out, wRet, bbuff, rRet, sent>>
  BY DEF IInv, Return, writing
<1>2. /\ got \in Seq(Dgrams) /\ Len(got) \in Nat /\ Len(sent) \in Nat
      /\ Len(sock) \in Nat
  BY <1>1, Shapes
<1>3. got' \in Seq(Dgrams) /\ Len(got') = Len(got) + 1
  BY <1>1, <1>2
<1>4. bogus' \in BOOLEAN /\ (link # "failed" => ~bogus')
  BY <1>1
<1>5. TypeOK'
  BY <1>1, <1>3, <1>4 DEF TypeOK
<1>6. Whole'
  <2>1. bbuff' \in Headers
    BY <1>1, HeaderHeld
  <2>2. ~Over'
    BY <1>1 DEF Over
  <2>3. QED
    BY <1>1, <1>4, <2>1, <2>2 DEF Whole
<1>7. ASSUME link # "failed" PROVE Framed'
  <2>1. PICK S, st : /\ Laid(S, st) /\ Carried(S, st)
                     /\ Len(got) + 1 \in 1 .. Len(sent)
                     /\ d = sent[Len(got) + 1]
                     /\ Consumed = HEADER_SIZE + Len(d.payload)
    BY <1>7 DEF Complete
  <2>2. At(st)' = At(st)
    <3>1. Consumed' = 0
      BY <1>1 DEF Consumed
    <3>2. Len(got') + 1 = (Len(got) + 1) + 1
      BY <1>2, <1>3
    <3>3. st[(Len(got) + 1) + 1] = st[Len(got) + 1] + HEADER_SIZE + Len(d.payload)
      BY <2>1 DEF Laid
    <3>4. Here(st)' = Here(st) + HEADER_SIZE + Len(d.payload)
      BY <3>2, <3>3 DEF Here
    <3>5. Here(st) \in Nat /\ Len(d.payload) \in Nat
      BY <1>1, <2>1, Places, BytesFacts
    <3>6. At(st)' = Here(st)' + Consumed' /\ At(st) = Here(st) + Consumed
      BY DEF At
    <3>7. At(st)' = Here(st) + 3 + Len(d.payload) + 0
      BY <3>1, <3>4, <3>6 DEF HEADER_SIZE
    <3>8. At(st) = Here(st) + (3 + Len(d.payload))
      BY <2>1, <3>6 DEF HEADER_SIZE
    <3>9. QED
      BY <3>5, <3>7, <3>8
  <2>3. Laid(S, st)'
    BY <1>1, <2>1 DEF Laid
  <2>4. Carried(S, st)'
    <3>1. Len(got') <= Len(sent')
      BY <1>1, <1>2, <1>3, <2>1
    <3>2. QED
      BY <1>1, <2>1, <2>2, <3>1 DEF Carried
  <2>5. Taken(S, st)'
    BY <1>1 DEF Taken
  <2>6. QED
    BY <2>3, <2>4, <2>5 DEF Framed
<1>8. QED
  BY <1>1, <1>5, <1>6, <1>7 DEF IInv

(* What the members of Dgrams are made of.                                 *)
LEMMA DgramShape ==
    /\ \A d \in Dgrams : d = [type |-> d.type, payload |-> d.payload]
    /\ \A t \in Types, p \in Payloads : [type |-> t, payload |-> p] \in Dgrams
BY DEF Dgrams

(* A datagram with no payload is returned after its header.                *)
LEMMA EmptyReturned ==
    ASSUME IInv, phase = "header", ~Reading, payload_length(bbuff) = 0
    PROVE  LET d == [type |-> bbuff[1], payload |-> <<>>]
           IN  /\ d \in Dgrams
               /\ link # "failed" => Complete(d)
<1> DEFINE d == [type |-> bbuff[1], payload |-> <<>>]
<1>1. Over /\ TypeOK /\ Whole
  BY DEF Over, IInv
<1>2. bbuff \in Headers /\ bbuff[1] \in Types
  BY <1>1, HeaderHeld, HeaderRanges
<1>3. <<>> \in Payloads
  <2>1. /\ <<>> \in Seq(Cells) /\ Len(<<>>) = 0
    OBVIOUS
  <2>2. Len(<<>>) <= MaxPayload
    BY <2>1, FramingAssumption
  <2>3. QED
    BY <2>1, <2>2, PayloadFacts
<1>4. d \in Dgrams
  BY <1>2, <1>3, DgramShape
<1>5. ASSUME link # "failed" PROVE Complete(d)
  <2>1. PICK S, st : Laid(S, st) /\ Carried(S, st) /\ Taken(S, st)
    BY <1>5 DEF IInv, Framed
  <2>2. LET e == sent[Len(got) + 1]
        IN  /\ rRet = HEADER_SIZE /\ Len(got) + 1 \in 1 .. Len(sent)
            /\ e \in Dgrams
            /\ bbuff = Header(e.type, Len(e.payload))
    BY <1>1, <1>5, <2>1, HeaderOf, Zenon
  <2>3. PICK e : e = sent[Len(got) + 1]
    OBVIOUS
  <2>4. /\ rRet = HEADER_SIZE /\ Len(got) + 1 \in 1 .. Len(sent)
        /\ e \in Dgrams /\ bbuff = Header(e.type, Len(e.payload))
    BY <2>2, <2>3
  <2>5. /\ e.type \in Types /\ Len(e.payload) \in 0 .. MaxPayload
        /\ e.payload \in Seq(Cells)
    BY <2>4, BytesFacts
  <2>6. bbuff[1] = e.type /\ payload_length(bbuff) = Len(e.payload)
    BY <2>4, <2>5, HeaderFacts
  <2>7. e.payload = <<>> /\ Len(e.payload) = 0
    BY <2>5, <2>6
  <2>8. d = e
    BY <2>4, <2>6, <2>7, DgramShape
  <2>9. Consumed = HEADER_SIZE + Len(d.payload)
    BY <2>4, <2>7, <2>8 DEF Consumed, HEADER_SIZE
  <2> HIDE DEF d
  <2>10. QED
    BY <2>1, <2>3, <2>4, <2>8, <2>9 DEF Complete
<1>6. QED
  BY <1>4, <1>5

(* One with a payload is returned after that.                              *)
LEMMA FullReturned ==
    ASSUME IInv, phase = "payload", ~Reading
    PROVE  LET d == [type |-> bbuff[1], payload |-> payload]
           IN  /\ d \in Dgrams
               /\ link # "failed" => Complete(d)
<1> DEFINE d == [type |-> bbuff[1], payload |-> payload]
<1>1. Over /\ TypeOK /\ Whole /\ payload \in Payloads
  BY DEF Over, IInv, TypeOK
<1>2. bbuff \in Headers /\ bbuff[1] \in Types
  BY <1>1, HeaderHeld, HeaderRanges
<1>3. d \in Dgrams
  BY <1>1, <1>2, DgramShape
<1>4. ASSUME link # "failed" PROVE Complete(d)
  <2>1. PICK S, st : Laid(S, st) /\ Carried(S, st) /\ Taken(S, st)
    BY <1>4 DEF IInv, Framed
  <2>2. /\ Len(got) \in Nat /\ Len(sent) \in Nat /\ sent \in Seq(Dgrams)
        /\ rRet \in Nat /\ payload \in Seq(Cells) /\ Len(payload) \in Nat
    BY <1>1, Shapes
  <2>3. rRet = Len(payload)
    BY <1>1, <1>4, <2>2 DEF Whole, Reading, Asked
  <2>4. Len(got) < Len(sent) /\ bbuff[1] = sent[Len(got) + 1].type
        /\ Len(payload) = Len(sent[Len(got) + 1].payload)
        /\ \A i \in 1 .. rRet : payload[i] = S[Here(st) + HEADER_SIZE + i]
    BY <2>1 DEF Taken
  <2>5. Len(got) + 1 \in 1 .. Len(sent)
    BY <2>2, <2>4
  <2>6. PICK e : e = sent[Len(got) + 1]
    OBVIOUS
  <2>7. e \in Dgrams /\ e.payload \in Seq(Cells) /\ Len(e.payload) = Len(payload)
    BY <2>2, <2>4, <2>5, <2>6, BytesFacts
  <2>8. ASSUME NEW i \in 1 .. Len(payload) PROVE payload[i] = e.payload[i]
    <3>1. S[Here(st) + (HEADER_SIZE + i)] = dgram2bytes(e)[HEADER_SIZE + i]
      <4>1. \A j \in 1 .. HEADER_SIZE + Len(e.payload) :
               S[Here(st) + j] = dgram2bytes(e)[j]
        BY <2>1, <2>5, <2>6 DEF Laid, Here
      <4>2. HEADER_SIZE + i \in 1 .. HEADER_SIZE + Len(e.payload)
        BY <2>2, <2>7 DEF HEADER_SIZE
      <4>3. QED
        BY <4>1, <4>2
    <3>2. dgram2bytes(e)[HEADER_SIZE + i] = e.payload[i]
      BY <2>7, BytesFacts
    <3>3. payload[i] = S[Here(st) + HEADER_SIZE + i]
      BY <2>3, <2>4
    <3>4. Here(st) + HEADER_SIZE + i = Here(st) + (HEADER_SIZE + i)
      <4>1. Here(st) \in Nat
        BY <1>1, <2>1, Places
      <4>2. QED
        BY <2>2, <4>1 DEF HEADER_SIZE
    <3>5. QED
      BY <3>1, <3>2, <3>3, <3>4, Zenon
  <2>9. payload = e.payload
    BY <2>2, <2>7, <2>8, SeqEqual
  <2>10. d = e
    BY <2>4, <2>6, <2>7, <2>9, DgramShape
  <2>11. Consumed = HEADER_SIZE + Len(d.payload)
    BY <2>3, <2>9, <2>10 DEF Consumed, HEADER_SIZE
  <2> HIDE DEF d
  <2>12. QED
    BY <2>1, <2>5, <2>6, <2>10, <2>11 DEF Complete
<1>5. QED
  BY <1>3, <1>4

LEMMA PayloadReadStep ==
    ASSUME IInv, PayloadRead
    PROVE  IInv'
<1> DEFINE d == [type |-> bbuff[1], payload |-> payload]
<1>1. phase = "payload" /\ ~Reading /\ Return(d) /\ payload' = payload
  BY DEF PayloadRead
<1>2. d \in Dgrams /\ (link # "failed" => Complete(d))
  BY <1>1, FullReturned, Zenon
<1>3. Over /\ payload' \in Payloads
  BY <1>1 DEF Over, IInv, TypeOK
<1> HIDE DEF d
<1>4. QED
  BY <1>1, <1>2, <1>3, ReturnStep

(* A new payload is allocated.                                             *)
NewPayload ==
    /\ payload_length(bbuff) # 0
    /\ payload' \in [1 .. payload_length(bbuff) -> Cells]
    /\ phase' = "payload" /\ rRet' = 0
    /\ UNCHANGED <<link, sock, writing, bbuff, history>>

LEMMA NewPayloadStep ==
    ASSUME IInv, phase = "header", ~Reading, NewPayload
    PROVE  IInv'
<1>1. PICK n : n = payload_length(bbuff)
  OBVIOUS
<1>2. /\ TypeOK /\ Whole /\ Over /\ n # 0 /\ payload' \in [1 .. n -> Cells]
      /\ phase' = "payload" /\ rRet' = 0
      /\ UNCHANGED <<link, sock, out, wRet, bbuff, sent, got, bogus>>
  BY <1>1 DEF IInv, Over, NewPayload, writing, history
<1>3. bbuff \in Headers /\ n \in 0 .. MaxPayload /\ n \in Nat
  BY <1>1, <1>2, HeaderHeld, HeaderRanges, FramingAssumption
<1>4. payload' \in Payloads /\ Len(payload') = n /\ payload' # <<>>
  BY <1>2, <1>3 DEF Payloads
<1>5. TypeOK'
  <2>1. rRet' \in 0 .. SizeMax
    BY <1>2, FramingAssumption
  <2>2. QED
    BY <1>2, <1>4, <2>1 DEF TypeOK
<1>6. Whole'
  <2>1. Reading'
    BY <1>2, <1>3, <1>4 DEF Reading, Asked
  <2>2. rRet' <= Len(payload')
    BY <1>2, <1>3, <1>4
  <2>3. QED
    BY <1>2, <1>3, <1>4, <2>1, <2>2 DEF Whole, Over
<1>7. ASSUME link # "failed" PROVE Framed'
  <2>1. PICK S, st : Laid(S, st) /\ Carried(S, st) /\ Taken(S, st)
    BY <1>7 DEF IInv, Framed
  <2>2. LET e == sent[Len(got) + 1]
        IN  /\ rRet = HEADER_SIZE /\ Len(got) + 1 \in 1 .. Len(sent)
            /\ e \in Dgrams
            /\ bbuff = Header(e.type, Len(e.payload))
    BY <1>2, <1>7, <2>1, HeaderOf, Zenon
  <2>3. PICK e : e = sent[Len(got) + 1]
    OBVIOUS
  <2>4. /\ rRet = HEADER_SIZE /\ Len(got) + 1 \in 1 .. Len(sent)
        /\ e \in Dgrams /\ bbuff = Header(e.type, Len(e.payload))
    BY <2>2, <2>3
  <2>5. e.type \in Types /\ Len(e.payload) \in 0 .. MaxPayload
    BY <2>4, BytesFacts
  <2>6. bbuff[1] = e.type /\ n = Len(e.payload)
    BY <1>1, <2>4, <2>5, HeaderFacts
  <2>7. At(st)' = At(st)
    <3>1. Consumed = HEADER_SIZE /\ Consumed' = HEADER_SIZE
      BY <1>2, <2>4 DEF Consumed, HEADER_SIZE
    <3>2. Here(st)' = Here(st)
      BY <1>2 DEF Here
    <3>3. QED
      BY <3>1, <3>2 DEF At
  <2>8. Laid(S, st)'
    BY <1>2, <2>1 DEF Laid
  <2>9. Carried(S, st)'
    BY <1>2, <2>1, <2>7 DEF Carried
  <2>10. Taken(S, st)'
    <3>1. \A i \in 1 .. rRet' : FALSE
      BY <1>2
    <3>2. Len(got) < Len(sent)
      BY <1>2, <2>4, Shapes
    <3>3. QED
      BY <1>2, <1>4, <2>3, <2>6, <3>1, <3>2 DEF Taken
  <2>11. QED
    BY <2>8, <2>9, <2>10 DEF Framed
<1>8. QED
  BY <1>2, <1>5, <1>6, <1>7 DEF IInv

LEMMA HeaderReadStep ==
    ASSUME IInv, HeaderRead
    PROVE  IInv'
<1> DEFINE d == [type |-> bbuff[1], payload |-> <<>>]
<1>1. phase = "header" /\ ~Reading
  BY DEF HeaderRead
<1>2. \/ payload_length(bbuff) = 0 /\ payload' = <<>> /\ Return(d)
      \/ NewPayload
  BY DEF HeaderRead, NewPayload
<1>3. CASE payload_length(bbuff) = 0 /\ payload' = <<>> /\ Return(d)
  <2>1. d \in Dgrams /\ (link # "failed" => Complete(d))
    BY <1>1, <1>3, EmptyReturned, Zenon
  <2>2. Over /\ payload' \in Payloads
    <3>1. d.payload \in Payloads /\ d.payload = <<>>
      BY <2>1 DEF Dgrams
    <3>2. QED
      BY <1>1, <1>3, <3>1 DEF Over
  <2> HIDE DEF d
  <2>3. QED
    BY <1>3, <2>1, <2>2, ReturnStep
<1>4. CASE NewPayload
  BY <1>1, <1>4, NewPayloadStep
<1>5. QED
  BY <1>2, <1>3, <1>4

LEMMA IdleStep ==
    ASSUME IInv, UNCHANGED vars
    PROVE  IInv'
<1>1. UNCHANGED <<link, sock, out, wRet, phase, bbuff, payload, rRet,
                  sent, got, bogus>>
  BY DEF vars, writing, reading, history
<1>2. TypeOK'
  BY <1>1 DEF IInv, TypeOK
<1>3. Whole'
  BY <1>1 DEF IInv, Whole, Over, Reading, Asked
<1>4. link # "failed" => Framed'
  BY <1>1 DEF IInv, Framed, Laid, Carried, Taken, At, Here, Consumed
<1>5. QED
  BY <1>1, <1>2, <1>3, <1>4 DEF IInv

LEMMA StepInv == IInv /\ [Next]_vars => IInv'
<1> SUFFICES ASSUME IInv, [Next]_vars PROVE IInv'
  OBVIOUS
<1>1. CASE Hangup
  BY <1>1, HangupStep
<1>2. CASE readDgram
  BY <1>2, readDgramStep
<1>3. CASE ReadFails
  BY <1>3, ReadFailsStep
<1>4. CASE HeaderRead
  BY <1>4, HeaderReadStep
<1>5. CASE PayloadRead
  BY <1>5, PayloadReadStep
<1>6. ASSUME NEW b \in 1 .. SocketBuffer, Read(b) PROVE IInv'
  BY <1>6, ReadHeaderStep, ReadPayloadStep
<1>7. ASSUME NEW d \in Dgrams, writeDgram(d) PROVE IInv'
  BY <1>7, writeDgramStep
<1>8. ASSUME NEW b \in 1 .. SocketBuffer, Write(b) PROVE IInv'
  BY <1>8, WriteStep
<1>9. CASE UNCHANGED vars
  BY <1>9, IdleStep
<1>10. QED
  BY <1>1, <1>2, <1>3, <1>4, <1>5, <1>6, <1>7, <1>8, <1>9 DEF Next, Reader

LEMMA InvariantHolds == Spec => []IInv
<1>1. QED
  BY InitInv, StepInv, PTL DEF Spec

(* Every variable of the framing keeps its type: whatever read and write   *)
(* move at a time, a payload that is allocated is never longer than the    *)
(* longest that was sent, although its length is taken from the stream.    *)
THEOREM TypeCorrect == Spec => []TypeOK
<1>1. IInv => TypeOK
  BY DEF IInv
<1>2. QED
  BY <1>1, InvariantHolds, PTL

-----------------------------------------------------------------------------
(* The refinement, step by step.                                           *)

(* A datagram that was returned was the next one, or the connection broke. *)
LEMMA ReturnMaps ==
    ASSUME IInv, Over, NEW d \in Dgrams, Return(d),
           link # "failed" => Complete(d)
    PROVE  Channel!Next
<1>1. /\ got' = Append(got, d) /\ bogus' = (link = "failed")
      /\ link' = link /\ sent' = sent
  BY DEF Return
<1>2. CASE link # "failed"
  <2>1. Len(got) + 1 \in 1 .. Len(sent) /\ d = sent[Len(got) + 1]
    BY <1>2 DEF Complete
  <2>2. Len(got) \in Nat /\ Len(sent) \in Nat
    BY Shapes DEF IInv
  <2>3. Len(got) < Len(sent)
    BY <2>1, <2>2
  <2>4. bogus = FALSE /\ bogus' = FALSE
    BY <1>1, <1>2 DEF IInv, Whole, TypeOK
  <2>5. Channel!Receive
    BY <1>1, <1>2, <2>1, <2>3, <2>4 DEF Channel!Receive
  <2>6. QED
    BY <2>5 DEF Channel!Next
<1>3. CASE link = "failed"
  <2>1. ~bogus /\ bogus' = TRUE
    BY <1>1, <1>3 DEF IInv, Whole
  <2>2. Channel!Invent(d)
    BY <1>1, <1>3, <2>1 DEF Channel!Invent
  <2>3. QED
    BY <2>2 DEF Channel!Next
<1>4. QED
  BY <1>2, <1>3

LEMMA StepMaps ==
    ASSUME IInv, [Next]_vars
    PROVE  [Channel!Next]_(Channel!vars)
<1>1. CASE Hangup
  <2>1. /\ UNCHANGED <<sent, got, bogus>>
        /\ (link' = "failed") = (link = "failed")
    BY <1>1 DEF Hangup, history
  <2>2. QED
    BY <2>1 DEF Channel!vars
<1>2. CASE readDgram
  BY <1>2 DEF readDgram, history, Channel!vars
<1>3. CASE ReadFails
  <2>1. UNCHANGED <<sent, got, bogus>> /\ link' = "failed"
    BY <1>3 DEF ReadFails, history
  <2>2. Channel!Break
    BY <2>1 DEF Channel!Break
  <2>3. QED
    BY <2>2 DEF Channel!Next
<1>4. CASE HeaderRead
  <2> DEFINE d == [type |-> bbuff[1], payload |-> <<>>]
  <2>1. phase = "header" /\ ~Reading
    BY <1>4 DEF HeaderRead
  <2>2. \/ payload_length(bbuff) = 0 /\ payload' = <<>> /\ Return(d)
        \/ NewPayload
    BY <1>4 DEF HeaderRead, NewPayload
  <2>3. CASE payload_length(bbuff) = 0 /\ payload' = <<>> /\ Return(d)
    <3>1. d \in Dgrams /\ (link # "failed" => Complete(d))
      BY <2>1, <2>3, EmptyReturned, Zenon
    <3>2. Over
      BY <2>1 DEF Over
    <3> HIDE DEF d
    <3>3. QED
      BY <2>3, <3>1, <3>2, ReturnMaps
  <2>4. CASE NewPayload
    BY <2>4 DEF NewPayload, history, Channel!vars
  <2>5. QED
    BY <2>2, <2>3, <2>4
<1>5. CASE PayloadRead
  <2> DEFINE d == [type |-> bbuff[1], payload |-> payload]
  <2>1. phase = "payload" /\ ~Reading /\ Return(d)
    BY <1>5 DEF PayloadRead
  <2>2. d \in Dgrams /\ (link # "failed" => Complete(d))
    BY <2>1, FullReturned, Zenon
  <2>3. Over
    BY <2>1 DEF Over
  <2> HIDE DEF d
  <2>4. QED
    BY <2>1, <2>2, <2>3, ReturnMaps
<1>6. ASSUME NEW b \in 1 .. SocketBuffer, Read(b)
      PROVE  [Channel!Next]_(Channel!vars)
  BY <1>6 DEF Read, history, Channel!vars
<1>7. ASSUME NEW d \in Dgrams, writeDgram(d)
      PROVE  [Channel!Next]_(Channel!vars)
  <2>1. sent' = Append(sent, d) /\ UNCHANGED <<link, got, bogus>>
    BY <1>7 DEF writeDgram
  <2>2. Channel!Send(d)
    BY <2>1 DEF Channel!Send
  <2>3. QED
    BY <2>2 DEF Channel!Next
<1>8. ASSUME NEW b \in 1 .. SocketBuffer, Write(b)
      PROVE  [Channel!Next]_(Channel!vars)
  BY <1>8 DEF Write, history, Channel!vars
<1>9. CASE UNCHANGED vars
  BY <1>9 DEF vars, history, Channel!vars
<1>10. QED
  BY <1>1, <1>2, <1>3, <1>4, <1>5, <1>6, <1>7, <1>8, <1>9 DEF Next, Reader

(* The framing implements DgramChannel: for every way in which read and    *)
(* write cut the stream up, whatever the reader's buffers held before,     *)
(* datagrams are returned whole, in order and as they were given to        *)
(* writeDgram, and after an error of read at most one that was not.        *)
THEOREM ChannelRefinement == Spec => ChannelSpec
<1>1. Init => Channel!Init
  BY DEF Init, Channel!Init
<1>2. IInv /\ [Next]_vars => [Channel!Next]_(Channel!vars)
  BY StepMaps
<1>3. QED
  BY <1>1, <1>2, InvariantHolds, PTL DEF Spec, ChannelSpec, Channel!Spec
=============================================================================
