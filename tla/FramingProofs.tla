--------------------------- MODULE FramingProofs ----------------------------
(***************************************************************************)
(* Theorems about Framing for any messages shorter than 2^32 bytes, any    *)
(* number of them and pieces of any size: the messages of the server are   *)
(* handed over whole and in order, with their codes, and the first is not  *)
(* held back.                                                              *)
(***************************************************************************)
EXTENDS Framing, SequenceTheorems, TLAPS

-----------------------------------------------------------------------------
(***************************************************************************)
(* What is read from a sequence of bytes is what was written to it.        *)
(***************************************************************************)
Short(n) == n \in Nat /\ n \div 16777216 \in Bytes

\* ntohl undoes htonl, for every length of 32 bits.
LEMMA DecodedBigendian ==
    ASSUME NEW n, Short(n)
    PROVE  /\ Bigendian(n) \in Seq(Bytes)
           /\ Len(Bigendian(n)) = 4
           /\ Decoded(Bigendian(n)) = n
<1>1. /\ n \in Nat
      /\ n \div 16777216 \in 0..255
      /\ (n \div 65536) % 256 \in 0..255
      /\ (n \div 256) % 256 \in 0..255
      /\ n % 256 \in 0..255
  BY SMT DEF Short, Bytes
<1>2. Bigendian(n) \in Seq(Bytes) /\ Len(Bigendian(n)) = 4
  BY <1>1, SMT DEF Bigendian, Bytes
<1>3. /\ Bigendian(n)[1] = n \div 16777216
      /\ Bigendian(n)[2] = (n \div 65536) % 256
      /\ Bigendian(n)[3] = (n \div 256) % 256
      /\ Bigendian(n)[4] = n % 256
  BY SMT DEF Bigendian
<1>4. n = (n \div 16777216) * 16777216 + ((n \div 65536) % 256) * 65536
             + ((n \div 256) % 256) * 256 + (n % 256)
  <2>1. n = (n \div 256) * 256 + (n % 256)
    BY <1>1, SMT
  <2>2. n \div 256 = (n \div 65536) * 256 + ((n \div 256) % 256)
    BY <1>1, SMT
  <2>3. n \div 65536 = (n \div 16777216) * 256 + ((n \div 65536) % 256)
    BY <1>1, SMT
  <2> QED
    BY <1>1, <2>1, <2>2, <2>3, SMT
<1> QED
  BY <1>1, <1>2, <1>3, <1>4, SMT DEF Decoded

LEMMA WireShape ==
    ASSUME NEW rest \in Rests
    PROVE  /\ Wire(rest) \in Seq(Bytes)
           /\ rest \in Seq(Bytes)
           /\ Len(Wire(rest)) = 4 + Len(rest)
           /\ Decoded(Wire(rest)) = Len(rest)
           /\ \A i \in 1..Len(rest) : Wire(rest)[4 + i] = rest[i]
<1>1. rest \in Seq(Bytes) /\ Short(Len(rest))
  BY FramingAssumption, LenProperties, SMT DEF Short
<1>2. /\ Bigendian(Len(rest)) \in Seq(Bytes)
      /\ Len(Bigendian(Len(rest))) = 4
      /\ Decoded(Bigendian(Len(rest))) = Len(rest)
  BY <1>1, DecodedBigendian
<1>3. /\ Wire(rest) \in Seq(Bytes)
      /\ Len(Wire(rest)) = 4 + Len(rest)
      /\ \A i \in 1..(4 + Len(rest)) :
            Wire(rest)[i] = IF i <= 4 THEN Bigendian(Len(rest))[i] ELSE rest[i - 4]
  <2> DEFINE h == Bigendian(Len(rest))
  <2>1. /\ h \o rest \in Seq(Bytes)
        /\ Len(h \o rest) = Len(h) + Len(rest)
        /\ \A i \in 1..(Len(h) + Len(rest)) :
              (h \o rest)[i] = IF i <= Len(h) THEN h[i] ELSE rest[i - Len(h)]
    BY <1>1, <1>2, ConcatProperties
  <2>2. Len(h) = 4
    BY <1>2
  <2> QED
    BY <2>1, <2>2 DEF Wire
<1>4. \A i \in 1..4 : Wire(rest)[i] = Bigendian(Len(rest))[i]
  BY <1>1, <1>3, LenProperties
<1>5. Decoded(Wire(rest)) = Len(rest)
  BY <1>2, <1>4, SMT DEF Decoded
<1>6. \A i \in 1..Len(rest) : Wire(rest)[4 + i] = rest[i]
  BY <1>1, <1>3, LenProperties
<1> QED
  BY <1>1, <1>3, <1>5, <1>6

\* A sequence of bytes that begins with a message has that message for its next, and
\* one that is shorter than the message it is the beginning of has none.
LEMMA NextIsFirst ==
    ASSUME NEW rest \in Rests, NEW b \in Seq(Bytes),
           \A i \in 1..Len(b) : i <= Len(Wire(rest)) => b[i] = Wire(rest)[i]
    PROVE  NextPartialResponse(b) = IF Len(b) >= Len(Wire(rest)) THEN Len(Wire(rest)) ELSE 0
<1>1. /\ Len(Wire(rest)) = 4 + Len(rest) /\ Len(rest) \in Nat /\ Len(b) \in Nat
      /\ Decoded(Wire(rest)) = Len(rest)
  BY WireShape, LenProperties
<1>2. CASE Len(b) < 4
  BY <1>1, <1>2 DEF NextPartialResponse, SizeOfLength
<1>3. CASE Len(b) >= 4
  <2>1. \A i \in 1..4 : b[i] = Wire(rest)[i]
    BY <1>1, <1>3
  <2>2. Decoded(b) = Len(rest)
    BY <1>1, <2>1, SMT DEF Decoded
  <2> QED
    BY <1>1, <1>3, <2>2 DEF NextPartialResponse, SizeOfLength
<1> QED
  BY <1>1, <1>2, <1>3

-----------------------------------------------------------------------------
(***************************************************************************)
(* The invariant: the bytes the server sent are its messages one after     *)
(* another, and the buffer begins where the last message that was handed   *)
(* over ended.                                                             *)
(***************************************************************************)
\* Where message k ends and the next one begins.
Boundary(k) == IF k < Len(messages) THEN messages[k + 1].start ELSE Len(sent)

WireOf(i) == Wire(messages[i].rest)

SentInOrder ==
    /\ Boundary(0) = 0
    /\ \A i \in 1..Len(messages) :
          /\ Boundary(i) = messages[i].start + Len(WireOf(i))
          /\ Boundary(i) <= Len(sent)
          /\ \A j \in 1..Len(WireOf(i)) : sent[messages[i].start + j] = WireOf(i)[j]

Buffered ==
    /\ Len(buffer) <= read
    /\ read - Len(buffer) = Boundary(Len(handed))
    /\ \A j \in 1..Len(buffer) : buffer[j] = sent[Boundary(Len(handed)) + j]
    /\ ~satisfied /\ handed = <<>> => NextPartialResponse(buffer) = 0

FramingInv == TypeOK /\ SentInOrder /\ MessagesIntact /\ Buffered

LEMMA MessageTypes ==
    ASSUME TypeOK, NEW i \in 1..Len(messages)
    PROVE  /\ messages[i].rest \in Rests /\ messages[i].start \in Nat
           /\ WireOf(i) \in Seq(Bytes) /\ Len(WireOf(i)) \in Nat /\ Len(WireOf(i)) >= 4
<1>1. messages[i] \in [rest : Rests, start : Nat]
  BY ElementOfSeq DEF TypeOK
<1> QED
  BY <1>1, WireShape, LenProperties DEF WireOf

LEMMA SendsInv ==
    ASSUME FramingInv, NEW rest \in Rests, Sends(rest)
    PROVE  FramingInv'
<1> DEFINE w == Wire(rest)
<1>0. PICK n \in Nat : n = Len(messages)
  BY LenProperties DEF FramingInv, TypeOK
<1>1. /\ messages \in Seq([rest : Rests, start : Nat]) /\ sent \in Seq(Bytes)
      /\ read \in 0..Len(sent) /\ Len(sent) \in Nat
      /\ Len(handed) \in Nat /\ Len(handed) <= n
      /\ DOMAIN handed = 1..Len(handed)
  BY <1>0, LenProperties DEF FramingInv, TypeOK, MessagesIntact
<1>2. [rest |-> rest, start |-> Len(sent)] \in [rest : Rests, start : Nat]
  BY <1>1
<1>3. /\ messages' \in Seq([rest : Rests, start : Nat])
      /\ Len(messages') = n + 1
      /\ \A i \in 1..n : messages'[i] = messages[i]
      /\ messages'[n + 1] = [rest |-> rest, start |-> Len(sent)]
  BY <1>0, <1>1, <1>2, AppendProperties DEF Sends
<1>4. w \in Seq(Bytes) /\ Len(w) \in Nat
  BY WireShape, LenProperties
<1>5. /\ sent' \in Seq(Bytes)
      /\ Len(sent') = Len(sent) + Len(w)
      /\ \A i \in 1..Len(sent) : sent'[i] = sent[i]
      /\ \A j \in 1..Len(w) : sent'[Len(sent) + j] = w[j]
  BY <1>1, <1>4, ConcatProperties DEF Sends
<1>6. UNCHANGED <<read, buffer, handed, satisfied>>
  BY DEF Sends
<1>7. TypeOK'
  BY <1>1, <1>3, <1>5, <1>6 DEF FramingInv, TypeOK
<1>8. /\ \A k \in 0..n : Boundary(k)' = Boundary(k)
      /\ Boundary(n + 1)' = Len(sent')
  <2>1. ASSUME NEW k \in 0..n
        PROVE  Boundary(k)' = Boundary(k)
    <3>1. CASE k < n
      BY <1>0, <1>1, <1>3, <3>1 DEF Boundary
    <3>2. CASE k = n
      BY <1>0, <1>1, <1>3, <3>2 DEF Boundary
    <3> QED
      BY <1>1, <3>1, <3>2
  <2> QED
    BY <1>0, <1>1, <1>3, <2>1 DEF Boundary
<1>9. SentInOrder'
  <2>1. ASSUME NEW i \in 1..n
        PROVE  /\ WireOf(i)' = WireOf(i)
               /\ Boundary(i)' = messages'[i].start + Len(WireOf(i)')
               /\ Boundary(i)' <= Len(sent')
               /\ \A j \in 1..Len(WireOf(i)') : sent'[messages'[i].start + j] = WireOf(i)'[j]
    <3>1. WireOf(i)' = WireOf(i)
      BY <1>3 DEF WireOf
    <3>2. /\ messages[i].start \in Nat /\ Len(WireOf(i)) \in Nat
          /\ Boundary(i) = messages[i].start + Len(WireOf(i))
          /\ Boundary(i) <= Len(sent)
          /\ \A j \in 1..Len(WireOf(i)) : sent[messages[i].start + j] = WireOf(i)[j]
      BY <1>0, MessageTypes DEF FramingInv, SentInOrder
    <3>3. \A j \in 1..Len(WireOf(i)) : messages[i].start + j \in 1..Len(sent)
      BY <1>1, <3>2
    <3>4. /\ Boundary(i)' = Boundary(i) /\ messages'[i].start = messages[i].start
          /\ Boundary(i) <= Len(sent')
      <4>1. i \in 0..n
        BY <1>0
      <4>2. Boundary(i)' = Boundary(i)
        BY <1>8, <4>1
      <4>3. messages'[i] = messages[i]
        BY <1>3
      <4>4. Boundary(i) <= Len(sent')
        BY <1>1, <1>4, <1>5, <3>2
      <4> QED
        BY <4>2, <4>3, <4>4
    <3>5. \A j \in 1..Len(WireOf(i)) : sent'[messages[i].start + j] = WireOf(i)[j]
      BY <1>5, <3>2, <3>3
    <3> QED
      BY <3>1, <3>2, <3>4, <3>5
  <2>2. /\ WireOf(n + 1)' = w
        /\ messages'[n + 1].start = Len(sent)
    BY <1>3 DEF WireOf
  <2>3. /\ Boundary(n + 1)' = messages'[n + 1].start + Len(WireOf(n + 1)')
        /\ Boundary(n + 1)' <= Len(sent')
        /\ \A j \in 1..Len(WireOf(n + 1)') :
              sent'[messages'[n + 1].start + j] = WireOf(n + 1)'[j]
    BY <1>1, <1>4, <1>5, <1>8, <2>2
  <2>4. Boundary(0)' = 0
    BY <1>0, <1>1, <1>8 DEF FramingInv, SentInOrder
  <2>5. \A i \in 1..Len(messages') : i \in 1..n \/ i = n + 1
    BY <1>0, <1>1, <1>3
  <2> QED
    BY <2>1, <2>3, <2>4, <2>5 DEF SentInOrder
<1>10. MessagesIntact'
  BY <1>0, <1>1, <1>3, <1>6 DEF FramingInv, MessagesIntact
<1>11. Buffered'
  <2>1. Boundary(Len(handed))' = Boundary(Len(handed))
    BY <1>1, <1>6, <1>8
  <2>2. /\ Len(buffer) \in Nat /\ Len(buffer) <= read
        /\ Boundary(Len(handed)) = read - Len(buffer)
        /\ \A j \in 1..Len(buffer) : buffer[j] = sent[Boundary(Len(handed)) + j]
        /\ ~satisfied /\ handed = <<>> => NextPartialResponse(buffer) = 0
    BY LenProperties DEF FramingInv, TypeOK, Buffered
  <2>3. \A j \in 1..Len(buffer) : Boundary(Len(handed)) + j \in 1..Len(sent)
    BY <1>1, <2>2
  <2>4. \A j \in 1..Len(buffer) : buffer[j] = sent'[Boundary(Len(handed)) + j]
    BY <1>5, <2>2, <2>3
  <2>5. NextPartialResponse(buffer)' = NextPartialResponse(buffer)
    BY <1>6, SMT DEF NextPartialResponse, Decoded
  <2> QED
    BY <1>6, <2>1, <2>2, <2>4, <2>5 DEF Buffered
<1> QED
  BY <1>7, <1>9, <1>10, <1>11 DEF FramingInv

-----------------------------------------------------------------------------
LEMMA ReceiveInv ==
    ASSUME FramingInv, NEW n \in 1..MaxPiece, Receive(n)
    PROVE  FramingInv'
<1>0. PICK k \in Nat : k = Len(handed)
  BY LenProperties DEF FramingInv, TypeOK
<1>a. PICK b : b = buffer \o SubSeq(sent, read + 1, read + n)
  OBVIOUS
<1>b. PICK c : c = Boundary(k)
  OBVIOUS
<1>c. PICK next : next = NextPartialResponse(b)
  OBVIOUS
<1>1. /\ messages \in Seq([rest : Rests, start : Nat]) /\ sent \in Seq(Bytes)
      /\ buffer \in Seq(Bytes) /\ handed \in Seq(Seq(Bytes))
      /\ read \in Nat /\ Len(sent) \in Nat /\ Len(messages) \in Nat /\ Len(buffer) \in Nat
      /\ n \in Nat /\ n >= 1 /\ read + n <= Len(sent)
      /\ k <= Len(messages)
      /\ DOMAIN handed = 1..k
  BY <1>0, LenProperties, FramingAssumption DEF FramingInv, TypeOK, MessagesIntact, Receive
<1>2. /\ c = read - Len(buffer) /\ c \in Nat
      /\ \A j \in 1..Len(buffer) : buffer[j] = sent[c + j]
  BY <1>0, <1>1, <1>b DEF FramingInv, Buffered
<1>3. /\ b \in Seq(Bytes)
      /\ Len(b) = Len(buffer) + n /\ Len(b) \in Nat
      /\ \A j \in 1..Len(b) : b[j] = sent[c + j]
  <2>0. PICK piece : piece = SubSeq(sent, read + 1, read + n)
    OBVIOUS
  <2>1. \A j \in (read + 1)..(read + n) : sent[j] \in Bytes
    BY <1>1, ElementOfSeq
  <2>2. /\ piece \in Seq(Bytes) /\ Len(piece) = n
        /\ \A j \in 1..n : piece[j] = sent[read + j]
    BY <1>1, <2>0, <2>1, SubSeqProperties
  <2>3. /\ b \in Seq(Bytes)
        /\ Len(b) = Len(buffer) + n
        /\ \A j \in 1..(Len(buffer) + n) :
              b[j] = IF j <= Len(buffer) THEN buffer[j] ELSE piece[j - Len(buffer)]
    BY <1>1, <1>a, <2>0, <2>2, ConcatProperties
  <2>4. ASSUME NEW j \in 1..(Len(buffer) + n)
        PROVE  b[j] = sent[c + j]
    <3>1. CASE j <= Len(buffer)
      <4>1. j \in 1..Len(buffer)
        BY <1>1, <3>1
      <4>2. b[j] = buffer[j]
        BY <2>3, <3>1
      <4> QED
        BY <1>2, <4>1, <4>2
    <3>2. CASE j > Len(buffer)
      <4>1. j - Len(buffer) \in 1..n /\ read + (j - Len(buffer)) = c + j
        BY <1>1, <1>2, <3>2
      <4>2. piece[j - Len(buffer)] = sent[read + (j - Len(buffer))]
        BY <2>2, <4>1
      <4>3. b[j] = piece[j - Len(buffer)]
        BY <1>1, <2>3, <3>2
      <4>4. sent[read + (j - Len(buffer))] = sent[c + j]
        BY <4>1
      <4> QED
        BY <4>2, <4>3, <4>4
    <3> QED
      BY <1>1, <3>1, <3>2
  <2> QED
    BY <1>1, <2>3, <2>4
<1>4. k < Len(messages)
  BY <1>1, <1>2, <1>b DEF Boundary
<1>5. PICK w : w = WireOf(k + 1)
  OBVIOUS
<1>6. /\ messages[k + 1].rest \in Rests
      /\ w = Wire(messages[k + 1].rest) /\ w \in Seq(Bytes)
      /\ Len(w) \in Nat /\ Len(w) >= 4
      /\ Boundary(k + 1) = c + Len(w)
      /\ \A j \in 1..Len(w) : sent[c + j] = w[j]
  <2>1. k + 1 \in 1..Len(messages) /\ c = messages[k + 1].start
    BY <1>1, <1>4, <1>b DEF Boundary
  <2>2. w = Wire(messages[k + 1].rest)
    BY <1>5 DEF WireOf
  <2>3. /\ Boundary(k + 1) = messages[k + 1].start + Len(w)
        /\ \A j \in 1..Len(w) : sent[messages[k + 1].start + j] = w[j]
    BY <1>5, <2>1 DEF FramingInv, SentInOrder
  <2> QED
    BY <1>5, <2>1, <2>2, <2>3, MessageTypes DEF FramingInv
<1>7. next = IF Len(b) >= Len(w) THEN Len(w) ELSE 0
  <2>1. ASSUME NEW i \in 1..Len(b), i <= Len(w)
        PROVE  b[i] = w[i]
    <3>1. i \in 1..Len(w)
      BY <1>3, <1>6, <2>1
    <3> QED
      BY <1>3, <1>6, <3>1
  <2> QED
    BY <1>3, <1>6, <1>c, <2>1, NextIsFirst
<1>8. /\ read' = read + n /\ UNCHANGED <<messages, sent>>
      /\ next # 0 => /\ handed' = Append(handed, SubSeq(b, 1, next))
                     /\ buffer' = SubSeq(b, next + 1, Len(b))
                     /\ satisfied' \in BOOLEAN
      /\ next = 0 => buffer' = b /\ UNCHANGED <<handed, satisfied>>
  BY <1>a, <1>c DEF Receive
<1>9. SentInOrder'
  BY <1>8 DEF FramingInv, SentInOrder, Boundary, WireOf
<1>10. \A i : Boundary(i)' = Boundary(i)
  BY <1>8 DEF Boundary
<1>11. CASE next # 0
  <2>0. /\ read' = read + n /\ messages' = messages /\ sent' = sent
        /\ handed' = Append(handed, SubSeq(b, 1, next))
        /\ buffer' = SubSeq(b, next + 1, Len(b))
        /\ satisfied' \in BOOLEAN
    BY <1>8, <1>11
  <2>1. next = Len(w) /\ Len(w) <= Len(b) /\ next \in Nat /\ next >= 4
    BY <1>6, <1>7, <1>11
  <2>2. SubSeq(b, 1, next) = w
    <3>1. \A i \in 1..next : b[i] \in Bytes
      BY <1>1, <1>3, <1>6, <2>1, ElementOfSeq
    <3>2. /\ SubSeq(b, 1, next) \in Seq(Bytes)
          /\ Len(SubSeq(b, 1, next)) = next
          /\ \A i \in 1..next : SubSeq(b, 1, next)[i] = b[i]
      BY <1>6, <2>1, <3>1, SubSeqProperties
    <3>3. ASSUME NEW i \in 1..next
          PROVE  b[i] = w[i]
      <4>1. i \in 1..Len(w) /\ i \in 1..Len(b)
        BY <1>3, <1>6, <2>1
      <4> QED
        BY <1>3, <1>6, <4>1
    <3> QED
      BY <1>6, <2>1, <3>2, <3>3, SeqEqual
  <2>3. /\ handed' \in Seq(Seq(Bytes)) /\ Len(handed') = k + 1
        /\ \A i \in 1..k : handed'[i] = handed[i]
        /\ handed'[k + 1] = w
    <3>1. handed' = Append(handed, w)
      BY <2>0, <2>2
    <3> QED
      BY <1>0, <1>1, <1>6, <3>1, AppendProperties
  <2>4. /\ buffer' \in Seq(Bytes) /\ Len(buffer') = Len(b) - next
        /\ \A j \in 1..(Len(b) - next) : buffer'[j] = b[next + j]
    <3>1. \A i \in (next + 1)..Len(b) : b[i] \in Bytes
      BY <1>1, <1>3, <1>6, <2>1, ElementOfSeq
    <3>2. next + 1 \in Int /\ Len(b) \in Int /\ next \in Nat
      BY <1>1, <1>3, <1>6, <2>1
    <3>3. /\ SubSeq(b, next + 1, Len(b)) \in Seq(Bytes)
          /\ Len(SubSeq(b, next + 1, Len(b)))
                = IF next + 1 <= Len(b) THEN Len(b) - (next + 1) + 1 ELSE 0
          /\ \A i \in 1..(Len(b) - (next + 1) + 1) :
                SubSeq(b, next + 1, Len(b))[i] = b[next + 1 + i - 1]
      BY <3>1, <3>2, SubSeqProperties
    <3> QED
      BY <1>3, <2>0, <2>1, <3>2, <3>3
  <2>5. TypeOK'
    BY <1>1, <2>0, <2>3, <2>4 DEF TypeOK
  <2>6. MessagesIntact'
    <3>1. \A i \in 1..k : handed[i] = Wire(messages[i].rest)
      BY <1>1 DEF FramingInv, MessagesIntact
    <3>2. DOMAIN handed' = 1..(k + 1)
      BY <2>3, LenProperties
    <3>3. Len(handed') <= Len(messages')
      BY <1>1, <1>4, <2>0, <2>3
    <3>4. ASSUME NEW i \in 1..(k + 1)
          PROVE  handed'[i] = Wire(messages'[i].rest)
      <4>1. CASE i \in 1..k
        BY <2>0, <2>3, <3>1, <4>1
      <4>2. CASE i = k + 1
        BY <1>6, <2>0, <2>3, <4>2
      <4> QED
        BY <4>1, <4>2
    <3> QED
      BY <3>2, <3>3, <3>4 DEF MessagesIntact
  <2>7. Buffered'
    <3>1. Boundary(Len(handed))' = c + next
      BY <1>6, <2>0, <2>1, <2>3 DEF Boundary
    <3>2. handed' # <<>>
      BY <1>0, <2>3
    <3>3. /\ Len(buffer') <= read' /\ read' - Len(buffer') = c + next
      <4>1. Len(buffer') = Len(buffer) + n - next /\ read' = read + n
        BY <1>1, <1>3, <2>0, <2>1, <2>4
      <4>2. /\ read \in Nat /\ n \in Nat /\ Len(buffer) \in Nat /\ next \in Nat
            /\ c \in Nat /\ c = read - Len(buffer)
        BY <1>1, <1>2, <2>1
      <4> QED
        BY <4>1, <4>2
    <3>4. ASSUME NEW j \in 1..Len(buffer')
          PROVE  buffer'[j] = sent[c + next + j]
      <4>1. /\ j \in 1..(Len(b) - next) /\ next + j \in 1..Len(b)
            /\ c + (next + j) = c + next + j
        <5>1. Len(buffer') = Len(b) - next
          BY <2>4
        <5>2. Len(b) \in Nat /\ next \in Nat /\ c \in Nat
          BY <1>2, <1>3, <2>1
        <5> QED
          BY <5>1, <5>2
      <4>2. buffer'[j] = b[next + j]
        BY <2>4, <4>1
      <4>3. b[next + j] = sent[c + (next + j)]
        BY <1>3, <4>1
      <4> QED
        BY <4>1, <4>2, <4>3
    <3> QED
      BY <2>0, <3>1, <3>2, <3>3, <3>4 DEF Buffered
  <2> QED
    BY <1>9, <2>5, <2>6, <2>7 DEF FramingInv
<1>12. CASE next = 0
  <2>1. buffer' = b /\ UNCHANGED <<messages, sent, handed, satisfied>> /\ read' = read + n
    BY <1>8, <1>12
  <2>2. TypeOK'
    BY <1>1, <1>3, <2>1 DEF FramingInv, TypeOK
  <2>3. MessagesIntact'
    BY <2>1 DEF FramingInv, MessagesIntact
  <2>4. Buffered'
    <3>1. Boundary(Len(handed))' = c
      BY <1>0, <1>b, <2>1 DEF Boundary
    <3>2. NextPartialResponse(buffer)' = 0
      BY <1>12, <1>c, <2>1, SMT DEF NextPartialResponse, Decoded
    <3>3. /\ Len(buffer') <= read' /\ read' - Len(buffer') = c
      <4>1. Len(buffer') = Len(buffer) + n /\ read' = read + n
        BY <1>3, <2>1
      <4>2. /\ read \in Nat /\ n \in Nat /\ Len(buffer) \in Nat
            /\ c \in Nat /\ c = read - Len(buffer)
        BY <1>1, <1>2
      <4> QED
        BY <4>1, <4>2
    <3>4. \A j \in 1..Len(buffer') : buffer'[j] = sent'[c + j]
      BY <1>3, <2>1
    <3> QED
      BY <3>1, <3>2, <3>3, <3>4 DEF Buffered
  <2> QED
    BY <1>9, <2>2, <2>3, <2>4 DEF FramingInv
<1> QED
  BY <1>11, <1>12

-----------------------------------------------------------------------------
\* The invariant holds in every state.
THEOREM FramingInvariant == Spec => []FramingInv
<1>1. Init => FramingInv
  <2> SUFFICES ASSUME Init
               PROVE  FramingInv
    OBVIOUS
  <2>1. /\ messages = <<>> /\ sent = <<>> /\ read = 0 /\ buffer = <<>> /\ handed = <<>>
        /\ satisfied = FALSE
    BY DEF Init
  <2>2. Len(messages) = 0 /\ Len(sent) = 0 /\ Len(buffer) = 0 /\ Len(handed) = 0
    BY <2>1
  <2>3. TypeOK
    <3>1. <<>> \in Seq([rest : Rests, start : Nat]) /\ <<>> \in Seq(Bytes)
          /\ <<>> \in Seq(Seq(Bytes))
      OBVIOUS
    <3>2. read \in 0..Len(sent)
      <4>1. read = 0 /\ Len(sent) = 0
        BY <2>1, <2>2
      <4> QED
        BY <4>1
    <3>3. satisfied \in BOOLEAN
      BY <2>1
    <3> QED
      BY <2>1, <3>1, <3>2, <3>3 DEF TypeOK
  <2>4. SentInOrder
    BY <2>2 DEF SentInOrder, Boundary
  <2>5. MessagesIntact
    BY <2>1, <2>2 DEF MessagesIntact
  <2>6. NextPartialResponse(buffer) = 0
    BY <2>1, SMT DEF NextPartialResponse, SizeOfLength
  <2> QED
    <3>1. Boundary(Len(handed)) = 0
      BY <2>2, <2>4 DEF SentInOrder
    <3>2. Buffered
      BY <2>1, <2>2, <2>6, <3>1 DEF Buffered
    <3> QED
      BY <2>3, <2>4, <2>5, <3>2 DEF FramingInv
<1>2. FramingInv /\ [Next]_vars => FramingInv'
  <2> SUFFICES ASSUME FramingInv, [Next]_vars
               PROVE  FramingInv'
    OBVIOUS
  <2>1. ASSUME NEW rest \in Rests, Sends(rest)
        PROVE  FramingInv'
    BY <2>1, SendsInv
  <2>2. ASSUME NEW n \in 1..MaxPiece, Receive(n)
        PROVE  FramingInv'
    BY <2>2, ReceiveInv
  <2>3. CASE ReceiveError
    <3>1. UNCHANGED <<messages, sent, read, buffer, handed>> /\ satisfied'
      BY <2>3 DEF ReceiveError
    <3> QED
      BY <3>1 DEF FramingInv, TypeOK, SentInOrder, MessagesIntact, Buffered, Boundary, WireOf
  <2>4. CASE UNCHANGED vars
    <3>1. UNCHANGED <<messages, sent, read, buffer, handed, satisfied>>
      BY <2>4 DEF vars
    <3>2. NextPartialResponse(buffer)' = NextPartialResponse(buffer)
      BY <3>1, SMT DEF NextPartialResponse, Decoded
    <3> QED
      BY <3>1, <3>2 DEF FramingInv, TypeOK, SentInOrder, MessagesIntact, Buffered, Boundary,
                        WireOf
  <2> QED
    BY <2>1, <2>2, <2>3, <2>4 DEF Next
<1> QED
  BY <1>1, <1>2, PTL DEF Spec

\* Every variable always has its type.
THEOREM FramingTypeCorrect == Spec => []TypeOK
BY FramingInvariant, PTL DEF FramingInv

\* However the network cuts them up, what is handed over are the messages of the server,
\* whole and in order.
THEOREM MessagesAreIntact == Spec => []MessagesIntact
BY FramingInvariant, PTL DEF FramingInv

LEMMA CodesFound ==
    ASSUME FramingInv
    PROVE  CodesRecovered
<1> SUFFICES ASSUME NEW i \in DOMAIN handed, NEW code \in Bytes,
                    messages[i].rest # <<>>
             PROVE  /\ "parses" \in RetrieveBodyWithCode(code, handed[i])
                          <=> code = messages[i].rest[1]
                    /\ VerifyCode(code, handed[i]) = {code = messages[i].rest[1]}
  BY DEF CodesRecovered
<1>1. PICK rest : rest = messages[i].rest
  OBVIOUS
<1>2. PICK m : m = handed[i]
  OBVIOUS
<1>3. i \in 1..Len(messages)
  <2>1. DOMAIN handed = 1..Len(handed) /\ Len(handed) \in Nat /\ Len(messages) \in Nat
    BY LenProperties DEF FramingInv, TypeOK
  <2> QED
    BY <2>1 DEF FramingInv, MessagesIntact
<1>4. rest \in Rests /\ m = Wire(rest) /\ rest # <<>>
  BY <1>1, <1>2, <1>3, MessageTypes DEF FramingInv, MessagesIntact
<1>5. /\ Len(rest) \in Nat /\ Len(rest) >= 1
      /\ Len(m) = 4 + Len(rest) /\ Decoded(m) = Len(rest) /\ m[5] = rest[1]
  <2>1. /\ rest \in Seq(Bytes) /\ Len(m) = 4 + Len(rest) /\ Decoded(m) = Len(rest)
        /\ \A j \in 1..Len(rest) : m[4 + j] = rest[j]
    BY <1>4, WireShape
  <2>2. Len(rest) \in Nat /\ Len(rest) # 0
    BY <1>4, <2>1, LenProperties, EmptySeq
  <2>3. m[4 + 1] = rest[1]
    BY <2>1, <2>2
  <2> QED
    BY <2>1, <2>2, <2>3
<1>6. ExtractCodeIfValid(m) = {rest[1]}
  BY <1>5 DEF ExtractCodeIfValid, SizeOfLength, SizeOfHeader
<1>7. "parses" \in RetrieveBodyWithCode(code, m) <=> code = rest[1]
  BY <1>5, <1>6 DEF RetrieveBodyWithCode, SizeOfLength, SizeOfHeader
<1>8. VerifyCode(code, m) = {code = rest[1]}
  <2>1. {code = c : c \in {rest[1]}} = {code = rest[1]}
    BY Zenon
  <2> QED
    BY <1>6, <2>1 DEF VerifyCode
<1> QED
  BY <1>1, <1>2, <1>7, <1>8

\* Taking a message apart finds the code the server gave it and no other.
THEOREM CodesAreRecovered == Spec => []CodesRecovered
BY FramingInvariant, CodesFound, PTL

LEMMA FirstNotHeld ==
    ASSUME FramingInv
    PROVE  FirstNotHeldBack
<1> SUFFICES ASSUME read = Len(sent), ~satisfied, messages # <<>>, handed = <<>>
             PROVE  FALSE
  BY DEF FirstNotHeldBack
<1>1. /\ buffer \in Seq(Bytes) /\ Len(buffer) \in Nat /\ Len(sent) \in Nat
      /\ Len(messages) \in Nat /\ Len(messages) # 0
  BY LenProperties, EmptySeq DEF FramingInv, TypeOK
<1>2. Len(handed) = 0
  OBVIOUS
<1>3. /\ Boundary(0) = 0
      /\ Len(buffer) = Len(sent)
      /\ \A j \in 1..Len(buffer) : buffer[j] = sent[j]
      /\ NextPartialResponse(buffer) = 0
  BY <1>1, <1>2 DEF FramingInv, SentInOrder, Buffered
<1>4. PICK w : w = WireOf(1)
  OBVIOUS
<1>5. /\ messages[1].rest \in Rests /\ w = Wire(messages[1].rest)
      /\ Len(w) \in Nat /\ Len(w) >= 4 /\ messages[1].start = 0
  BY <1>1, <1>3, <1>4, MessageTypes DEF FramingInv, Boundary, WireOf
<1>6. Len(w) <= Len(sent) /\ \A j \in 1..Len(w) : sent[j] = w[j]
  <2>1. /\ Boundary(1) = 0 + Len(w) /\ Boundary(1) <= Len(sent)
        /\ \A j \in 1..Len(w) : sent[0 + j] = w[j]
    BY <1>1, <1>4, <1>5 DEF FramingInv, SentInOrder
  <2> QED
    BY <1>5, <2>1
<1>7. \A j \in 1..Len(buffer) : j <= Len(w) => buffer[j] = w[j]
  BY <1>1, <1>3, <1>5, <1>6
<1>8. NextPartialResponse(buffer) = Len(w)
  BY <1>1, <1>3, <1>5, <1>6, <1>7, NextIsFirst
<1> QED
  BY <1>3, <1>5, <1>8

\* The first message of a reply is handed over by the time all has been read.
THEOREM FirstIsNotHeldBack == Spec => []FirstNotHeldBack
BY FramingInvariant, FirstNotHeld, PTL
=============================================================================
