-------------------------- MODULE WireSessionProofs --------------------------
(***************************************************************************)
(* Frames and messages end to end, for any limits, queues, sessions and    *)
(* damage: the encodings and their inverses, and what they mean for the    *)
(* gateway, for what it holds and for what the recipient opens.            *)
(***************************************************************************)
EXTENDS WireSession, FiniteSetTheorems, SequenceTheorems, TLAPS

Bytes == Seq(Nat)

FrameType ==
    [version : Nat, kind : Nat, flags : Nat, payloadLen : Nat, payload : Bytes]

MessageType ==
    [version : Nat, id : Nat, conversation : Nat, sender : Nat, recipient : Nat,
     header : Bytes, ciphertext : Bytes, sentAt : Nat]

-----------------------------------------------------------------------------
(* Sequences *)

(* A concatenation is taken apart where it was put together *)
LEMMA ConcatParts ==
    ASSUME NEW p \in Bytes, NEW q \in Bytes
    PROVE  /\ p \o q \in Bytes /\ Len(p \o q) = Len(p) + Len(q) /\ Len(p) \in Nat /\ Len(q) \in Nat
           /\ \A i \in 1 .. Len(p) : (p \o q)[i] = p[i]
           /\ \A i \in 1 .. Len(q) : (p \o q)[Len(p) + i] = q[i]
BY DEF Bytes

(* A part of a sequence, by its place *)
LEMMA SubParts ==
    ASSUME NEW b \in Bytes, NEW m \in 1 .. (Len(b) + 1), NEW n \in (m - 1) .. Len(b)
    PROVE  /\ SubSeq(b, m, n) \in Bytes /\ Len(SubSeq(b, m, n)) = n - m + 1
           /\ \A i \in 1 .. (n - m + 1) : SubSeq(b, m, n)[i] = b[m + i - 1]
BY DEF Bytes

(* Two sequences of the same elements *)
LEMMA SameBytes ==
    ASSUME NEW p \in Bytes, NEW q \in Bytes, Len(p) = Len(q),
           \A i \in 1 .. Len(p) : p[i] = q[i]
    PROVE  p = q
BY DEF Bytes

-----------------------------------------------------------------------------
(* Frames *)

(* Where each field is in the bytes of a frame *)
LEMMA FrameBytes ==
    ASSUME NEW f \in FrameType
    PROVE  /\ ToBytes(f) \in Bytes /\ Len(ToBytes(f)) = HeaderLen + Len(f.payload)
           /\ Len(f.payload) \in Nat
           /\ ToBytes(f)[1] = f.version /\ ToBytes(f)[2] = f.kind
           /\ ToBytes(f)[3] = f.flags /\ ToBytes(f)[4] = f.payloadLen
           /\ \A i \in 1 .. Len(f.payload) : ToBytes(f)[HeaderLen + i] = f.payload[i]
<1>1. PICK h \in Bytes : h = <<f.version, f.kind, f.flags, f.payloadLen>>
  <2>1. <<f.version, f.kind, f.flags, f.payloadLen>> \in Bytes
    BY DEF FrameType, Bytes
  <2> QED
    BY <2>1
<1>2. /\ Len(h) = 4 /\ h[1] = f.version /\ h[2] = f.kind /\ h[3] = f.flags /\ h[4] = f.payloadLen
  BY <1>1
<1>3. PICK q \in Bytes : q = f.payload
  BY DEF FrameType
<1>4. ToBytes(f) = h \o q
  BY <1>1, <1>3 DEF ToBytes
<1>5. /\ h \o q \in Bytes /\ Len(h \o q) = Len(h) + Len(q) /\ Len(q) \in Nat
      /\ \A i \in 1 .. Len(h) : (h \o q)[i] = h[i]
      /\ \A i \in 1 .. Len(q) : (h \o q)[Len(h) + i] = q[i]
  BY ConcatParts
<1>6. \A i \in 1 .. 4 : (h \o q)[i] = h[i]
  BY <1>2, <1>5
<1> QED
  BY <1>2, <1>3, <1>4, <1>5, <1>6 DEF HeaderLen

(* What was read as a frame is the bytes of that frame *)
LEMMA FrameOfBytes ==
    ASSUME NEW b \in Bytes, IsFrame(b)
    PROVE  FromBytes(b) \in FrameType /\ ToBytes(FromBytes(b)) = b
<1> DEFINE f == FromBytes(b)
<1>1. /\ Len(b) \in Nat /\ Len(b) >= 4 /\ b[4] \in Nat /\ Len(b) = 4 + b[4]
      /\ b[1] \in Nat /\ b[2] \in Nat /\ b[3] \in Nat
  BY DEF IsFrame, HeaderLen, Bytes
<1>2. 5 \in 1 .. (Len(b) + 1) /\ Len(b) \in (5 - 1) .. Len(b)
  BY <1>1
<1>3. PICK q \in Bytes : q = SubSeq(b, 5, Len(b))
  BY <1>2, SubParts
<1>4. Len(q) = Len(b) - 5 + 1 /\ \A i \in 1 .. (Len(b) - 5 + 1) : q[i] = b[5 + i - 1]
  BY <1>2, <1>3, SubParts
<1>5. f = [version |-> b[1], kind |-> b[2], flags |-> b[3], payloadLen |-> b[4], payload |-> q]
  BY <1>3 DEF FromBytes, Drop, HeaderLen
<1>6. f \in FrameType
  BY <1>1, <1>5 DEF FrameType
<1>7. /\ f.version = b[1] /\ f.kind = b[2] /\ f.flags = b[3] /\ f.payloadLen = b[4] /\ f.payload = q
  BY <1>5
<1> HIDE DEF f
<1>8. /\ ToBytes(f) \in Bytes /\ Len(ToBytes(f)) = 4 + Len(q)
      /\ ToBytes(f)[1] = b[1] /\ ToBytes(f)[2] = b[2]
      /\ ToBytes(f)[3] = b[3] /\ ToBytes(f)[4] = b[4]
      /\ \A i \in 1 .. Len(q) : ToBytes(f)[4 + i] = q[i]
  BY <1>6, <1>7, FrameBytes DEF HeaderLen
<1>9. ASSUME NEW i \in 1 .. Len(ToBytes(f)) PROVE ToBytes(f)[i] = b[i]
  <2>1. CASE i \in 1 .. 4
    BY <1>8, <2>1
  <2>2. CASE i \notin 1 .. 4
    <3>1. Len(q) \in Nat /\ i \in 1 .. (4 + Len(q))
      BY <1>8 DEF Bytes
    <3>2. i - 4 \in 1 .. Len(q) /\ i = 4 + (i - 4) /\ 5 + (i - 4) - 1 = i
      BY <2>2, <3>1
    <3> QED
      BY <1>4, <1>8, <3>2
  <2> QED
    BY <2>1, <2>2
<1>10. Len(ToBytes(f)) = Len(b)
  BY <1>1, <1>4, <1>8
<1> QED
  BY <1>6, <1>8, <1>9, <1>10, SameBytes DEF f

(* What is sent as a frame is read as that frame *)
LEMMA BytesOfFrame ==
    ASSUME NEW f \in FrameType, ValidFrame(f)
    PROVE  IsFrame(ToBytes(f)) /\ FromBytes(ToBytes(f)) = f
<1>1. PICK b \in Bytes : b = ToBytes(f)
  BY FrameBytes
<1>2. PICK p \in Bytes : p = f.payload
  BY DEF FrameType
<1>3. /\ Len(b) = 4 + Len(p) /\ Len(p) \in Nat
      /\ b[1] = f.version /\ b[2] = f.kind /\ b[3] = f.flags /\ b[4] = f.payloadLen
      /\ \A i \in 1 .. Len(p) : b[4 + i] = p[i]
  BY <1>1, <1>2, FrameBytes DEF HeaderLen
<1>4. Len(p) \in 1 .. MaxFrame /\ f.payloadLen = Len(p)
  BY <1>2 DEF ValidFrame, Fits
<1>5. 5 \in 1 .. (Len(b) + 1) /\ Len(b) \in (5 - 1) .. Len(b)
  BY <1>3
<1>6. PICK q \in Bytes : q = SubSeq(b, 5, Len(b))
  BY <1>5, SubParts
<1>7. Len(q) = Len(b) - 5 + 1 /\ \A i \in 1 .. (Len(b) - 5 + 1) : q[i] = b[5 + i - 1]
  BY <1>5, <1>6, SubParts
<1>8. Len(q) = Len(p) /\ \A i \in 1 .. Len(q) : q[i] = p[i]
  <2>1. Len(q) = Len(p)
    BY <1>3, <1>7
  <2>2. ASSUME NEW i \in 1 .. Len(q) PROVE q[i] = p[i]
    <3>1. i \in 1 .. (Len(b) - 5 + 1) /\ 5 + i - 1 = 4 + i /\ i \in 1 .. Len(p)
      BY <1>3, <1>7, <2>1
    <3> QED
      BY <1>3, <1>7, <3>1
  <2> QED
    BY <2>1, <2>2
<1>9. q = p
  BY <1>8, SameBytes
<1>10. FromBytes(b) = [version |-> f.version, kind |-> f.kind, flags |-> f.flags,
                       payloadLen |-> f.payloadLen, payload |-> f.payload]
  <2>1. Drop(b, HeaderLen) = p
    BY <1>6, <1>9 DEF Drop, HeaderLen
  <2> QED
    BY <1>2, <1>3, <2>1 DEF FromBytes
<1>11. FromBytes(b) = f
  BY <1>10 DEF FrameType
<1>12. IsFrame(b)
  BY <1>3, <1>4, <1>11 DEF IsFrame, HeaderLen
<1> QED
  BY <1>1, <1>11, <1>12

-----------------------------------------------------------------------------
(* Messages *)

(* A sequence of one word *)
LEMMA OneByte ==
    ASSUME NEW x \in Nat
    PROVE  <<x>> \in Bytes /\ Len(<<x>>) = 1 /\ <<x>>[1] = x
BY DEF Bytes

(* Where each field is in the metadata of a message *)
LEMMA MetadataBytes ==
    ASSUME NEW m \in MessageType
    PROVE  /\ Metadata(m) \in Bytes /\ Len(Metadata(m)) = 6 + Len(m.header) /\ Len(m.header) \in Nat
           /\ Metadata(m)[1] = m.version /\ Metadata(m)[2] = m.id /\ Metadata(m)[3] = m.conversation
           /\ Metadata(m)[4] = m.sender /\ Metadata(m)[5] = m.recipient
           /\ Metadata(m)[6] = Len(m.header)
           /\ \A i \in 1 .. Len(m.header) : Metadata(m)[6 + i] = m.header[i]
<1>1. PICK h \in Bytes : h = m.header
  BY DEF MessageType
<1>2. Len(h) \in Nat
  BY DEF Bytes
<1>3. PICK p \in Bytes : p = <<m.version, m.id, m.conversation, m.sender, m.recipient, Len(h)>>
  <2>1. <<m.version, m.id, m.conversation, m.sender, m.recipient, Len(h)>> \in Bytes
    BY <1>2 DEF MessageType, Bytes
  <2> QED
    BY <2>1
<1>4. /\ Len(p) = 6 /\ p[1] = m.version /\ p[2] = m.id /\ p[3] = m.conversation
      /\ p[4] = m.sender /\ p[5] = m.recipient /\ p[6] = Len(h)
  BY <1>3
<1>5. Metadata(m) = p \o h
  BY <1>1, <1>3 DEF Metadata
<1>6. /\ p \o h \in Bytes /\ Len(p \o h) = Len(p) + Len(h)
      /\ \A i \in 1 .. Len(p) : (p \o h)[i] = p[i]
      /\ \A i \in 1 .. Len(h) : (p \o h)[Len(p) + i] = h[i]
  BY ConcatParts
<1>7. \A i \in 1 .. 6 : (p \o h)[i] = p[i]
  BY <1>4, <1>6
<1> QED
  BY <1>1, <1>2, <1>4, <1>5, <1>6, <1>7

(* Where each field is in the bytes of a message *)
LEMMA MessageBytes ==
    ASSUME NEW m \in MessageType
    PROVE  /\ Encode(m) \in Bytes /\ Len(Encode(m)) = 8 + Len(m.header) + Len(m.ciphertext)
           /\ Len(m.header) \in Nat /\ Len(m.ciphertext) \in Nat
           /\ \A i \in 1 .. (6 + Len(m.header)) : Encode(m)[i] = Metadata(m)[i]
           /\ Encode(m)[7 + Len(m.header)] = Len(m.ciphertext)
           /\ \A i \in 1 .. Len(m.ciphertext) : Encode(m)[7 + Len(m.header) + i] = m.ciphertext[i]
           /\ Encode(m)[8 + Len(m.header) + Len(m.ciphertext)] = m.sentAt
<1>1. PICK p \in Bytes : p = Metadata(m)
  BY MetadataBytes
<1>2. PICK c \in Bytes : c = m.ciphertext
  BY DEF MessageType
<1>3. PICK hn \in Nat : hn = Len(m.header)
  BY MetadataBytes
<1>4. Len(p) = 6 + hn
  BY <1>1, <1>3, MetadataBytes
<1>5. PICK cn \in Nat : cn = Len(c)
  BY DEF Bytes
<1>6. PICK a \in Bytes : a = p \o <<cn>>
  BY OneByte, ConcatParts
<1>7. /\ Len(a) = 7 + hn /\ a[7 + hn] = cn
      /\ \A i \in 1 .. (6 + hn) : a[i] = p[i]
  <2>1. PICK l \in Bytes : l = <<cn>>
    BY OneByte
  <2>2. Len(l) = 1 /\ l[1] = cn
    BY <2>1
  <2>3. /\ Len(a) = Len(p) + Len(l)
        /\ \A i \in 1 .. Len(p) : a[i] = p[i]
        /\ \A i \in 1 .. Len(l) : a[Len(p) + i] = l[i]
    BY <1>6, <2>1, ConcatParts
  <2>4. a[Len(p) + 1] = cn
    BY <2>2, <2>3
  <2> QED
    BY <1>4, <2>2, <2>3, <2>4
<1>8. PICK b \in Bytes : b = a \o c
  BY ConcatParts
<1>9. /\ Len(b) = 7 + hn + cn
      /\ \A i \in 1 .. (7 + hn) : b[i] = a[i]
      /\ \A i \in 1 .. cn : b[7 + hn + i] = c[i]
  <2>1. /\ Len(a \o c) = Len(a) + Len(c)
        /\ \A i \in 1 .. Len(a) : (a \o c)[i] = a[i]
        /\ \A i \in 1 .. Len(c) : (a \o c)[Len(a) + i] = c[i]
    BY ConcatParts
  <2> QED
    BY <1>5, <1>7, <1>8, <2>1
<1>10. PICK t \in Bytes : t = <<m.sentAt>> /\ Len(t) = 1 /\ t[1] = m.sentAt
  <2>1. m.sentAt \in Nat
    BY DEF MessageType
  <2> QED
    BY <2>1, OneByte
<1>11. PICK e \in Bytes : e = b \o t
  BY ConcatParts
<1>12. /\ Len(e) = 8 + hn + cn
       /\ \A i \in 1 .. (7 + hn + cn) : e[i] = b[i]
       /\ e[8 + hn + cn] = m.sentAt
  <2>1. /\ Len(e) = Len(b) + Len(t)
        /\ \A i \in 1 .. Len(b) : e[i] = b[i]
        /\ \A i \in 1 .. Len(t) : e[Len(b) + i] = t[i]
    BY <1>11, ConcatParts
  <2>2. e[Len(b) + 1] = m.sentAt
    BY <1>10, <2>1
  <2> QED
    BY <1>9, <1>10, <2>1, <2>2
<1>13. Encode(m) = e
  BY <1>1, <1>2, <1>5, <1>6, <1>8, <1>10, <1>11 DEF Encode
<1>14. \A i \in 1 .. (6 + hn) : e[i] = p[i]
  <2> TAKE i \in 1 .. (6 + hn)
  <2>1. i \in 1 .. (7 + hn) /\ i \in 1 .. (7 + hn + cn)
    OBVIOUS
  <2> QED
    BY <1>7, <1>9, <1>12, <2>1
<1>15. e[7 + hn] = cn
  <2>1. 7 + hn \in 1 .. (7 + hn) /\ 7 + hn \in 1 .. (7 + hn + cn)
    OBVIOUS
  <2> QED
    BY <1>7, <1>9, <1>12, <2>1
<1>16. \A i \in 1 .. cn : e[7 + hn + i] = c[i]
  <2> TAKE i \in 1 .. cn
  <2>1. 7 + hn + i \in 1 .. (7 + hn + cn)
    OBVIOUS
  <2> QED
    BY <1>9, <1>12, <2>1
<1> QED
  BY <1>1, <1>2, <1>3, <1>5, <1>12, <1>13, <1>14, <1>15, <1>16

(* What decode takes for a message is the bytes of that message *)
LEMMA MessageOfBytes ==
    ASSUME NEW b \in Bytes, IsMessage(b)
    PROVE  Decode(b) \in MessageType /\ Encode(Decode(b)) = b /\ Decode(b).version = Version
<1> DEFINE m == Decode(b)
<1>1. /\ Len(b) \in Nat /\ \A i \in 1 .. Len(b) : b[i] \in Nat
  BY DEF Bytes
<1>2. Len(b) >= 6 /\ b[1] = Version /\ b[6] \in Nat
  BY <1>1 DEF IsMessage
<1>3. PICK hn \in Nat : hn = b[6]
  BY <1>2
<1>4. Len(b) > 6 + hn
  BY <1>3 DEF IsMessage, CiphertextAt
<1>5. PICK cn \in Nat : cn = b[7 + hn]
  <2>1. 7 + hn \in 1 .. Len(b)
    BY <1>1, <1>4
  <2> QED
    BY <1>1, <2>1
<1>6. Len(b) = 8 + hn + cn
  <2>1. CiphertextAt(b) = 6 + hn /\ (6 + hn) + 1 = 7 + hn
    BY <1>3 DEF CiphertextAt
  <2>2. Len(b) = (6 + hn) + 2 + b[(6 + hn) + 1]
    BY <2>1 DEF IsMessage
  <2> QED
    BY <1>5, <2>1, <2>2
<1>7. PICK h \in Bytes : h = SubSeq(b, 7, 6 + hn)
  <2>1. 7 \in 1 .. (Len(b) + 1) /\ 6 + hn \in (7 - 1) .. Len(b)
    BY <1>6
  <2> QED
    BY <2>1, SubParts
<1>8. Len(h) = hn /\ \A i \in 1 .. hn : h[i] = b[6 + i]
  <2>1. 7 \in 1 .. (Len(b) + 1) /\ 6 + hn \in (7 - 1) .. Len(b)
    BY <1>6
  <2>2. Len(h) = (6 + hn) - 7 + 1 /\ \A i \in 1 .. ((6 + hn) - 7 + 1) : h[i] = b[7 + i - 1]
    BY <1>7, <2>1, SubParts
  <2>3. (6 + hn) - 7 + 1 = hn /\ \A i \in 1 .. hn : 7 + i - 1 = 6 + i
    OBVIOUS
  <2> QED
    BY <2>2, <2>3
<1>9. PICK c \in Bytes : c = SubSeq(b, 8 + hn, 7 + hn + cn)
  <2>1. 8 + hn \in 1 .. (Len(b) + 1) /\ 7 + hn + cn \in ((8 + hn) - 1) .. Len(b)
    BY <1>6
  <2> QED
    BY <2>1, SubParts
<1>10. Len(c) = cn /\ \A i \in 1 .. cn : c[i] = b[7 + hn + i]
  <2>1. 8 + hn \in 1 .. (Len(b) + 1) /\ 7 + hn + cn \in ((8 + hn) - 1) .. Len(b)
    BY <1>6
  <2>2. /\ Len(c) = (7 + hn + cn) - (8 + hn) + 1
        /\ \A i \in 1 .. ((7 + hn + cn) - (8 + hn) + 1) : c[i] = b[(8 + hn) + i - 1]
    BY <1>9, <2>1, SubParts
  <2>3. (7 + hn + cn) - (8 + hn) + 1 = cn /\ \A i \in 1 .. cn : (8 + hn) + i - 1 = 7 + hn + i
    OBVIOUS
  <2> QED
    BY <2>2, <2>3
<1>11. m = [version |-> b[1], id |-> b[2], conversation |-> b[3], sender |-> b[4],
            recipient |-> b[5], header |-> h, ciphertext |-> c, sentAt |-> b[8 + hn + cn]]
  <2>1. CiphertextAt(b) = 6 + hn
    BY <1>3 DEF CiphertextAt
  <2>2. /\ (6 + hn) + 2 = 8 + hn /\ (6 + hn) + 1 = 7 + hn /\ (6 + hn) + 1 + cn = 7 + hn + cn
        /\ (6 + hn) + 2 + cn = 8 + hn + cn
    OBVIOUS
  <2> QED
    BY <1>5, <1>7, <1>9, <2>1, <2>2 DEF Decode
<1>12. b[1] \in Nat /\ b[2] \in Nat /\ b[3] \in Nat /\ b[4] \in Nat /\ b[5] \in Nat /\ b[8 + hn + cn] \in Nat
  <2>1. 8 + hn + cn \in 1 .. Len(b)
    BY <1>6
  <2> QED
    BY <1>1, <1>2, <2>1
<1>13. m \in MessageType
  BY <1>11, <1>12 DEF MessageType
<1>14. /\ m.version = b[1] /\ m.id = b[2] /\ m.conversation = b[3] /\ m.sender = b[4]
       /\ m.recipient = b[5] /\ m.header = h /\ m.ciphertext = c /\ m.sentAt = b[8 + hn + cn]
  BY <1>11
<1> HIDE DEF m
<1>15. PICK e \in Bytes : e = Encode(m)
  BY <1>13, MessageBytes
<1>16. /\ Len(e) = 8 + hn + cn /\ e[7 + hn] = cn /\ e[8 + hn + cn] = b[8 + hn + cn]
       /\ \A i \in 1 .. cn : e[7 + hn + i] = c[i]
       /\ \A i \in 1 .. (6 + hn) : e[i] = Metadata(m)[i]
  BY <1>8, <1>10, <1>13, <1>14, <1>15, MessageBytes
<1>17. /\ Metadata(m)[1] = b[1] /\ Metadata(m)[2] = b[2] /\ Metadata(m)[3] = b[3]
       /\ Metadata(m)[4] = b[4] /\ Metadata(m)[5] = b[5] /\ Metadata(m)[6] = b[6]
       /\ \A i \in 1 .. hn : Metadata(m)[6 + i] = h[i]
  BY <1>3, <1>8, <1>13, <1>14, MetadataBytes
<1>18. ASSUME NEW i \in 1 .. Len(e) PROVE e[i] = b[i]
  <2>1. CASE i \in 1 .. 6
    <3>1. i \in 1 .. (6 + hn) /\ Metadata(m)[i] = b[i]
      BY <1>17, <2>1
    <3> QED
      BY <1>16, <3>1
  <2>2. CASE i \in 7 .. (6 + hn)
    <3>1. i - 6 \in 1 .. hn /\ i = 6 + (i - 6) /\ i \in 1 .. (6 + hn)
      BY <2>2
    <3>2. e[i] = Metadata(m)[6 + (i - 6)] /\ h[i - 6] = b[6 + (i - 6)]
      BY <1>8, <1>16, <3>1
    <3> QED
      BY <1>17, <3>1, <3>2
  <2>3. CASE i = 7 + hn
    BY <1>5, <1>16, <2>3
  <2>4. CASE i \in (8 + hn) .. (7 + hn + cn)
    <3>1. i - (7 + hn) \in 1 .. cn /\ i = 7 + hn + (i - (7 + hn))
      BY <2>4
    <3> QED
      BY <1>10, <1>16, <3>1
  <2>5. CASE i = 8 + hn + cn
    BY <1>16, <2>5
  <2> QED
    BY <1>16, <2>1, <2>2, <2>3, <2>4, <2>5
<1>19. e = b
  BY <1>6, <1>16, <1>18, SameBytes
<1> QED
  BY <1>2, <1>13, <1>14, <1>15, <1>19 DEF m

(* What encode writes of a message is decoded to it *)
LEMMA BytesOfMessage ==
    ASSUME NEW m \in MessageType, m.version = Version
    PROVE  IsMessage(Encode(m)) /\ Decode(Encode(m)) = m
<1>1. PICK b \in Bytes : b = Encode(m)
  BY MessageBytes
<1>2. PICK h \in Bytes : h = m.header
  BY DEF MessageType
<1>3. PICK c \in Bytes : c = m.ciphertext
  BY DEF MessageType
<1>4. PICK hn \in Nat : hn = Len(h)
  BY DEF Bytes
<1>5. PICK cn \in Nat : cn = Len(c)
  BY DEF Bytes
<1>6. /\ Len(b) = 8 + hn + cn /\ b[7 + hn] = cn /\ b[8 + hn + cn] = m.sentAt
      /\ \A i \in 1 .. cn : b[7 + hn + i] = c[i]
      /\ \A i \in 1 .. (6 + hn) : b[i] = Metadata(m)[i]
  BY <1>1, <1>2, <1>3, <1>4, <1>5, MessageBytes
<1>7. /\ b[1] = m.version /\ b[2] = m.id /\ b[3] = m.conversation /\ b[4] = m.sender
      /\ b[5] = m.recipient /\ b[6] = hn /\ \A i \in 1 .. hn : b[6 + i] = h[i]
  <2>1. /\ Metadata(m)[1] = m.version /\ Metadata(m)[2] = m.id /\ Metadata(m)[3] = m.conversation
        /\ Metadata(m)[4] = m.sender /\ Metadata(m)[5] = m.recipient /\ Metadata(m)[6] = hn
        /\ \A i \in 1 .. hn : Metadata(m)[6 + i] = h[i]
    BY <1>2, <1>4, MetadataBytes
  <2>2. /\ \A i \in 1 .. 6 : i \in 1 .. (6 + hn)
        /\ \A i \in 1 .. hn : 6 + i \in 1 .. (6 + hn)
    OBVIOUS
  <2> QED
    BY <1>6, <2>1, <2>2
<1>8. CiphertextAt(b) = 6 + hn /\ b[(6 + hn) + 1] = cn
  <2>1. (6 + hn) + 1 = 7 + hn
    OBVIOUS
  <2> QED
    BY <1>6, <1>7, <2>1 DEF CiphertextAt
<1>9. IsMessage(b)
  <2>1. Len(b) >= 6 /\ Len(b) > 6 + hn /\ Len(b) = (6 + hn) + 2 + cn
    BY <1>6
  <2> QED
    BY <1>7, <1>8, <2>1 DEF IsMessage
<1>10. SubSeq(b, 7, 6 + hn) = h
  <2>1. 7 \in 1 .. (Len(b) + 1) /\ 6 + hn \in (7 - 1) .. Len(b)
    BY <1>6
  <2>2. PICK g \in Bytes : g = SubSeq(b, 7, 6 + hn)
    BY <2>1, SubParts
  <2>3. Len(g) = (6 + hn) - 7 + 1 /\ \A i \in 1 .. ((6 + hn) - 7 + 1) : g[i] = b[7 + i - 1]
    BY <2>1, <2>2, SubParts
  <2>4. (6 + hn) - 7 + 1 = hn /\ \A i \in 1 .. hn : 7 + i - 1 = 6 + i
    OBVIOUS
  <2>5. Len(g) = Len(h) /\ \A i \in 1 .. Len(g) : g[i] = h[i]
    BY <1>4, <1>7, <2>3, <2>4
  <2> QED
    BY <2>2, <2>5, SameBytes
<1>11. SubSeq(b, 8 + hn, 7 + hn + cn) = c
  <2>1. 8 + hn \in 1 .. (Len(b) + 1) /\ 7 + hn + cn \in ((8 + hn) - 1) .. Len(b)
    BY <1>6
  <2>2. PICK g \in Bytes : g = SubSeq(b, 8 + hn, 7 + hn + cn)
    BY <2>1, SubParts
  <2>3. /\ Len(g) = (7 + hn + cn) - (8 + hn) + 1
        /\ \A i \in 1 .. ((7 + hn + cn) - (8 + hn) + 1) : g[i] = b[(8 + hn) + i - 1]
    BY <2>1, <2>2, SubParts
  <2>4. (7 + hn + cn) - (8 + hn) + 1 = cn /\ \A i \in 1 .. cn : (8 + hn) + i - 1 = 7 + hn + i
    OBVIOUS
  <2>5. Len(g) = Len(c) /\ \A i \in 1 .. Len(g) : g[i] = c[i]
    BY <1>5, <1>6, <2>3, <2>4
  <2> QED
    BY <2>2, <2>5, SameBytes
<1>12. Decode(b) = [version |-> m.version, id |-> m.id, conversation |-> m.conversation,
                    sender |-> m.sender, recipient |-> m.recipient, header |-> m.header,
                    ciphertext |-> m.ciphertext, sentAt |-> m.sentAt]
  <2>1. /\ (6 + hn) + 2 = 8 + hn /\ (6 + hn) + 1 + cn = 7 + hn + cn
        /\ (6 + hn) + 2 + cn = 8 + hn + cn
    OBVIOUS
  <2> QED
    BY <1>2, <1>3, <1>6, <1>7, <1>8, <1>10, <1>11, <2>1 DEF Decode
<1>13. Decode(b) = m
  BY <1>12 DEF MessageType
<1> QED
  BY <1>1, <1>9, <1>13

(* The associated data names every field but the ciphertext *)
LEMMA SameAad ==
    ASSUME NEW m \in MessageType, NEW n \in MessageType, Aad(m) = Aad(n), m.ciphertext = n.ciphertext
    PROVE  m = n
<1>1. PICK p \in Bytes : p = Metadata(m)
  BY MetadataBytes
<1>2. PICK q \in Bytes : q = Metadata(n)
  BY MetadataBytes
<1>3. m.sentAt \in Nat /\ n.sentAt \in Nat
  BY DEF MessageType
<1>4. Append(p, m.sentAt) = Append(q, n.sentAt)
  BY <1>1, <1>2 DEF Aad
<1>5. Len(p) = Len(q) /\ m.sentAt = n.sentAt /\ \A i \in 1 .. Len(p) : p[i] = q[i]
  <2>1. ASSUME NEW r \in Bytes, NEW x \in Nat
        PROVE  /\ Len(Append(r, x)) = Len(r) + 1 /\ Len(r) \in Nat
               /\ Append(r, x)[Len(r) + 1] = x
               /\ \A i \in 1 .. Len(r) : Append(r, x)[i] = r[i]
    BY DEF Bytes
  <2>2. /\ Len(Append(p, m.sentAt)) = Len(p) + 1 /\ Len(p) \in Nat
        /\ Append(p, m.sentAt)[Len(p) + 1] = m.sentAt
        /\ \A i \in 1 .. Len(p) : Append(p, m.sentAt)[i] = p[i]
    BY <1>3, <2>1
  <2>3. /\ Len(Append(q, n.sentAt)) = Len(q) + 1 /\ Len(q) \in Nat
        /\ Append(q, n.sentAt)[Len(q) + 1] = n.sentAt
        /\ \A i \in 1 .. Len(q) : Append(q, n.sentAt)[i] = q[i]
    BY <1>3, <2>1
  <2>4. Len(p) = Len(q)
    BY <1>4, <2>2, <2>3
  <2> QED
    BY <1>4, <2>2, <2>3, <2>4
<1>6. PICK g \in Bytes : g = m.header
  BY DEF MessageType
<1>7. PICK h \in Bytes : h = n.header
  BY DEF MessageType
<1>8. /\ Len(p) = 6 + Len(g) /\ Len(g) \in Nat
      /\ p[1] = m.version /\ p[2] = m.id /\ p[3] = m.conversation /\ p[4] = m.sender /\ p[5] = m.recipient
      /\ \A i \in 1 .. Len(g) : p[6 + i] = g[i]
  BY <1>1, <1>6, MetadataBytes
<1>9. /\ Len(q) = 6 + Len(h) /\ Len(h) \in Nat
      /\ q[1] = n.version /\ q[2] = n.id /\ q[3] = n.conversation /\ q[4] = n.sender /\ q[5] = n.recipient
      /\ \A i \in 1 .. Len(h) : q[6 + i] = h[i]
  BY <1>2, <1>7, MetadataBytes
<1>10. Len(g) = Len(h)
  <2>1. Len(p) = 6 + Len(g) /\ Len(q) = 6 + Len(h) /\ Len(g) \in Nat /\ Len(h) \in Nat
    BY <1>8, <1>9
  <2>2. Len(p) = Len(q)
    BY <1>5
  <2> QED
    BY <2>1, <2>2
<1>11. \A i \in 1 .. Len(g) : g[i] = h[i]
  <2> TAKE i \in 1 .. Len(g)
  <2>1. 6 + i \in 1 .. Len(p) /\ i \in 1 .. Len(h)
    BY <1>8, <1>10
  <2> QED
    BY <1>5, <1>8, <1>9, <2>1
<1>12. m.header = n.header
  BY <1>6, <1>7, <1>10, <1>11, SameBytes
<1>13. /\ m.version = n.version /\ m.id = n.id /\ m.conversation = n.conversation
       /\ m.sender = n.sender /\ m.recipient = n.recipient
  <2>1. \A i \in 1 .. 6 : p[i] = q[i]
    BY <1>5, <1>8
  <2> QED
    BY <1>8, <1>9, <2>1
<1> QED
  BY <1>5, <1>12, <1>13 DEF MessageType

-----------------------------------------------------------------------------
(* What the clients and the gateway put into frames *)

(* What the assumptions say of the constants *)
LEMMA Constants ==
    /\ Version \in Nat /\ MaxHeader \in Nat /\ MaxCiphertext \in Nat /\ MaxEnvelopeHeader \in Nat
    /\ MaxEnvelopeCiphertext \in Nat /\ MaxFrame \in Nat /\ MaxFrame >= 8
    /\ 8 + MaxHeader + MaxCiphertext <= MaxFrame
    /\ Alice \in Nat /\ Bob \in Nat /\ Alice # Bob /\ Devices = {Alice, Bob}
    /\ Capacity \in Nat /\ MaxHeld \in Nat /\ MaxSkip \in Nat /\ MaxSealed \in Nat
    /\ MaxSent \in Nat /\ MaxFaults \in Nat /\ MaxSessions \in Nat /\ DamageWords \subseteq Nat
    /\ Units \subseteq 1 .. MaxEnvelopeCiphertext
BY WireBounds, SessionBounds DEF Devices

(* Frame::new makes a frame *)
LEMMA FrameMade ==
    ASSUME NEW kind \in Nat, NEW flags \in Nat, NEW p \in Bytes
    PROVE  LET f == NewFrame(kind, flags, p) IN
           /\ f \in FrameType /\ f.kind = kind /\ f.payload = p
           /\ kind \in FrameKinds /\ Fits(p) => ValidFrame(f)
<1> DEFINE f == NewFrame(kind, flags, p)
<1>1. Len(p) \in Nat /\ Version \in Nat
  BY Constants DEF Bytes
<1>2. f = [version |-> Version, kind |-> kind, flags |-> flags, payloadLen |-> Len(p), payload |-> p]
  BY DEF NewFrame
<1>3. f \in FrameType
  BY <1>1, <1>2 DEF FrameType
<1>4. f.version = Version /\ f.kind = kind /\ f.payloadLen = Len(p) /\ f.payload = p
  BY <1>2
<1> HIDE DEF f
<1>5. kind \in FrameKinds /\ Fits(p) => ValidFrame(f)
  BY <1>4 DEF ValidFrame
<1> QED
  BY <1>3, <1>4, <1>5 DEF f

(* What the gateway accepts can be sent, and is what the recipient decodes *)
LEMMA ValidIsSent ==
    ASSUME NEW m \in MessageType, ValidMessage(m)
    PROVE  /\ Fits(Encode(m)) /\ IsFrameWithMessage(ToBytes(MessageFrame(m)))
           /\ Received(ToBytes(MessageFrame(m))) = m
<1>1. PICK e \in Bytes : e = Encode(m)
  BY MessageBytes
<1>2. /\ Len(m.header) \in 1 .. MaxHeader /\ Len(m.ciphertext) \in 1 .. MaxCiphertext
      /\ m.version = Version
  BY DEF ValidMessage
<1>3. Len(e) = 8 + Len(m.header) + Len(m.ciphertext)
  BY <1>1, MessageBytes
<1>4. Fits(e)
  <2>1. PICK hn \in Nat, cn \in Nat : hn = Len(m.header) /\ cn = Len(m.ciphertext)
    BY MessageBytes
  <2>2. hn <= MaxHeader /\ cn <= MaxCiphertext /\ Len(e) = 8 + hn + cn
    BY <1>2, <1>3, <2>1, Constants
  <2> QED
    BY <2>2, Constants DEF Fits
<1>5. PICK f \in FrameType : f = MessageFrame(m) /\ f.kind = EncryptedMessage /\ f.payload = e /\ ValidFrame(f)
  BY <1>1, <1>4, FrameMade DEF MessageFrame, EncryptedMessage, FrameKinds
<1>6. IsFrame(ToBytes(f)) /\ FromBytes(ToBytes(f)) = f
  BY <1>5, BytesOfFrame
<1>7. IsMessage(e) /\ Decode(e) = m
  BY <1>1, <1>2, BytesOfMessage
<1> QED
  BY <1>1, <1>4, <1>5, <1>6, <1>7 DEF IsFrameWithMessage, Received

(* What the gateway or a client takes for a message *)
LEMMA ReceivedTyped ==
    ASSUME NEW b \in Bytes, IsFrame(b), IsMessage(FromBytes(b).payload)
    PROVE  FromBytes(b).payload \in Bytes /\ Received(b) \in MessageType
<1>1. PICK p \in Bytes : p = FromBytes(b).payload
  BY FrameOfBytes DEF FrameType
<1> QED
  BY <1>1, MessageOfBytes DEF Received

-----------------------------------------------------------------------------
(* The invariant *)

\* What a socket carries: binary messages, text and control messages.
SocketMessages == Bytes \cup {Text, Control}

Typed ==
    /\ phase \in [Devices -> {"hello", "open", "closed"}]
    /\ queue \in [Devices -> Seq(FrameType)] /\ pushed \in [Devices -> Seq(FrameType)]
    /\ wire \in [Devices -> Seq(SocketMessages)]
    /\ out \in [Devices -> Seq(Bytes)]
    /\ held \subseteq MessageType /\ sealed \subseteq MessageType /\ opened \subseteq sealed
    /\ taken \in [Devices -> Nat]
    /\ faults \in 0 .. MaxFaults /\ ended \in 0 .. MaxSessions

(* Alice seals valid envelopes for Bob, one under each counter, and leaves none out *)
Sealing ==
    /\ IsFiniteSet(sealed) /\ Cardinality(sealed) <= MaxSealed
    /\ \A s \in sealed :
        /\ s.sender = Alice /\ s.recipient = Bob
        /\ ValidEnvelope(s) /\ IsHeader(s.header)
        /\ CounterOf(s.header) < Cardinality(sealed)
    /\ \A s, t \in sealed : CounterOf(s.header) = CounterOf(t.header) => s = t
    /\ \A k \in 0 .. (Cardinality(sealed) - 1) : \E s \in sealed : CounterOf(s.header) = k

Bounded ==
    /\ \A d \in Devices : Len(queue[d]) <= Capacity
    /\ \A d \in Devices : phase[d] = "closed" => wire[d] = <<>>
    /\ \A m \in held : ValidMessage(m)

(* After its first k frames, what d pushed is in the socket and then in the queue *)
Continues(w, q, p, k) ==
    /\ Len(p) = k + Len(w) + Len(q)
    /\ \A i \in 1 .. Len(w) : w[i] = ToBytes(p[k + i])
    /\ \A i \in 1 .. Len(q) : q[i] = p[k + Len(w) + i]

InOrder ==
    \A d \in Devices :
        faults = 0 /\ phase[d] # "closed" =>
            /\ taken[d] \in 0 .. Len(pushed[d])
            /\ Continues(wire[d], queue[d], pushed[d], taken[d])

WireInv == Typed /\ Sealing /\ Bounded /\ InOrder

-----------------------------------------------------------------------------
(* The order of the frames of a session, as sequences *)

(* The front of a queue that is not empty, and the rest *)
LEMMA Pop ==
    ASSUME NEW S, NEW s \in Seq(S), s # <<>>
    PROVE  /\ Len(s) \in Nat \ {0} /\ Head(s) = s[1] /\ Head(s) \in S
           /\ Tail(s) \in Seq(S) /\ Len(Tail(s)) = Len(s) - 1
           /\ \A i \in 1 .. (Len(s) - 1) : Tail(s)[i] = s[i + 1]
OBVIOUS

(* A queue with one more at its end *)
LEMMA Put ==
    ASSUME NEW S, NEW s \in Seq(S), NEW x \in S
    PROVE  /\ Append(s, x) \in Seq(S) /\ Len(Append(s, x)) = Len(s) + 1 /\ Len(s) \in Nat
           /\ Append(s, x)[Len(s) + 1] = x
           /\ \A i \in 1 .. Len(s) : Append(s, x)[i] = s[i]
OBVIOUS

(* A frame is pushed *)
LEMMA PushContinues ==
    ASSUME NEW w \in Seq(SocketMessages), NEW q \in Seq(FrameType), NEW p \in Seq(FrameType),
           NEW k \in 0 .. Len(p), Continues(w, q, p, k), NEW f \in FrameType
    PROVE  k \in 0 .. Len(Append(p, f)) /\ Continues(w, Append(q, f), Append(p, f), k)
<1>1. PICK p1 \in Seq(FrameType) : p1 = Append(p, f)
  BY Put
<1>2. PICK q1 \in Seq(FrameType) : q1 = Append(q, f)
  BY Put
<1>3. /\ Len(p1) = Len(p) + 1 /\ p1[Len(p) + 1] = f /\ \A i \in 1 .. Len(p) : p1[i] = p[i]
      /\ Len(p) \in Nat
  BY <1>1, Put
<1>4. /\ Len(q1) = Len(q) + 1 /\ q1[Len(q) + 1] = f /\ \A i \in 1 .. Len(q) : q1[i] = q[i]
      /\ Len(q) \in Nat
  BY <1>2, Put
<1>5. Len(w) \in Nat /\ Len(p) = k + Len(w) + Len(q)
  BY DEF Continues
<1>6. ASSUME NEW i \in 1 .. Len(w) PROVE w[i] = ToBytes(p1[k + i])
  <2>1. k + i \in 1 .. Len(p)
    BY <1>4, <1>5
  <2> QED
    BY <1>3, <2>1 DEF Continues
<1>7. ASSUME NEW i \in 1 .. Len(q1) PROVE q1[i] = p1[k + Len(w) + i]
  <2>1. CASE i = Len(q) + 1
    <3>1. k + Len(w) + i = Len(p) + 1
      BY <1>4, <1>5, <2>1
    <3> QED
      BY <1>3, <1>4, <2>1, <3>1
  <2>2. CASE i # Len(q) + 1
    <3>1. i \in 1 .. Len(q) /\ k + Len(w) + i \in 1 .. Len(p)
      BY <1>4, <1>5, <2>2
    <3> QED
      BY <1>3, <1>4, <3>1 DEF Continues
  <2> QED
    BY <2>1, <2>2
<1>8. Len(p1) = k + Len(w) + Len(q1) /\ k \in 0 .. Len(p1)
  BY <1>3, <1>4, <1>5
<1> QED
  BY <1>1, <1>2, <1>6, <1>7, <1>8 DEF Continues

(* The first frame of the queue goes into the socket *)
LEMMA TransmitContinues ==
    ASSUME NEW w \in Seq(SocketMessages), NEW q \in Seq(FrameType), NEW p \in Seq(FrameType),
           NEW k \in 0 .. Len(p), Continues(w, q, p, k), q # <<>>
    PROVE  Continues(Append(w, ToBytes(Head(q))), Tail(q), p, k)
<1>1. /\ Len(q) \in Nat \ {0} /\ Head(q) = q[1] /\ Head(q) \in FrameType
      /\ Tail(q) \in Seq(FrameType) /\ Len(Tail(q)) = Len(q) - 1
      /\ \A i \in 1 .. (Len(q) - 1) : Tail(q)[i] = q[i + 1]
  BY Pop
<1>2. ToBytes(Head(q)) \in SocketMessages
  BY <1>1, FrameBytes DEF SocketMessages
<1>3. PICK w1 \in Seq(SocketMessages) : w1 = Append(w, ToBytes(Head(q)))
  BY <1>2, Put
<1>4. /\ Len(w1) = Len(w) + 1 /\ Len(w) \in Nat /\ w1[Len(w) + 1] = ToBytes(q[1])
      /\ \A i \in 1 .. Len(w) : w1[i] = w[i]
  BY <1>1, <1>2, <1>3, Put
<1>5. Len(p) = k + Len(w) + Len(q) /\ Len(p) = k + Len(w1) + Len(Tail(q))
  BY <1>1, <1>4 DEF Continues
<1>6. q[1] = p[k + Len(w) + 1]
  BY <1>1 DEF Continues
<1>7. ASSUME NEW i \in 1 .. Len(w1) PROVE w1[i] = ToBytes(p[k + i])
  <2>1. CASE i = Len(w) + 1
    <3>1. k + i = k + Len(w) + 1
      BY <1>4, <2>1
    <3> QED
      BY <1>4, <1>6, <2>1, <3>1
  <2>2. CASE i # Len(w) + 1
    <3>1. i \in 1 .. Len(w)
      BY <1>4, <2>2
    <3> QED
      BY <1>4, <3>1 DEF Continues
  <2> QED
    BY <2>1, <2>2
<1>8. ASSUME NEW i \in 1 .. Len(Tail(q)) PROVE Tail(q)[i] = p[k + Len(w1) + i]
  <2>1. i \in 1 .. (Len(q) - 1) /\ i + 1 \in 1 .. Len(q) /\ k + Len(w) + (i + 1) = k + Len(w1) + i
    BY <1>1, <1>4
  <2>2. q[i + 1] = p[k + Len(w) + (i + 1)]
    BY <2>1 DEF Continues
  <2> QED
    BY <1>1, <2>1, <2>2
<1> QED
  BY <1>3, <1>5, <1>7, <1>8 DEF Continues

(* The first message of the socket is read *)
LEMMA ReadContinues ==
    ASSUME NEW w \in Seq(SocketMessages), NEW q \in Seq(FrameType), NEW p \in Seq(FrameType),
           NEW k \in 0 .. Len(p), Continues(w, q, p, k), w # <<>>
    PROVE  k + 1 \in 0 .. Len(p) /\ Continues(Tail(w), q, p, k + 1)
<1>1. /\ Len(w) \in Nat \ {0} /\ Len(Tail(w)) = Len(w) - 1
      /\ \A i \in 1 .. (Len(w) - 1) : Tail(w)[i] = w[i + 1]
  BY Pop
<1>2. /\ Len(p) = k + Len(w) + Len(q) /\ Len(p) \in Nat /\ Len(q) \in Nat
      /\ Len(p) = (k + 1) + Len(Tail(w)) + Len(q)
  BY <1>1 DEF Continues
<1>3. ASSUME NEW i \in 1 .. Len(Tail(w)) PROVE Tail(w)[i] = ToBytes(p[(k + 1) + i])
  <2>1. i \in 1 .. (Len(w) - 1) /\ i + 1 \in 1 .. Len(w) /\ k + (i + 1) = (k + 1) + i
    BY <1>1
  <2>2. w[i + 1] = ToBytes(p[k + (i + 1)])
    BY <2>1 DEF Continues
  <2> QED
    BY <1>1, <2>1, <2>2
<1>4. ASSUME NEW i \in 1 .. Len(q) PROVE q[i] = p[(k + 1) + Len(Tail(w)) + i]
  <2>1. (k + 1) + Len(Tail(w)) + i = k + Len(w) + i
    BY <1>1, <1>2
  <2> QED
    BY <2>1 DEF Continues
<1>5. k + 1 \in 0 .. Len(p)
  BY <1>1, <1>2
<1> QED
  BY <1>2, <1>3, <1>4, <1>5 DEF Continues

(* A new session has what is in the queue before it *)
LEMMA AnewContinues ==
    ASSUME NEW q \in Seq(FrameType)
    PROVE  0 \in 0 .. Len(q) /\ Continues(<<>>, q, q, 0)
<1>1. Len(q) \in Nat /\ Len(<<>>) = 0
  OBVIOUS
<1>2. \A i \in 1 .. Len(q) : 0 + 0 + i = i
  BY <1>1
<1> QED
  BY <1>1, <1>2 DEF Continues

-----------------------------------------------------------------------------
(* The steps of the clients *)

(* What a client sends is a frame *)
LEMMA FramesTyped ==
    ASSUME Typed, NEW d \in Devices, NEW f \in FramesOf(d)
    PROVE  f \in FrameType
<1>1. d \in Nat /\ <<d>> \in Bytes
  BY Constants DEF Bytes
<1>2. CASE f = Hello(d)
  BY <1>1, <1>2, FrameMade DEF Hello, ClientHello
<1>3. CASE \E kind \in {Ping, Pong} : f = NewFrame(kind, 0, <<d>>)
  <2>1. PICK kind \in Nat : f = NewFrame(kind, 0, <<d>>)
    BY <1>3 DEF Ping, Pong
  <2> QED
    BY <1>1, <2>1, FrameMade
<1>4. CASE \E m \in sealed : f = MessageFrame(m)
  <2>1. PICK m \in MessageType : f = MessageFrame(m)
    BY <1>4 DEF Typed
  <2> QED
    BY <2>1, MessageBytes, FrameMade DEF MessageFrame, EncryptedMessage
<1>5. CASE \E m \in opened : f = NewFrame(MessageAck, 0, <<m.id>>)
  <2>1. PICK m \in MessageType : f = NewFrame(MessageAck, 0, <<m.id>>)
    BY <1>5 DEF Typed
  <2>2. m.id \in Nat
    BY DEF MessageType
  <2> QED
    BY <2>1, <2>2, OneByte, FrameMade DEF MessageAck
<1> QED
  BY <1>2, <1>3, <1>4, <1>5 DEF FramesOf

(* Offer keeps the queue bounded and the session in order *)
LEMMA OfferKeeps ==
    ASSUME WireInv, NEW d \in Devices, NEW f \in FrameType, Offer(d, f),
           sealed' \subseteq MessageType, opened \subseteq sealed', Sealing'
    PROVE  WireInv'
<1>1. /\ queue \in [Devices -> Seq(FrameType)] /\ pushed \in [Devices -> Seq(FrameType)]
      /\ wire \in [Devices -> Seq(SocketMessages)]
  BY DEF WireInv, Typed
<1>2. Len(queue[d]) \in Nat /\ Capacity \in Nat
  BY <1>1, Constants
<1>3. UNCHANGED <<phase, wire, out, held, opened, taken, faults, ended>>
  BY DEF Offer
<1>4. CASE Len(queue[d]) < Capacity
  <2>1. /\ queue' = [queue EXCEPT ![d] = Append(queue[d], f)]
        /\ pushed' = [pushed EXCEPT ![d] = Append(pushed[d], f)]
    <3>1. Push(queue[d], f) = Append(queue[d], f)
      BY <1>2, <1>4 DEF Push
    <3> QED
      BY <1>4, <3>1 DEF Offer
  <2>2. PICK q \in Seq(FrameType) : q = Append(queue[d], f) /\ Len(q) = Len(queue[d]) + 1
    <3>1. PICK r \in Seq(FrameType) : r = queue[d]
      BY <1>1
    <3>2. Append(r, f) \in Seq(FrameType) /\ Len(Append(r, f)) = Len(r) + 1
      BY Put
    <3> QED
      BY <3>1, <3>2
  <2>3. PICK p \in Seq(FrameType) : p = Append(pushed[d], f)
    BY <1>1, Put
  <2>4. queue' = [queue EXCEPT ![d] = q] /\ pushed' = [pushed EXCEPT ![d] = p]
    BY <2>1, <2>2, <2>3
  <2>5. Typed'
    BY <1>1, <1>3, <2>4 DEF WireInv, Typed
  <2>6. Bounded'
    BY <1>1, <1>2, <1>3, <1>4, <2>2, <2>4 DEF WireInv, Bounded
  <2>7. ASSUME NEW e \in Devices, faults' = 0, phase'[e] # "closed"
        PROVE  /\ taken'[e] \in 0 .. Len(pushed'[e])
               /\ Continues(wire'[e], queue'[e], pushed'[e], taken'[e])
    <3>1. PICK k \in 0 .. Len(pushed[e]) : k = taken[e] /\ Continues(wire[e], queue[e], pushed[e], k)
      BY <1>3, <2>7 DEF WireInv, InOrder
    <3>2. CASE e = d
      <4>1. wire[d] \in Seq(SocketMessages) /\ queue[d] \in Seq(FrameType) /\ pushed[d] \in Seq(FrameType)
        BY <1>1
      <4>2. k \in 0 .. Len(p) /\ Continues(wire[d], q, p, k)
        BY <2>2, <2>3, <3>1, <3>2, <4>1, PushContinues
      <4>3. wire'[e] = wire[d] /\ queue'[e] = q /\ pushed'[e] = p /\ taken'[e] = k
        BY <1>1, <1>3, <2>4, <3>1, <3>2
      <4> QED
        BY <4>2, <4>3
    <3>3. CASE e # d
      <4>1. wire'[e] = wire[e] /\ queue'[e] = queue[e] /\ pushed'[e] = pushed[e] /\ taken'[e] = k
        BY <1>1, <1>3, <2>4, <3>1, <3>3
      <4> QED
        BY <3>1, <4>1
    <3> QED
      BY <3>2, <3>3
  <2>8. InOrder'
    BY <2>7 DEF InOrder
  <2> QED
    BY <2>5, <2>6, <2>8 DEF WireInv
<1>5. CASE ~(Len(queue[d]) < Capacity)
  <2>1. queue' = queue /\ pushed' = pushed
    BY <1>1, <1>2, <1>5 DEF Offer, Push
  <2> QED
    BY <1>3, <2>1 DEF WireInv, Typed, Bounded, InOrder
<1> QED
  BY <1>4, <1>5

(* A frame of a client is queued *)
LEMMA SubmitKeeps ==
    ASSUME WireInv, NEW d \in Devices, NEW f \in FramesOf(d), Submit(d, f)
    PROVE  WireInv'
<1>1. f \in FrameType
  BY FramesTyped DEF WireInv
<1>2. sealed' = sealed /\ Offer(d, f)
  BY DEF Submit
<1>3. sealed' \subseteq MessageType /\ opened \subseteq sealed'
  BY <1>2 DEF WireInv, Typed
<1>4. Sealing'
  BY <1>2 DEF WireInv, Sealing
<1> QED
  BY <1>1, <1>2, <1>3, <1>4, OfferKeeps

(* The next message is new: no message sealed before has its counter *)
LEMMA NextMessageTyped ==
    ASSUME WireInv, NEW units \in Units
    PROVE  /\ NextMessage(units) \in MessageType
           /\ NextMessage(units).sender = Alice /\ NextMessage(units).recipient = Bob
           /\ IsHeader(NextMessage(units).header)
           /\ CounterOf(NextMessage(units).header) = Cardinality(sealed)
<1>1. PICK n \in Nat : n = Cardinality(sealed)
  BY FS_CardinalityType DEF WireInv, Sealing
<1>2. units \in Nat /\ Alice \in Nat /\ Bob \in Nat /\ Version \in Nat
  BY Constants
<1>3. PICK h \in Bytes : h = <<Version, n>>
  <2>1. <<Version, n>> \in Bytes
    BY <1>2 DEF Bytes
  <2> QED
    BY <2>1
<1>4. PICK c \in Bytes : c = [u \in 1 .. units |-> IF u = 1 THEN n ELSE 1]
  <2>1. \A u \in 1 .. units : (IF u = 1 THEN n ELSE 1) \in Nat
    OBVIOUS
  <2>2. [u \in 1 .. units |-> IF u = 1 THEN n ELSE 1] \in [1 .. units -> Nat]
    BY <2>1
  <2>3. [u \in 1 .. units |-> IF u = 1 THEN n ELSE 1] \in Seq(Nat)
    BY <1>2, <2>2
  <2> QED
    BY <2>3 DEF Bytes
<1>5. NextMessage(units) =
        [version |-> Version, id |-> n + 1, conversation |-> 1, sender |-> Alice, recipient |-> Bob,
         header |-> h, ciphertext |-> c, sentAt |-> 1]
  BY <1>1, <1>3, <1>4 DEF NextMessage, EncodeHeader
<1>6. NextMessage(units) \in MessageType
  BY <1>2, <1>5 DEF MessageType
<1>7. Len(h) = 2 /\ h[1] = Version /\ h[2] = n
  BY <1>3
<1> QED
  BY <1>1, <1>5, <1>6, <1>7 DEF IsHeader, CounterOf

(* Alice seals the next message and queues it *)
LEMMA SealKeeps ==
    ASSUME WireInv, NEW units \in Units, SealAndSubmit(units)
    PROVE  WireInv'
<1>1. PICK m : m = NextMessage(units)
  OBVIOUS
<1>2. /\ m \in MessageType /\ m.sender = Alice /\ m.recipient = Bob
      /\ IsHeader(m.header) /\ CounterOf(m.header) = Cardinality(sealed)
  BY <1>1, NextMessageTyped
<1>3. /\ Cardinality(sealed) < MaxSealed /\ ValidEnvelope(m)
      /\ sealed' = sealed \cup {m} /\ Offer(Alice, MessageFrame(m))
  BY <1>1 DEF SealAndSubmit
<1>4. MessageFrame(m) \in FrameType
  BY <1>2, MessageBytes, FrameMade DEF MessageFrame, EncryptedMessage
<1>5. IsFiniteSet(sealed) /\ Cardinality(sealed) \in Nat
  BY FS_CardinalityType DEF WireInv, Sealing
<1>6. \A s \in sealed : CounterOf(s.header) < Cardinality(sealed)
  BY DEF WireInv, Sealing
<1>7. m \notin sealed
  BY <1>2, <1>5, <1>6
<1>8. IsFiniteSet(sealed') /\ Cardinality(sealed') = Cardinality(sealed) + 1
  BY <1>3, <1>5, <1>7, FS_AddElement
<1>9. Sealing'
  <2>1. Cardinality(sealed') <= MaxSealed
    BY <1>3, <1>5, <1>8, Constants
  <2>2. ASSUME NEW s \in sealed'
        PROVE  /\ s.sender = Alice /\ s.recipient = Bob
               /\ ValidEnvelope(s) /\ IsHeader(s.header)
               /\ CounterOf(s.header) < Cardinality(sealed')
    <3>1. CASE s = m
      BY <1>2, <1>3, <1>5, <1>8, <3>1
    <3>2. CASE s \in sealed
      <4>1. CounterOf(s.header) < Cardinality(sealed)
        BY <3>2, <1>6
      <4>2. CounterOf(s.header) \in Nat
        <5>1. Len(s.header) = 2 /\ s.header \in Seq(Nat)
          BY <3>2 DEF WireInv, Sealing, IsHeader, Typed, MessageType, Bytes
        <5> QED
          BY <5>1 DEF CounterOf
      <4>3. CounterOf(s.header) < Cardinality(sealed')
        BY <1>5, <1>8, <4>1, <4>2
      <4> QED
        BY <3>2, <4>3 DEF WireInv, Sealing
    <3> QED
      BY <1>3, <3>1, <3>2
  <2>3. ASSUME NEW s \in sealed', NEW t \in sealed', CounterOf(s.header) = CounterOf(t.header)
        PROVE  s = t
    <3>1. ASSUME NEW r \in sealed PROVE CounterOf(r.header) # CounterOf(m.header)
      BY <1>2, <1>5, <1>6
    <3> QED
      BY <1>3, <2>3, <3>1 DEF WireInv, Sealing
  <2>4. ASSUME NEW k \in 0 .. (Cardinality(sealed') - 1)
        PROVE  \E s \in sealed' : CounterOf(s.header) = k
    <3>1. CASE k = Cardinality(sealed)
      BY <1>2, <1>3, <3>1
    <3>2. CASE k # Cardinality(sealed)
      <4>1. k \in 0 .. (Cardinality(sealed) - 1)
        BY <1>5, <1>8, <3>2
      <4> QED
        BY <1>3, <4>1 DEF WireInv, Sealing
    <3> QED
      BY <3>1, <3>2
  <2> QED
    BY <1>8, <2>1, <2>2, <2>3, <2>4 DEF Sealing
<1>10. sealed' \subseteq MessageType /\ opened \subseteq sealed'
  BY <1>2, <1>3 DEF WireInv, Typed
<1> QED
  BY <1>3, <1>4, <1>9, <1>10, OfferKeeps, Constants

(* Damage makes other words of words *)
LEMMA DamagedTyped ==
    ASSUME NEW f \in FrameType, NEW b \in Damaged(ToBytes(f))
    PROVE  b \in Bytes
<1>1. PICK a \in Bytes : a = ToBytes(f) /\ Len(a) >= 4
  <2>1. ToBytes(f) \in Bytes /\ Len(ToBytes(f)) = 4 + Len(f.payload) /\ Len(f.payload) \in Nat
    BY FrameBytes DEF HeaderLen
  <2> QED
    BY <2>1
<1>2. CASE b = Front(a)
  <2>1. 1 \in 1 .. (Len(a) + 1) /\ Len(a) - 1 \in (1 - 1) .. Len(a)
    BY <1>1 DEF Bytes
  <2> QED
    BY <1>2, <2>1, SubParts DEF Front
<1>3. CASE b = Append(a, 1)
  BY <1>3, Put DEF Bytes
<1>4. CASE \E n \in DOMAIN a, w \in DamageWords : b = [a EXCEPT ![n] = w]
  <2>1. PICK n \in DOMAIN a, w \in Nat : b = [a EXCEPT ![n] = w]
    BY <1>4, Constants
  <2>2. a \in [1 .. Len(a) -> Nat] /\ Len(a) \in Nat
    BY DEF Bytes
  <2>3. b \in [1 .. Len(a) -> Nat]
    BY <2>1, <2>2
  <2>4. b \in Seq(Nat)
    BY <2>2, <2>3
  <2> QED
    BY <2>4 DEF Bytes
<1> QED
  BY <1>1, <1>2, <1>3, <1>4 DEF Damaged

(* A frame goes out, damaged or not *)
LEMMA TransmitKeeps ==
    ASSUME WireInv, NEW d \in Devices, Transmit(d)
    PROVE  WireInv'
<1>1. /\ queue \in [Devices -> Seq(FrameType)] /\ pushed \in [Devices -> Seq(FrameType)]
      /\ wire \in [Devices -> Seq(SocketMessages)] /\ faults \in 0 .. MaxFaults
  BY DEF WireInv, Typed
<1>2. PICK q \in Seq(FrameType) : q = queue[d]
  BY <1>1
<1>3. PICK w \in Seq(SocketMessages) : w = wire[d]
  BY <1>1
<1>4. /\ q # <<>> /\ queue' = [queue EXCEPT ![d] = Tail(q)] /\ phase[d] # "closed"
      /\ UNCHANGED <<phase, out, held, sealed, opened, pushed, taken, ended>>
  BY <1>2 DEF Transmit
<1>5. Head(q) \in FrameType /\ Tail(q) \in Seq(FrameType) /\ Len(Tail(q)) = Len(q) - 1 /\ Len(q) \in Nat
  BY <1>4, Pop
<1>6. PICK b \in Bytes :
        /\ wire' = [wire EXCEPT ![d] = Append(w, b)]
        /\ \/ b = ToBytes(Head(q)) /\ faults' = faults
           \/ faults < MaxFaults /\ faults' = faults + 1
  <2>1. CASE /\ wire' = [wire EXCEPT ![d] = Append(w, ToBytes(Head(q)))]
             /\ faults' = faults
    BY <1>5, <2>1, FrameBytes
  <2>2. CASE /\ faults < MaxFaults /\ faults' = faults + 1
             /\ \E b \in Damaged(ToBytes(Head(q))) : wire' = [wire EXCEPT ![d] = Append(w, b)]
    BY <1>5, <2>2, DamagedTyped
  <2> QED
    BY <1>2, <1>3, <2>1, <2>2 DEF Transmit
<1>7. Append(w, b) \in Seq(SocketMessages)
  <2>1. b \in SocketMessages
    BY DEF SocketMessages
  <2> QED
    BY <2>1, Put
<1>8. faults' \in 0 .. MaxFaults
  BY <1>1, <1>6, Constants
<1>9. Typed'
  BY <1>1, <1>4, <1>5, <1>6, <1>7, <1>8 DEF WireInv, Typed
<1>10. Bounded'
  <2>1. ASSUME NEW e \in Devices PROVE Len(queue'[e]) <= Capacity
    <3>1. Len(queue[e]) <= Capacity /\ Len(q) <= Capacity /\ Capacity \in Nat
      BY <1>2, Constants DEF WireInv, Bounded
    <3>2. CASE e = d
      <4>1. queue'[e] = Tail(q)
        BY <1>1, <1>4, <3>2
      <4> QED
        BY <1>5, <3>1, <4>1
    <3>3. CASE e # d
      BY <1>1, <1>4, <3>1, <3>3
    <3> QED
      BY <3>2, <3>3
  <2>2. ASSUME NEW e \in Devices, phase'[e] = "closed" PROVE wire'[e] = <<>>
    <3>1. e # d /\ phase[e] = "closed"
      BY <1>4, <2>2
    <3> QED
      BY <1>1, <1>6, <3>1 DEF WireInv, Bounded
  <2>3. \A m \in held' : ValidMessage(m)
    BY <1>4 DEF WireInv, Bounded
  <2> QED
    BY <2>1, <2>2, <2>3 DEF Bounded
<1>11. InOrder'
  <2>1. ASSUME NEW e \in Devices, faults' = 0, phase'[e] # "closed"
        PROVE  /\ taken'[e] \in 0 .. Len(pushed'[e])
               /\ Continues(wire'[e], queue'[e], pushed'[e], taken'[e])
    <3>1. faults = 0 /\ b = ToBytes(Head(q)) /\ phase[e] # "closed"
      BY <1>1, <1>4, <1>6, <2>1
    <3>2. PICK k \in 0 .. Len(pushed[e]) : k = taken[e] /\ Continues(wire[e], queue[e], pushed[e], k)
      BY <3>1 DEF WireInv, InOrder
    <3>3. CASE e = d
      <4>1. PICK p \in Seq(FrameType) : p = pushed[d]
        BY <1>1
      <4>2. Continues(Append(w, b), Tail(q), p, k)
        BY <1>2, <1>3, <1>4, <3>1, <3>2, <3>3, <4>1, TransmitContinues
      <4>3. wire'[e] = Append(w, b) /\ queue'[e] = Tail(q) /\ pushed'[e] = p /\ taken'[e] = k
        BY <1>1, <1>4, <1>6, <3>2, <3>3, <4>1
      <4> QED
        BY <3>2, <3>3, <4>1, <4>2, <4>3
    <3>4. CASE e # d
      <4>1. wire'[e] = wire[e] /\ queue'[e] = queue[e] /\ pushed'[e] = pushed[e] /\ taken'[e] = k
        BY <1>1, <1>4, <1>6, <3>2, <3>4
      <4> QED
        BY <3>2, <4>1
    <3> QED
      BY <3>3, <3>4
  <2> QED
    BY <2>1 DEF InOrder
<1>12. Sealing'
  BY <1>4 DEF WireInv, Sealing
<1> QED
  BY <1>9, <1>10, <1>11, <1>12 DEF WireInv

(* A text or control message goes out *)
LEMMA SendOtherKeeps ==
    ASSUME WireInv, NEW d \in Devices, SendOther(d)
    PROVE  WireInv'
<1>1. wire \in [Devices -> Seq(SocketMessages)] /\ faults \in 0 .. MaxFaults
  BY DEF WireInv, Typed
<1>2. /\ phase[d] # "closed" /\ faults < MaxFaults /\ faults' = faults + 1
      /\ UNCHANGED <<phase, queue, out, held, sealed, opened, pushed, taken, ended>>
  BY DEF SendOther
<1>3. PICK x \in {Text, Control} : wire' = [wire EXCEPT ![d] = Append(wire[d], x)]
  BY DEF SendOther
<1>4. Append(wire[d], x) \in Seq(SocketMessages)
  <2>1. x \in SocketMessages /\ wire[d] \in Seq(SocketMessages)
    BY <1>1 DEF SocketMessages
  <2> QED
    BY <2>1, Put
<1>5. faults' \in 0 .. MaxFaults /\ faults' # 0
  BY <1>1, <1>2, Constants
<1>6. Typed'
  BY <1>1, <1>2, <1>3, <1>4, <1>5 DEF WireInv, Typed
<1>7. Bounded'
  BY <1>1, <1>2, <1>3 DEF WireInv, Bounded
<1>8. InOrder'
  BY <1>5 DEF InOrder
<1>9. Sealing'
  BY <1>2 DEF WireInv, Sealing
<1> QED
  BY <1>6, <1>7, <1>8, <1>9 DEF WireInv

(* A session is lost and another one begins *)
LEMMA ReconnectKeeps ==
    ASSUME WireInv, NEW d \in Devices, Reconnect(d)
    PROVE  WireInv'
<1>1. /\ queue \in [Devices -> Seq(FrameType)] /\ pushed \in [Devices -> Seq(FrameType)]
      /\ wire \in [Devices -> Seq(SocketMessages)] /\ out \in [Devices -> Seq(Bytes)]
      /\ phase \in [Devices -> {"hello", "open", "closed"}] /\ ended \in 0 .. MaxSessions
      /\ taken \in [Devices -> Nat]
  BY DEF WireInv, Typed
<1>2. /\ ended < MaxSessions /\ ended' = ended + 1
      /\ phase' = [phase EXCEPT ![d] = "hello"]
      /\ wire' = [wire EXCEPT ![d] = <<>>] /\ out' = [out EXCEPT ![d] = <<>>]
      /\ pushed' = [pushed EXCEPT ![d] = queue[d]] /\ taken' = [taken EXCEPT ![d] = 0]
      /\ UNCHANGED <<queue, held, sealed, opened, faults>>
  BY DEF Reconnect
<1>3. ended' \in 0 .. MaxSessions
  BY <1>1, <1>2, Constants
<1>4. <<>> \in Seq(SocketMessages) /\ <<>> \in Seq(Bytes)
  OBVIOUS
<1>5. Typed'
  BY <1>1, <1>2, <1>3, <1>4 DEF WireInv, Typed
<1>6. Bounded'
  BY <1>1, <1>2 DEF WireInv, Bounded
<1>7. InOrder'
  <2>1. ASSUME NEW e \in Devices, faults' = 0, phase'[e] # "closed"
        PROVE  /\ taken'[e] \in 0 .. Len(pushed'[e])
               /\ Continues(wire'[e], queue'[e], pushed'[e], taken'[e])
    <3>1. CASE e = d
      <4>1. PICK q \in Seq(FrameType) : q = queue[d]
        BY <1>1
      <4>2. wire'[e] = <<>> /\ queue'[e] = q /\ pushed'[e] = q /\ taken'[e] = 0
        BY <1>1, <1>2, <3>1, <4>1
      <4> QED
        BY <4>2, AnewContinues
    <3>2. CASE e # d
      <4>1. /\ wire'[e] = wire[e] /\ queue'[e] = queue[e] /\ pushed'[e] = pushed[e]
            /\ taken'[e] = taken[e] /\ phase[e] # "closed" /\ faults = 0
        BY <1>1, <1>2, <2>1, <3>2
      <4> QED
        BY <4>1 DEF WireInv, InOrder
    <3> QED
      BY <3>1, <3>2
  <2> QED
    BY <2>1 DEF InOrder
<1>8. Sealing'
  BY <1>2 DEF WireInv, Sealing
<1> QED
  BY <1>5, <1>6, <1>7, <1>8 DEF WireInv

(* What opens is a message that was sealed, with nothing changed *)
LEMMA OpensSealed ==
    ASSUME WireInv, NEW m \in MessageType, Opens(m)
    PROVE  m \in sealed
<1>1. PICK s \in sealed : s.ciphertext = m.ciphertext /\ Aad(s) = Aad(m)
  BY DEF Opens
<1>2. s \in MessageType
  BY DEF WireInv, Typed
<1> QED
  BY <1>1, <1>2, SameAad

(* A device takes what the gateway sent and opens it if it can *)
LEMMA ReceiveKeeps ==
    ASSUME WireInv, NEW d \in Devices, Receive(d)
    PROVE  WireInv'
<1>1. out \in [Devices -> Seq(Bytes)]
  BY DEF WireInv, Typed
<1>2. PICK o \in Seq(Bytes) : o = out[d]
  BY <1>1
<1>3. o # <<>> /\ out' = [out EXCEPT ![d] = Tail(o)]
  BY <1>2 DEF Receive
<1>4. Head(o) \in Bytes /\ Tail(o) \in Seq(Bytes)
  BY <1>3, Pop
<1>5. UNCHANGED <<phase, queue, wire, held, sealed, pushed, taken, faults, ended>>
  BY DEF Receive
<1>6. opened' \subseteq sealed
  <2>1. opened \subseteq sealed
    BY DEF WireInv, Typed
  <2>2. CASE IsFrameWithMessage(Head(o)) /\ Opens(Received(Head(o)))
    <3>1. Received(Head(o)) \in MessageType
      BY <1>4, <2>2, ReceivedTyped DEF IsFrameWithMessage
    <3>2. Received(Head(o)) \in sealed
      BY <2>2, <3>1, OpensSealed
    <3>3. opened' = opened \cup {Received(Head(o))}
      BY <1>2, <2>2 DEF Receive
    <3> QED
      BY <2>1, <3>2, <3>3
  <2>3. CASE ~(IsFrameWithMessage(Head(o)) /\ Opens(Received(Head(o))))
    BY <1>2, <2>1, <2>3 DEF Receive
  <2> QED
    BY <2>2, <2>3
<1>7. Typed'
  BY <1>1, <1>3, <1>4, <1>5, <1>6 DEF WireInv, Typed
<1> QED
  BY <1>5, <1>7 DEF WireInv, Sealing, Bounded, InOrder

-----------------------------------------------------------------------------
(* The steps of the gateway *)

(* A step that reads the next message of an unfinished session *)
LEMMA ReadKeeps ==
    ASSUME WireInv, NEW d \in Devices, Unread(d), Read(d), phase[d] # "closed",
           NEW mode \in {"hello", "open"}, phase' = [phase EXCEPT ![d] = mode],
           out' \in [Devices -> Seq(Bytes)],
           held' \subseteq MessageType, \A m \in held' : ValidMessage(m)
    PROVE  WireInv'
<1>1. /\ queue \in [Devices -> Seq(FrameType)] /\ pushed \in [Devices -> Seq(FrameType)]
      /\ wire \in [Devices -> Seq(SocketMessages)]
      /\ phase \in [Devices -> {"hello", "open", "closed"}]
      /\ taken \in [Devices -> Nat]
  BY DEF WireInv, Typed
<1>2. PICK w \in Seq(SocketMessages) : w = wire[d]
  BY <1>1
<1>3. /\ w # <<>> /\ wire' = [wire EXCEPT ![d] = Tail(w)]
      /\ taken' = [taken EXCEPT ![d] = @ + 1]
      /\ UNCHANGED <<queue, sealed, opened, pushed, faults, ended>>
  BY <1>2 DEF Unread, Read
<1>4. Tail(w) \in Seq(SocketMessages)
  BY <1>3, Pop
<1>5. Typed'
  BY <1>1, <1>3, <1>4 DEF WireInv, Typed
<1>6. Bounded'
  BY <1>1, <1>3 DEF WireInv, Bounded
<1>7. InOrder'
  <2>1. ASSUME NEW e \in Devices, faults' = 0, phase'[e] # "closed"
        PROVE  /\ taken'[e] \in 0 .. Len(pushed'[e])
               /\ Continues(wire'[e], queue'[e], pushed'[e], taken'[e])
    <3>1. phase[e] # "closed" /\ faults = 0
      BY <1>1, <1>3, <2>1
    <3>2. PICK k \in 0 .. Len(pushed[e]) : k = taken[e] /\ Continues(wire[e], queue[e], pushed[e], k)
      BY <3>1 DEF WireInv, InOrder
    <3>3. CASE e = d
      <4>1. PICK q \in Seq(FrameType), p \in Seq(FrameType) : q = queue[d] /\ p = pushed[d]
        BY <1>1
      <4>2. k + 1 \in 0 .. Len(p) /\ Continues(Tail(w), q, p, k + 1)
        BY <1>2, <1>3, <3>2, <3>3, <4>1, ReadContinues
      <4>3. wire'[e] = Tail(w) /\ queue'[e] = q /\ pushed'[e] = p /\ taken'[e] = k + 1
        BY <1>1, <1>3, <3>2, <3>3, <4>1
      <4> QED
        BY <4>2, <4>3
    <3>4. CASE e # d
      <4>1. wire'[e] = wire[e] /\ queue'[e] = queue[e] /\ pushed'[e] = pushed[e] /\ taken'[e] = k
        BY <1>1, <1>3, <3>2, <3>4
      <4> QED
        BY <3>2, <4>1
    <3> QED
      BY <3>3, <3>4
  <2> QED
    BY <2>1 DEF InOrder
<1>8. Sealing'
  BY <1>3 DEF WireInv, Sealing
<1> QED
  BY <1>5, <1>6, <1>7, <1>8 DEF WireInv

(* A session ends *)
LEMMA EndKeeps ==
    ASSUME WireInv, NEW d \in Devices, End(d)
    PROVE  WireInv'
<1>1. /\ wire \in [Devices -> Seq(SocketMessages)]
      /\ phase \in [Devices -> {"hello", "open", "closed"}]
  BY DEF WireInv, Typed
<1>2. /\ phase' = [phase EXCEPT ![d] = "closed"] /\ wire' = [wire EXCEPT ![d] = <<>>]
      /\ UNCHANGED <<queue, out, held, sealed, opened, pushed, taken, faults, ended>>
  BY DEF End
<1>3. <<>> \in Seq(SocketMessages)
  OBVIOUS
<1>4. Typed'
  BY <1>1, <1>2, <1>3 DEF WireInv, Typed
<1>5. Bounded'
  BY <1>1, <1>2 DEF WireInv, Bounded
<1>6. InOrder'
  <2>1. ASSUME NEW e \in Devices, faults' = 0, phase'[e] # "closed"
        PROVE  /\ taken'[e] \in 0 .. Len(pushed'[e])
               /\ Continues(wire'[e], queue'[e], pushed'[e], taken'[e])
    <3>1. e # d
      BY <1>1, <1>2, <2>1
    <3>2. /\ wire'[e] = wire[e] /\ queue'[e] = queue[e] /\ pushed'[e] = pushed[e]
          /\ taken' = taken /\ phase[e] # "closed" /\ faults = 0
      BY <1>1, <1>2, <2>1, <3>1
    <3> QED
      BY <3>2 DEF WireInv, InOrder
  <2> QED
    BY <2>1 DEF InOrder
<1>7. Sealing'
  BY <1>2 DEF WireInv, Sealing
<1> QED
  BY <1>4, <1>5, <1>6, <1>7 DEF WireInv

(* What the gateway takes for a frame is one *)
LEMMA FirstTyped ==
    ASSUME WireInv, NEW d \in Devices, Unread(d), IsBinaryFrame(First(d))
    PROVE  First(d) \in Bytes /\ IsFrame(First(d)) /\ FromBytes(First(d)) \in FrameType
<1>1. PICK w \in Seq(SocketMessages) : w = wire[d]
  BY DEF WireInv, Typed
<1>2. First(d) \in SocketMessages
  BY <1>1, Pop DEF Unread, First
<1>3. First(d) \in Bytes /\ IsFrame(First(d))
  BY <1>2 DEF IsBinaryFrame, SocketMessages
<1> QED
  BY <1>3, FrameOfBytes

(* What the gateway sends is bytes *)
LEMMA ReplyTyped ==
    ASSUME WireInv, NEW d \in Devices, NEW f \in FrameType, Reply(d, f)
    PROVE  out' \in [Devices -> Seq(Bytes)]
<1>1. out \in [Devices -> Seq(Bytes)]
  BY DEF WireInv, Typed
<1>2. PICK b \in Bytes : b = ToBytes(f)
  BY FrameBytes
<1>3. Append(out[d], b) \in Seq(Bytes)
  BY <1>1, Put
<1> QED
  BY <1>1, <1>2, <1>3 DEF Reply

(* The first message of a session is accepted or refused *)
LEMMA HelloKeeps ==
    ASSUME WireInv, NEW d \in Devices, HelloAccepted(d) \/ HelloRefused(d)
    PROVE  WireInv'
<1>1. CASE HelloAccepted(d)
  <2>1. /\ phase[d] # "closed" /\ Unread(d) /\ Read(d) /\ held' = held
        /\ phase' = [phase EXCEPT ![d] = "open"]
        /\ Reply(d, NewFrame(ClientHello, 1, <<d>>))
    BY <1>1 DEF HelloAccepted
  <2>2. NewFrame(ClientHello, 1, <<d>>) \in FrameType
    BY Constants, OneByte, FrameMade DEF ClientHello
  <2>3. out' \in [Devices -> Seq(Bytes)]
    BY <2>1, <2>2, ReplyTyped
  <2>4. held' \subseteq MessageType /\ \A m \in held' : ValidMessage(m)
    BY <2>1 DEF WireInv, Typed, Bounded
  <2> QED
    BY <2>1, <2>3, <2>4, ReadKeeps
<1>2. CASE HelloRefused(d)
  BY <1>2, EndKeeps DEF HelloRefused
<1> QED
  BY <1>1, <1>2

(* push stores valid messages only *)
LEMMA StoreTyped ==
    ASSUME WireInv, NEW m \in MessageType, Store(m)
    PROVE  held' \subseteq MessageType /\ \A h \in held' : ValidMessage(h)
<1>1. held \subseteq MessageType /\ \A h \in held : ValidMessage(h)
  BY DEF WireInv, Typed, Bounded
<1>2. PushResult(m) = "Accepted" => ValidMessage(m)
  BY DEF PushResult
<1> QED
  BY <1>1, <1>2 DEF Store

(* A frame is handled: a ping, a pong, a message or an ack *)
LEMMA HandleKeeps ==
    ASSUME WireInv, NEW d \in Devices, Handle(d)
    PROVE  WireInv'
<1>1. PICK f : f = FromBytes(First(d))
  OBVIOUS
<1>2. /\ phase[d] = "open" /\ Unread(d) /\ IsBinaryFrame(First(d)) /\ Read(d) /\ phase' = phase
      /\ HandlePing(d, f) \/ HandlePong(f) \/ HandleMessage(d, f) \/ HandleAck(d, f)
  BY <1>1 DEF Handle
<1>3. f \in FrameType /\ First(d) \in Bytes /\ IsFrame(First(d))
  BY <1>1, <1>2, FirstTyped
<1>4. phase' = [phase EXCEPT ![d] = "open"]
  BY <1>2 DEF WireInv, Typed
<1>5. /\ out \in [Devices -> Seq(Bytes)]
      /\ held \subseteq MessageType /\ \A m \in held : ValidMessage(m)
  BY DEF WireInv, Typed, Bounded
<1>6. /\ out' \in [Devices -> Seq(Bytes)]
      /\ held' \subseteq MessageType /\ \A m \in held' : ValidMessage(m)
  <2>1. CASE HandlePing(d, f)
    <3>1. NewFrame(Pong, 0, f.payload) \in FrameType
      <4>1. f.payload \in Bytes
        BY <1>3 DEF FrameType
      <4> QED
        BY <4>1, FrameMade DEF Pong
    <3>2. Reply(d, NewFrame(Pong, 0, f.payload)) /\ held' = held
      BY <2>1 DEF HandlePing
    <3>3. out' \in [Devices -> Seq(Bytes)]
      BY <3>1, <3>2, ReplyTyped
    <3> QED
      BY <1>5, <3>2, <3>3
  <2>2. CASE HandlePong(f)
    BY <1>5, <2>2 DEF HandlePong
  <2>3. CASE HandleMessage(d, f)
    <3>1. Relayable(d, f) /\ Store(Decode(f.payload)) /\ out' = out
      BY <2>3 DEF HandleMessage
    <3>2. IsMessage(f.payload)
      BY <3>1 DEF Relayable
    <3>3. Decode(f.payload) \in MessageType
      BY <1>1, <1>3, <3>2, ReceivedTyped DEF Received
    <3> QED
      BY <1>5, <3>1, <3>3, StoreTyped
  <2>4. CASE HandleAck(d, f)
    BY <1>5, <2>4 DEF HandleAck
  <2> QED
    BY <1>2, <2>1, <2>2, <2>3, <2>4
<1> QED
  BY <1>2, <1>4, <1>6, ReadKeeps

(* A control message is passed over; anything else ends the session *)
LEMMA HandleOtherKeeps ==
    ASSUME WireInv, NEW d \in Devices, HandleControl(d) \/ HandleEnds(d)
    PROVE  WireInv'
<1>1. CASE HandleControl(d)
  <2>1. /\ phase[d] = "open" /\ Unread(d) /\ Read(d)
        /\ UNCHANGED <<phase, out, held>>
    BY <1>1 DEF HandleControl
  <2>2. phase' = [phase EXCEPT ![d] = "open"]
    BY <2>1 DEF WireInv, Typed
  <2>3. /\ out' \in [Devices -> Seq(Bytes)]
        /\ held' \subseteq MessageType /\ \A m \in held' : ValidMessage(m)
    BY <2>1 DEF WireInv, Typed, Bounded
  <2> QED
    BY <2>1, <2>2, <2>3, ReadKeeps
<1>2. CASE HandleEnds(d)
  BY <1>2, EndKeeps DEF HandleEnds
<1> QED
  BY <1>1, <1>2

(* A held message is sent to its recipient *)
LEMMA SendKeeps ==
    ASSUME WireInv, NEW d \in Devices, NEW m \in held, SendEncrypted(d, m)
    PROVE  WireInv'
<1>1. m \in MessageType
  BY DEF WireInv, Typed
<1>2. CASE Fits(Encode(m))
  <2>1. /\ Reply(d, MessageFrame(m))
        /\ UNCHANGED <<phase, queue, wire, held, sealed, opened, pushed, taken, faults, ended>>
    BY <1>2 DEF SendEncrypted
  <2>2. MessageFrame(m) \in FrameType
    BY <1>1, MessageBytes, FrameMade DEF MessageFrame, EncryptedMessage
  <2>3. out' \in [Devices -> Seq(Bytes)]
    BY <2>1, <2>2, ReplyTyped
  <2> QED
    BY <2>1, <2>3 DEF WireInv, Typed, Sealing, Bounded, InOrder
<1>3. CASE ~Fits(Encode(m))
  BY <1>3, EndKeeps DEF SendEncrypted
<1> QED
  BY <1>2, <1>3

(* What is posted over HTTP is a message *)
LEMMA PostedTyped ==
    ASSUME NEW s \in MessageType, NEW m \in Posted(s)
    PROVE  m \in MessageType
<1>1. s.header \in Bytes /\ s.ciphertext \in Bytes
  BY DEF MessageType
<1>2. s.header \o s.header \o s.header \in Bytes /\ s.ciphertext \o s.ciphertext \o s.ciphertext \in Bytes
  BY <1>1 DEF Bytes
<1> QED
  BY <1>2 DEF Posted, MessageType

(* A message is posted over HTTP *)
LEMMA EnqueueKeeps ==
    ASSUME WireInv, NEW s \in sealed, NEW m \in Posted(s), Enqueue(m)
    PROVE  WireInv'
<1>1. m \in MessageType
  BY PostedTyped DEF WireInv, Typed
<1>2. /\ Store(m)
      /\ UNCHANGED <<phase, queue, wire, out, sealed, opened, pushed, taken, faults, ended>>
  BY DEF Enqueue
<1>3. held' \subseteq MessageType /\ \A h \in held' : ValidMessage(h)
  BY <1>1, <1>2, StoreTyped
<1> QED
  BY <1>2, <1>3 DEF WireInv, Typed, Sealing, Bounded, InOrder

-----------------------------------------------------------------------------
(* The theorems *)

(* The inductive invariant of sessions on the wire: what the queues, sockets *)
(* and relay hold is typed; Alice has sealed valid envelopes under distinct  *)
(* counters; the queue is bounded (OutboundQueue::push) and a session that   *)
(* ended reads no more; and while nothing was damaged, what a device pushed  *)
(* is, after the frames the gateway read, in the socket and then in the      *)
(* queue (OutboundQueue::pop and websocket_session take from the front).     *)
THEOREM WireInvariant == Spec => []WireInv
<1>1. Init => WireInv
  <2> SUFFICES ASSUME Init PROVE WireInv
    OBVIOUS
  <2>1. /\ phase = [d \in Devices |-> "hello"]
        /\ queue = [d \in Devices |-> <<>>] /\ pushed = queue
        /\ wire = queue /\ out = queue
        /\ held = {} /\ sealed = {} /\ opened = {}
        /\ taken = [d \in Devices |-> 0] /\ faults = 0 /\ ended = 0
    BY DEF Init
  <2>2. <<>> \in Seq(SocketMessages) /\ <<>> \in Seq(Bytes) /\ <<>> \in Seq(FrameType) /\ Len(<<>>) = 0
    OBVIOUS
  <2>3. Typed
    BY <2>1, <2>2, Constants DEF Typed
  <2>4. Sealing
    <3>1. IsFiniteSet(sealed) /\ Cardinality(sealed) = 0
      BY <2>1, FS_EmptySet
    <3> QED
      BY <2>1, <3>1, Constants DEF Sealing
  <2>5. Bounded
    BY <2>1, <2>2, Constants DEF Bounded
  <2>6. InOrder
    <3>1. ASSUME NEW d \in Devices
          PROVE  /\ taken[d] \in 0 .. Len(pushed[d])
                 /\ Continues(wire[d], queue[d], pushed[d], taken[d])
      <4>1. wire[d] = <<>> /\ queue[d] = <<>> /\ pushed[d] = <<>> /\ taken[d] = 0
        BY <2>1
      <4> QED
        BY <2>2, <4>1, AnewContinues
    <3> QED
      BY <3>1 DEF InOrder
  <2> QED
    BY <2>3, <2>4, <2>5, <2>6 DEF WireInv
<1>2. WireInv /\ [Next]_vars => WireInv'
  <2> SUFFICES ASSUME WireInv, [Next]_vars PROVE WireInv'
    OBVIOUS
  <2>1. CASE \E units \in Units : SealAndSubmit(units)
    BY <2>1, SealKeeps
  <2>2. CASE \E d \in Devices : Client(d)
    <3>1. PICK d \in Devices : Client(d)
      BY <2>2
    <3> QED
      BY <3>1, SubmitKeeps, TransmitKeeps, SendOtherKeeps, ReconnectKeeps, ReceiveKeeps DEF Client
  <2>3. CASE \E d \in Devices : Gateway(d)
    <3>1. PICK d \in Devices : Gateway(d)
      BY <2>3
    <3> QED
      BY <3>1, HelloKeeps, HandleKeeps, HandleOtherKeeps, SendKeeps DEF Gateway
  <2>4. CASE \E s \in sealed : \E m \in Posted(s) : Enqueue(m)
    BY <2>4, EnqueueKeeps
  <2>5. CASE UNCHANGED vars
    BY <2>5 DEF WireInv, Typed, Sealing, Bounded, InOrder, vars
  <2> QED
    BY <2>1, <2>2, <2>3, <2>4, <2>5 DEF Next
<1> QED
  BY <1>1, <1>2, PTL DEF Spec

(* The client's queue never exceeds its capacity, a session the gateway has *)
(* ended holds nothing to read, and the relay holds messages its validation *)
(* accepts and no others.                                                   *)
THEOREM WireTypeCorrect == Spec => []WireTypeOK
<1>1. WireInv => WireTypeOK
  BY DEF WireInv, Typed, Sealing, Bounded, WireTypeOK
<1> QED
  BY <1>1, WireInvariant, PTL

(* The gateway acts on exactly the frames a device queued (websocket_session *)
(* reads them in order, and what it decodes is what encodes to the bytes it  *)
(* read: Frame::from_bytes, EncryptedMessage::decode), for any frames sent,  *)
(* any damage to them and any number of sessions.                            *)
THEOREM WireActsOnWhatWasSent == Spec => []ActsOnWhatWasSent
<1>1. WireInv => ActsOnWhatWasSent
  <2> SUFFICES ASSUME WireInv PROVE ActsOnWhatWasSent
    OBVIOUS
  <2> SUFFICES ASSUME NEW d \in Devices
      PROVE /\ \A n \in DOMAIN wire[d] :
                  /\ IsBinaryFrame(wire[d][n])
                  /\ Proper(d, FromBytes(wire[d][n])) \/ IsHello(wire[d][n], d)
                  => ToBytes(Understood(FromBytes(wire[d][n]))) = wire[d][n]
            /\ faults = 0 /\ phase[d] # "closed" =>
                  wire[d] \o [n \in DOMAIN queue[d] |-> ToBytes(queue[d][n])]
                    = [n \in 1 .. (Len(pushed[d]) - taken[d]) |-> ToBytes(pushed[d][taken[d] + n])]
    BY DEF ActsOnWhatWasSent
  <2>1. PICK w \in Seq(SocketMessages) : w = wire[d]
    BY DEF WireInv, Typed
  <2>2. ASSUME NEW n \in DOMAIN w, IsBinaryFrame(w[n]), Proper(d, FromBytes(w[n])) \/ IsHello(w[n], d)
        PROVE  ToBytes(Understood(FromBytes(w[n]))) = w[n]
    <3>1. PICK b \in Bytes : b = w[n] /\ IsFrame(b)
      <4>1. w[n] \in SocketMessages
        OBVIOUS
      <4> QED
        BY <2>2, <4>1 DEF IsBinaryFrame, SocketMessages
    <3>2. PICK f \in FrameType : f = FromBytes(b) /\ ToBytes(f) = b
      BY <3>1, FrameOfBytes
    <3>3. CASE f.kind = EncryptedMessage
      <4>1. Proper(d, f)
        BY <2>2, <3>1, <3>2, <3>3 DEF IsHello, EncryptedMessage, ClientHello
      <4>2. IsMessage(f.payload) /\ f.payload \in Bytes
        BY <3>3, <4>1 DEF Proper, Relayable, EncryptedMessage, Ping, Pong, MessageAck, FrameType
      <4>3. Encode(Decode(f.payload)) = f.payload
        BY <4>2, MessageOfBytes
      <4>4. Understood(f) = f
        BY <3>3, <4>3 DEF Understood, FrameType
      <4> QED
        BY <3>1, <3>2, <4>4
    <3>4. CASE f.kind # EncryptedMessage
      BY <3>1, <3>2, <3>4 DEF Understood
    <3> QED
      BY <3>3, <3>4
  <2>3. ASSUME faults = 0, phase[d] # "closed"
        PROVE  wire[d] \o [n \in DOMAIN queue[d] |-> ToBytes(queue[d][n])]
                 = [n \in 1 .. (Len(pushed[d]) - taken[d]) |-> ToBytes(pushed[d][taken[d] + n])]
    <3>1. PICK q \in Seq(FrameType), p \in Seq(FrameType) : q = queue[d] /\ p = pushed[d]
      BY DEF WireInv, Typed
    <3>2. PICK k \in 0 .. Len(p) : k = taken[d] /\ Continues(w, q, p, k)
      BY <2>1, <2>3, <3>1 DEF WireInv, InOrder
    <3>3. ASSUME NEW s \in Seq(FrameType)
          PROVE  /\ [n \in DOMAIN s |-> ToBytes(s[n])] \in Seq(SocketMessages)
                 /\ Len([n \in DOMAIN s |-> ToBytes(s[n])]) = Len(s)
                 /\ \A n \in 1 .. Len(s) : [m \in DOMAIN s |-> ToBytes(s[m])][n] = ToBytes(s[n])
      <4>1. DOMAIN s = 1 .. Len(s) /\ Len(s) \in Nat
        OBVIOUS
      <4>2. \A n \in 1 .. Len(s) : ToBytes(s[n]) \in SocketMessages
        BY FrameBytes DEF SocketMessages
      <4> QED
        BY <4>1, <4>2
    <3>4. PICK qb \in Seq(SocketMessages) :
            /\ qb = [n \in DOMAIN q |-> ToBytes(q[n])]
            /\ Len(qb) = Len(q) /\ \A n \in 1 .. Len(q) : qb[n] = ToBytes(q[n])
      BY <3>3
    <3>6. PICK s \in Seq(SocketMessages) :
            /\ s = w \o qb /\ Len(s) = Len(w) + Len(q)
            /\ \A i \in 1 .. Len(w) : s[i] = w[i]
            /\ \A i \in 1 .. Len(q) : s[Len(w) + i] = qb[i]
      <4>1. PICK c \in Seq(SocketMessages) : c = w \o qb
        <5>1. w \o qb \in Seq(SocketMessages)
          BY <3>4
        <5> QED
          BY <5>1
      <4>2. /\ Len(c) = Len(w) + Len(qb)
            /\ \A i \in 1 .. Len(w) : c[i] = w[i]
            /\ \A i \in 1 .. Len(qb) : c[Len(w) + i] = qb[i]
        BY <4>1
      <4> QED
        BY <3>4, <4>1, <4>2
    <3>7. Len(p) = k + Len(w) + Len(q) /\ Len(w) \in Nat /\ Len(q) \in Nat
      BY <3>2 DEF Continues
    <3>8. ASSUME NEW i \in 1 .. Len(s) PROVE s[i] = ToBytes(p[k + i])
      <4>1. k + i \in 1 .. Len(p)
        BY <3>6, <3>7
      <4>2. CASE i \in 1 .. Len(w)
        BY <3>2, <3>6, <4>2 DEF Continues
      <4>3. CASE i \notin 1 .. Len(w)
        <5>1. PICK j \in 1 .. Len(q) : i = Len(w) + j /\ k + i = k + Len(w) + j
          <6>1. PICK a \in Nat : a = Len(w)
            BY <3>7
          <6>2. i - a \in 1 .. Len(q) /\ i = a + (i - a) /\ k + i = k + a + (i - a)
            BY <3>6, <3>7, <4>3, <6>1
          <6> QED
            BY <6>1, <6>2
        <5>2. s[i] = ToBytes(q[j]) /\ q[j] = p[k + Len(w) + j]
          BY <3>2, <3>4, <3>6, <5>1 DEF Continues
        <5> QED
          BY <5>1, <5>2
      <4> QED
        BY <4>2, <4>3
    <3>9. s = [n \in 1 .. (Len(p) - k) |-> ToBytes(p[k + n])]
      <4>1. Len(s) = Len(p) - k
        BY <3>6, <3>7
      <4>2. s = [n \in 1 .. Len(s) |-> s[n]]
        OBVIOUS
      <4>3. \A n \in 1 .. (Len(p) - k) : s[n] = ToBytes(p[k + n])
        BY <3>8, <4>1
      <4> QED
        BY <4>1, <4>2, <4>3
    <3> QED
      BY <2>1, <3>1, <3>2, <3>4, <3>6, <3>9
  <2> QED
    BY <2>1, <2>2, <2>3
<1> QED
  BY <1>1, WireInvariant, PTL

(* Whatever the relay holds fits a frame and is decoded by its recipient as  *)
(* it was: EncryptedMessage::validate admits nothing that send_encrypted     *)
(* could not frame, so no message ends the sessions of the device it is for. *)
THEOREM WireHeldCanBeSent == Spec => []HeldCanBeSent
<1>1. WireInv => HeldCanBeSent
  BY ValidIsSent DEF WireInv, Typed, Bounded, HeldCanBeSent
<1> QED
  BY <1>1, WireInvariant, PTL

(* What the recipient opens is a message Alice sealed for Bob, with every    *)
(* field as she sealed it: aad() covers all the fields of WireEnvelope that  *)
(* the ciphertext does not, and it can be read in one way only.              *)
THEOREM WireOpenedAsSealed == Spec => []OpenedAsSealed
<1>1. WireInv => OpenedAsSealed
  BY DEF WireInv, Typed, Sealing, OpenedAsSealed
<1> QED
  BY <1>1, WireInvariant, PTL

(* What is in reach, said in the messages that were skipped: the counters *)
(* that one out of reach leaves behind are those of messages sealed and   *)
(* not overtaken, more than MaxSkip of them                               *)
LEMMA OutOfReachSkips ==
    ASSUME Typed, Sealing, NEW m \in sealed, ~InReach(CounterOf(m.header))
    PROVE  ~(Cardinality(Skipped(m)) <= MaxSkip)
<1>1. \A s \in sealed : CounterOf(s.header) \in Nat
  <2>1. \A s \in sealed : Len(s.header) = 2 /\ s.header \in Seq(Nat)
    BY DEF Typed, Sealing, IsHeader, MessageType, Bytes
  <2> QED
    BY <2>1 DEF CounterOf
<1>2. PICK c \in Nat : c = CounterOf(m.header)
  BY <1>1
<1>3. c > MaxSkip /\ MaxSkip \in Nat
  BY <1>2, Constants DEF InReach
<1>4. \A o \in opened : CounterOf(o.header) \in Nat /\ c > CounterOf(o.header) + 1 + MaxSkip
  <2>1. \A o \in opened : CounterOf(o.header) \in Nat
    BY <1>1 DEF Typed
  <2> QED
    BY <1>2, <1>3, <2>1 DEF InReach
<1>5. c < Cardinality(sealed) /\ Cardinality(sealed) \in Nat
  BY <1>2, FS_CardinalityType DEF Sealing
<1> DEFINE behind == (c - MaxSkip - 1) .. (c - 1)
<1>6. \A k \in behind : \E s \in Skipped(m) : CounterOf(s.header) = k
  <2> TAKE k \in behind
  <2>1. k \in 0 .. (Cardinality(sealed) - 1) /\ k < c /\ k >= c - MaxSkip - 1
    BY <1>2, <1>3, <1>5
  <2>2. PICK s \in sealed : CounterOf(s.header) = k
    BY <2>1 DEF Sealing
  <2>3. \A o \in opened : CounterOf(o.header) < k
    BY <1>2, <1>3, <1>4, <2>1
  <2>4. s \in Skipped(m)
    BY <1>2, <2>1, <2>2, <2>3 DEF Skipped
  <2> QED
    BY <2>2, <2>4
<1>7. IsFiniteSet(Skipped(m)) /\ Cardinality(Skipped(m)) \in Nat
  <2>1. IsFiniteSet(sealed) /\ Skipped(m) \subseteq sealed
    BY DEF Sealing, Skipped
  <2> QED
    BY <2>1, FS_Subset, FS_CardinalityType
<1>8. PICK f : f = [k \in behind |-> CHOOSE s \in Skipped(m) : CounterOf(s.header) = k]
  OBVIOUS
<1>9. f \in Injection(behind, Skipped(m))
  <2>1. \A k \in behind : f[k] \in Skipped(m) /\ CounterOf(f[k].header) = k
    BY <1>6, <1>8
  <2>2. f \in [behind -> Skipped(m)]
    BY <1>8, <2>1
  <2>3. \A j, k \in behind : f[j] = f[k] => j = k
    BY <2>1
  <2> QED
    BY <2>2, <2>3 DEF Injection, IsInjective
<1>10. Cardinality(behind) <= Cardinality(Skipped(m))
  BY <1>7, <1>9, FS_Injection
<1>11. Cardinality(behind) = MaxSkip + 1
  <2>1. c - MaxSkip - 1 \in Int /\ c - 1 \in Int /\ c - MaxSkip - 1 <= c - 1
    BY <1>2, <1>3
  <2>2. Cardinality(behind) = (c - 1) - (c - MaxSkip - 1) + 1
    BY <2>1, FS_Interval
  <2> QED
    BY <1>2, <1>3, <2>2
<1> QED
  BY <1>3, <1>7, <1>10, <1>11

(* A sealed message that was not opened yet opens when it arrives, for       *)
(* whatever the recipient received before, unless opening it skips more than *)
(* MAX_SKIP messages (ReceiveRatchet::key_for): nothing but opening it uses  *)
(* up its counter, and forgeries take the recipient no further.              *)
THEOREM WireGenuineOpens == Spec => []GenuineOpens
<1>1. WireInv => GenuineOpens
  <2> SUFFICES ASSUME WireInv, NEW m \in sealed \ opened, Cardinality(Skipped(m)) <= MaxSkip
               PROVE  Opens(m)
    BY DEF GenuineOpens
  <2>1. ValidEnvelope(m) /\ IsHeader(m.header)
    BY DEF WireInv, Sealing
  <2>2. \A o \in opened : CounterOf(o.header) # CounterOf(m.header)
    BY DEF WireInv, Typed, Sealing
  <2>3. InReach(CounterOf(m.header))
    BY OutOfReachSkips DEF WireInv
  <2> QED
    BY <2>1, <2>2, <2>3 DEF Opens
<1> QED
  BY <1>1, WireInvariant, PTL

=============================================================================
