----------------------------- MODULE BufferProofs -----------------------------
(***************************************************************************)
(* Theorems about the two byte buffers, for every size their vectors start *)
(* with, every room Buffer keeps in front and every size of readFd's       *)
(* second area: the indices stay inside the vector, the asserts hold, and  *)
(* the bytes come out as they went in.                                     *)
(***************************************************************************)
EXTENDS MCBuffers, NatRecursion, SequenceTheorems, TLAPS

(* The indices are in order and inside the vector, and so is the place       *)
(* retrieveAll puts them back to: the strengthening the induction needs.    *)
WellFormed(b) ==
    /\ b \in Buffers
    /\ b.readerIndex_ <= b.writerIndex_
    /\ b.writerIndex_ <= Len(b.buffer_)
    /\ kCheapPrepend <= Len(b.buffer_)

-----------------------------------------------------------------------------
(* Vectors                                                                  *)

(* A function on 1 .. n is a sequence of length n.                          *)
LEMMA SequenceOfFunction ==
    ASSUME NEW S, NEW n \in Nat, NEW f \in [1 .. n -> S]
    PROVE  f \in Seq(S) /\ Len(f) = n
OBVIOUS

(* A vector's value-initialised bytes are bytes.                            *)
LEMMA ZeroIsByte == 0 \in Bytes
BY BufferAssumption DEF Bytes

(* resize keeps what was there, as far as it fits.                          *)
LEMMA ResizedVector ==
    ASSUME NEW v \in Seq(Bytes), NEW n \in Nat
    PROVE  /\ Resized(v, n) \in Seq(Bytes)
           /\ Len(Resized(v, n)) = n
           /\ \A i \in 1 .. n : i <= Len(v) => Resized(v, n)[i] = v[i]
<1>1. Resized(v, n) \in [1 .. n -> Bytes]
  BY ZeroIsByte DEF Resized
<1> QED
  BY <1>1, SequenceOfFunction DEF Resized

(* std::copy writes s at position at and nothing else.                      *)
LEMMA CopiedVector ==
    ASSUME NEW v \in Seq(Bytes), NEW s \in Seq(Bytes), NEW at \in Nat
    PROVE  /\ Copied(v, at, s) \in Seq(Bytes)
           /\ Len(Copied(v, at, s)) = Len(v)
           /\ \A i \in 1 .. Len(v) :
                 Copied(v, at, s)[i] =
                    IF at < i /\ i <= at + Len(s) THEN s[i - at] ELSE v[i]
<1>1. Copied(v, at, s) \in [1 .. Len(v) -> Bytes]
  <2>1. ASSUME NEW i \in 1 .. Len(v)
        PROVE  (IF at < i /\ i <= at + Len(s) THEN s[i - at] ELSE v[i]) \in Bytes
    OBVIOUS
  <2> QED
    BY <2>1 DEF Copied
<1> QED
  BY <1>1, SequenceOfFunction DEF Copied

(* What can be read, byte by byte.                                          *)
LEMMA Contents ==
    ASSUME NEW b, WellFormed(b)
    PROVE  /\ toStringPiece(b) \in Seq(Bytes)
           /\ Len(toStringPiece(b)) = readableBytes(b)
           /\ readableBytes(b) \in Nat
           /\ \A i \in 1 .. readableBytes(b) : toStringPiece(b)[i] = b.buffer_[b.readerIndex_ + i]
BY DEF WellFormed, Buffers, toStringPiece, readableBytes

-----------------------------------------------------------------------------
(* The methods.  Each keeps the indices well formed; each lemma says what    *)
(* becomes of the bytes that can be read.                                   *)

(* The constructor: well formed and empty.                                  *)
LEMMA NewBufferEmpty ==
    ASSUME NEW n \in Nat
    PROVE  /\ WellFormed(NewBuffer(n))
           /\ toStringPiece(NewBuffer(n)) = <<>>
           /\ readableBytes(NewBuffer(n)) = 0
<1> DEFINE v == [i \in 1 .. kCheapPrepend + n |-> 0]
<1>1. v \in Seq(Bytes) /\ Len(v) = kCheapPrepend + n
  <2>1. v \in [1 .. kCheapPrepend + n -> Bytes] /\ kCheapPrepend + n \in Nat
    BY ZeroIsByte, BufferAssumption
  <2> HIDE DEF v
  <2> QED
    BY <2>1, SequenceOfFunction
<1> HIDE DEF v
<1>2. NewBuffer(n) = [buffer_ |-> v, readerIndex_ |-> kCheapPrepend, writerIndex_ |-> kCheapPrepend]
  BY DEF NewBuffer, v
<1>3. WellFormed(NewBuffer(n)) /\ readableBytes(NewBuffer(n)) = 0
  BY <1>1, <1>2, BufferAssumption DEF WellFormed, Buffers, readableBytes
<1> QED
  BY <1>3, Contents, EmptySeq, SeqEqual

(* Moving the contents to the front, over bytes already read, keeps them.   *)
LEMMA MovedToFrontKeeps ==
    ASSUME NEW b, WellFormed(b), kCheapPrepend <= b.readerIndex_
    PROVE  /\ WellFormed(MovedToFront(b))
           /\ toStringPiece(MovedToFront(b)) = toStringPiece(b)
           /\ readableBytes(MovedToFront(b)) = readableBytes(b)
           /\ Len(MovedToFront(b).buffer_) = Len(b.buffer_)
           /\ MovedToFront(b).writerIndex_ = kCheapPrepend + readableBytes(b)
<1> DEFINE v == Copied(b.buffer_, kCheapPrepend, toStringPiece(b))
           m == MovedToFront(b)
<1>1. /\ b.buffer_ \in Seq(Bytes)
      /\ b.readerIndex_ \in Nat
      /\ b.writerIndex_ \in Nat
  BY DEF WellFormed, Buffers
<1>2. /\ toStringPiece(b) \in Seq(Bytes)
      /\ Len(toStringPiece(b)) = readableBytes(b)
      /\ readableBytes(b) \in Nat
      /\ readableBytes(b) = b.writerIndex_ - b.readerIndex_
  BY Contents DEF readableBytes
<1>3. /\ v \in Seq(Bytes)
      /\ Len(v) = Len(b.buffer_)
      /\ \A i \in 1 .. Len(v) :
            v[i] = IF kCheapPrepend < i /\ i <= kCheapPrepend + readableBytes(b)
                   THEN toStringPiece(b)[i - kCheapPrepend] ELSE b.buffer_[i]
  BY <1>1, <1>2, CopiedVector, BufferAssumption
<1>4. m = [buffer_ |-> v, readerIndex_ |-> kCheapPrepend,
           writerIndex_ |-> kCheapPrepend + readableBytes(b)]
  BY DEF MovedToFront
<1> HIDE DEF v, m
<1>5. WellFormed(m) /\ readableBytes(m) = readableBytes(b)
  BY <1>1, <1>2, <1>3, <1>4, BufferAssumption DEF WellFormed, Buffers, readableBytes
<1>6. ASSUME NEW i \in 1 .. readableBytes(b)
      PROVE  toStringPiece(m)[i] = toStringPiece(b)[i]
  <2>1. toStringPiece(m)[i] = v[kCheapPrepend + i]
    BY <1>4, <1>5, Contents
  <2>2. /\ kCheapPrepend + i \in 1 .. Len(v) /\ kCheapPrepend < kCheapPrepend + i
        /\ kCheapPrepend + i <= kCheapPrepend + readableBytes(b)
        /\ (kCheapPrepend + i) - kCheapPrepend = i
    BY <1>1, <1>2, <1>3, BufferAssumption DEF WellFormed
  <2> QED
    BY <1>3, <2>1, <2>2
<1>7. toStringPiece(m) = toStringPiece(b)
  BY <1>2, <1>5, <1>6, Contents, SeqEqual
<1> QED
  BY <1>3, <1>4, <1>5, <1>7 DEF m

(* A longer vector holds the same readable bytes.                           *)
LEMMA GrowingKeeps ==
    ASSUME NEW b, WellFormed(b), NEW n \in Nat, Len(b.buffer_) <= n
    PROVE  LET g == [b EXCEPT !.buffer_ = Resized(b.buffer_, n)]
           IN  /\ WellFormed(g)
               /\ toStringPiece(g) = toStringPiece(b)
               /\ readableBytes(g) = readableBytes(b)
               /\ Len(g.buffer_) = n
               /\ g.writerIndex_ = b.writerIndex_
<1> DEFINE v == Resized(b.buffer_, n)
           g == [b EXCEPT !.buffer_ = v]
<1>1. b.buffer_ \in Seq(Bytes) /\ b.readerIndex_ \in Nat /\ b.writerIndex_ \in Nat
  BY DEF WellFormed, Buffers
<1>2. v \in Seq(Bytes) /\ Len(v) = n /\ \A i \in 1 .. n : i <= Len(b.buffer_) => v[i] = b.buffer_[i]
  BY <1>1, ResizedVector
<1> HIDE DEF v
<1>3. /\ g \in Buffers /\ g.buffer_ = v
      /\ g.readerIndex_ = b.readerIndex_ /\ g.writerIndex_ = b.writerIndex_
  BY <1>1, <1>2 DEF WellFormed, Buffers
<1> HIDE DEF g
<1>4. WellFormed(g) /\ readableBytes(g) = readableBytes(b)
  <2>1. Len(b.buffer_) \in Nat
    BY <1>1
  <2> QED
    BY <1>1, <1>2, <1>3, <2>1, BufferAssumption DEF WellFormed, readableBytes
<1>5. ASSUME NEW i \in 1 .. readableBytes(b)
      PROVE  toStringPiece(g)[i] = toStringPiece(b)[i]
  <2>1. b.readerIndex_ + i \in 1 .. n /\ b.readerIndex_ + i <= Len(b.buffer_)
    BY <1>1 DEF WellFormed, readableBytes
  <2>2. toStringPiece(g)[i] = v[b.readerIndex_ + i]
    BY <1>3, <1>4, Contents
  <2>3. toStringPiece(b)[i] = b.buffer_[b.readerIndex_ + i]
    BY Contents
  <2> QED
    BY <1>2, <2>1, <2>2, <2>3
<1>6. toStringPiece(g) = toStringPiece(b)
  BY <1>4, <1>5, Contents, SeqEqual
<1> QED
  BY <1>2, <1>3, <1>4, <1>6 DEF g, v

(* ensureWritableBytes keeps the contents and leaves the room asked for;     *)
(* the contents are only ever moved towards the front.                      *)
LEMMA EnsuredRoom ==
    ASSUME NEW b, WellFormed(b), NEW len \in Nat
    PROVE  LET e == ensureWritableBytes(b, len)
           IN  /\ WellFormed(e)
               /\ toStringPiece(e) = toStringPiece(b)
               /\ readableBytes(e) = readableBytes(b)
               /\ writableBytes(e) >= len
               /\ writableBytes(b) < len => MustGrow(b, len) \/ kCheapPrepend < b.readerIndex_
<1>1. /\ b.buffer_ \in Seq(Bytes) /\ Len(b.buffer_) \in Nat
      /\ b.readerIndex_ \in Nat /\ b.writerIndex_ \in Nat
      /\ b.readerIndex_ <= b.writerIndex_ /\ b.writerIndex_ <= Len(b.buffer_)
  BY DEF WellFormed, Buffers
<1>2. CASE writableBytes(b) >= len
  <2>1. ensureWritableBytes(b, len) = b
    BY <1>1, <1>2 DEF ensureWritableBytes, writableBytes
  <2> QED
    BY <1>1, <1>2, <2>1 DEF writableBytes
<1>3. CASE writableBytes(b) < len /\ MustGrow(b, len)
  <2> DEFINE n == b.writerIndex_ + len
  <2>1. n \in Nat /\ Len(b.buffer_) <= n
    BY <1>1, <1>3 DEF writableBytes
  <2>2. ensureWritableBytes(b, len) = [b EXCEPT !.buffer_ = Resized(b.buffer_, n)]
    BY <1>3 DEF ensureWritableBytes, makeSpace
  <2> HIDE DEF n
  <2>3. n - b.writerIndex_ = len
    BY <1>1 DEF n
  <2> QED
    BY <1>3, <2>1, <2>2, <2>3, GrowingKeeps DEF writableBytes
<1>4. CASE writableBytes(b) < len /\ ~MustGrow(b, len)
  <2>1. kCheapPrepend < b.readerIndex_
    BY <1>1, <1>4, BufferAssumption DEF MustGrow, writableBytes, prependableBytes
  <2>2. ensureWritableBytes(b, len) = MovedToFront(b)
    BY <1>4 DEF ensureWritableBytes, makeSpace
  <2>3. Len(b.buffer_) - (kCheapPrepend + readableBytes(b)) >= len
    BY <1>1, <1>4, BufferAssumption
       DEF MustGrow, writableBytes, prependableBytes, readableBytes
  <2> QED
    BY <1>1, <2>1, <2>2, <2>3, MovedToFrontKeeps, BufferAssumption DEF writableBytes
<1> QED
  BY <1>1, <1>2, <1>3, <1>4 DEF writableBytes

(* Bytes copied behind the contents, where there is room, are appended.      *)
LEMMA StoredBehind ==
    ASSUME NEW b, WellFormed(b), NEW s \in Seq(Bytes), Len(s) <= writableBytes(b)
    PROVE  /\ WellFormed(Stored(b, s))
           /\ toStringPiece(Stored(b, s)) = toStringPiece(b) \o s
           /\ writableBytes(Stored(b, s)) = writableBytes(b) - Len(s)
<1> DEFINE v == Copied(b.buffer_, b.writerIndex_, s)
           g == Stored(b, s)
<1>1. /\ b.buffer_ \in Seq(Bytes) /\ Len(b.buffer_) \in Nat
      /\ b.readerIndex_ \in Nat /\ b.writerIndex_ \in Nat
      /\ b.readerIndex_ <= b.writerIndex_ /\ b.writerIndex_ <= Len(b.buffer_)
      /\ Len(s) \in Nat /\ b.writerIndex_ + Len(s) <= Len(b.buffer_)
  BY DEF WellFormed, Buffers, writableBytes
<1>2. /\ v \in Seq(Bytes)
      /\ Len(v) = Len(b.buffer_)
      /\ \A i \in 1 .. Len(v) :
            v[i] = IF b.writerIndex_ < i /\ i <= b.writerIndex_ + Len(s)
                   THEN s[i - b.writerIndex_] ELSE b.buffer_[i]
  BY <1>1, CopiedVector
<1> HIDE DEF v
<1>3. /\ g \in Buffers /\ g.buffer_ = v
      /\ g.readerIndex_ = b.readerIndex_ /\ g.writerIndex_ = b.writerIndex_ + Len(s)
  <2> DEFINE c == [b EXCEPT !.buffer_ = v]
  <2>1. /\ c \in Buffers /\ c.buffer_ = v
        /\ c.readerIndex_ = b.readerIndex_ /\ c.writerIndex_ = b.writerIndex_
    BY <1>2 DEF WellFormed, Buffers
  <2>2. g = [c EXCEPT !.writerIndex_ = c.writerIndex_ + Len(s)]
    BY DEF Stored, hasWritten, v
  <2> HIDE DEF c, g
  <2> QED
    BY <1>1, <2>1, <2>2 DEF Buffers
<1> HIDE DEF g
<1>4. /\ WellFormed(g)
      /\ readableBytes(g) = readableBytes(b) + Len(s)
      /\ writableBytes(g) = writableBytes(b) - Len(s)
  BY <1>1, <1>2, <1>3 DEF WellFormed, readableBytes, writableBytes
<1>5. /\ toStringPiece(b) \o s \in Seq(Bytes)
      /\ Len(toStringPiece(b) \o s) = readableBytes(g)
  BY <1>4, Contents, ConcatProperties
<1>6. ASSUME NEW i \in 1 .. readableBytes(g)
      PROVE  toStringPiece(g)[i] = (toStringPiece(b) \o s)[i]
  <2>1. toStringPiece(g)[i] = v[b.readerIndex_ + i]
    BY <1>3, <1>4, Contents
  <2>2. b.readerIndex_ + i \in 1 .. Len(v)
    BY <1>1, <1>2, <1>4 DEF readableBytes
  <2>3. CASE i <= readableBytes(b)
    <3>1. (toStringPiece(b) \o s)[i] = b.buffer_[b.readerIndex_ + i]
      BY <1>4, <2>3, Contents, ConcatProperties
    <3>2. ~(b.writerIndex_ < b.readerIndex_ + i)
      BY <1>1, <2>3 DEF readableBytes
    <3> QED
      BY <1>2, <2>1, <2>2, <3>1, <3>2
  <2>4. CASE ~(i <= readableBytes(b))
    <3>1. (toStringPiece(b) \o s)[i] = s[i - readableBytes(b)]
      <4>1. /\ toStringPiece(b) \in Seq(Bytes)
            /\ Len(toStringPiece(b)) = readableBytes(b)
            /\ readableBytes(b) \in Nat
        BY Contents
      <4> QED
        BY <1>1, <1>4, <2>4, <4>1, ConcatProperties
    <3>2. /\ b.writerIndex_ < b.readerIndex_ + i
          /\ b.readerIndex_ + i <= b.writerIndex_ + Len(s)
          /\ (b.readerIndex_ + i) - b.writerIndex_ = i - readableBytes(b)
      BY <1>1, <1>4, <2>4 DEF readableBytes
    <3>3. v[b.readerIndex_ + i] = s[(b.readerIndex_ + i) - b.writerIndex_]
      BY <1>2, <2>2, <3>2
    <3> QED
      BY <2>1, <3>1, <3>2, <3>3
  <2> QED
    BY <2>3, <2>4
<1>7. toStringPiece(g) = toStringPiece(b) \o s
  BY <1>4, <1>5, <1>6, Contents, SeqEqual
<1> QED
  BY <1>4, <1>7 DEF g

(* append puts its bytes behind the contents.                                *)
LEMMA AppendPuts ==
    ASSUME NEW b, WellFormed(b), NEW s \in Seq(Bytes)
    PROVE  WellFormed(append(b, s)) /\ toStringPiece(append(b, s)) = toStringPiece(b) \o s
<1>1. Len(s) \in Nat
  OBVIOUS
<1>2. LET e == ensureWritableBytes(b, Len(s))
      IN  /\ WellFormed(e) /\ toStringPiece(e) = toStringPiece(b)
          /\ Len(s) <= writableBytes(e)
  <2>1. LET e == ensureWritableBytes(b, Len(s))
        IN WellFormed(e) /\ toStringPiece(e) = toStringPiece(b) /\ writableBytes(e) >= Len(s)
    BY <1>1, EnsuredRoom
  <2>2. \A e : WellFormed(e) => writableBytes(e) \in Int
    BY DEF WellFormed, Buffers, writableBytes
  <2> QED
    BY <1>1, <2>1, <2>2
<1> QED
  BY <1>2, StoredBehind DEF append

(* So does readFd, however what was read is split over the two areas.       *)
LEMMA ReadFdPuts ==
    ASSUME NEW b, WellFormed(b), NEW s \in Seq(Bytes)
    PROVE  WellFormed(readFd(b, s)) /\ toStringPiece(readFd(b, s)) = toStringPiece(b) \o s
<1> DEFINE w == writableBytes(b)
           s1 == SubSeq(s, 1, w)
           s2 == SubSeq(s, w + 1, Len(s))
<1>1. w \in Nat /\ Len(s) \in Nat
  BY DEF WellFormed, Buffers, writableBytes
<1>2. CASE Len(s) <= w
  BY <1>2, StoredBehind DEF readFd
<1>3. CASE ~(Len(s) <= w)
  <2>1. s1 \in Seq(Bytes) /\ s2 \in Seq(Bytes) /\ Len(s1) = w /\ s1 \o s2 = s
    <3>1. s1 \in Seq(Bytes) /\ s2 \in Seq(Bytes) /\ Len(s1) = w
      BY <1>1, <1>3
    <3>2. s1 \o s2 = SubSeq(s, 1, Len(s))
      BY <1>1, <1>3, ConcatAdjacentSubSeq
    <3> QED
      BY <3>1, <3>2, SubSeqFull
  <2>2. WellFormed(Stored(b, s1)) /\ toStringPiece(Stored(b, s1)) = toStringPiece(b) \o s1
    <3>1. Len(s1) <= writableBytes(b)
      BY <1>1, <2>1
    <3> HIDE DEF s1, w
    <3> QED
      BY <2>1, <3>1, StoredBehind
  <2>3. /\ WellFormed(append(Stored(b, s1), s2))
        /\ toStringPiece(append(Stored(b, s1), s2)) = (toStringPiece(b) \o s1) \o s2
    BY <2>1, <2>2, AppendPuts
  <2>4. (toStringPiece(b) \o s1) \o s2 = toStringPiece(b) \o s
    <3>1. toStringPiece(b) \in Seq(Bytes)
      BY Contents
    <3> HIDE DEF s1, s2
    <3>2. \A p, q, r \in Seq(Bytes) : (p \o q) \o r = p \o (q \o r)
      BY ConcatAssociative
    <3> QED
      BY <2>1, <3>1, <3>2, Zenon
  <2> QED
    BY <1>3, <2>3, <2>4 DEF readFd
<1> QED
  BY <1>2, <1>3

(* A sequence is its first n elements and the others.                       *)
LEMMA SplitSequence ==
    ASSUME NEW S, NEW s \in Seq(S), NEW n \in 0 .. Len(s)
    PROVE  /\ SubSeq(s, 1, n) \in Seq(S) /\ SubSeq(s, n + 1, Len(s)) \in Seq(S)
           /\ s = SubSeq(s, 1, n) \o SubSeq(s, n + 1, Len(s))
<1>1. SubSeq(s, 1, n) \in Seq(S) /\ SubSeq(s, n + 1, Len(s)) \in Seq(S)
  OBVIOUS
<1>2. SubSeq(s, 1, n) \o SubSeq(s, n + 1, Len(s)) = SubSeq(s, 1, Len(s))
  <2>1. /\ Len(s) \in Nat /\ 1 \in 1 .. Len(s) + 1
        /\ n \in 1 - 1 .. Len(s) /\ Len(s) \in n .. Len(s)
    OBVIOUS
  <2>2. \A m \in 1 .. Len(s) + 1 : \A k \in m - 1 .. Len(s) : \A l \in k .. Len(s) :
           SubSeq(s, m, k) \o SubSeq(s, k + 1, l) = SubSeq(s, m, l)
    BY ConcatAdjacentSubSeq
  <2> QED
    BY <2>1, <2>2
<1> QED
  BY <1>1, <1>2, SubSeqFull

(* A buffer over the same vector whose window is part of b's.               *)
LEMMA Narrowed ==
    ASSUME NEW b, WellFormed(b), NEW g \in Buffers, g.buffer_ = b.buffer_,
           b.readerIndex_ <= g.readerIndex_, g.readerIndex_ <= g.writerIndex_,
           g.writerIndex_ <= b.writerIndex_
    PROVE  /\ WellFormed(g)
           /\ toStringPiece(g) = SubSeq(toStringPiece(b), g.readerIndex_ - b.readerIndex_ + 1,
                                                         g.writerIndex_ - b.readerIndex_)
<1> DEFINE m == g.readerIndex_ - b.readerIndex_
           n == g.writerIndex_ - b.readerIndex_
           t == SubSeq(toStringPiece(b), m + 1, n)
<1>1. /\ b.readerIndex_ \in Nat /\ b.writerIndex_ \in Nat
      /\ g.readerIndex_ \in Nat /\ g.writerIndex_ \in Nat
      /\ WellFormed(g)
  BY DEF WellFormed, Buffers
<1>2. /\ m \in Nat /\ n \in Nat /\ m <= n /\ n <= readableBytes(b)
      /\ readableBytes(g) = n - m
      /\ g.readerIndex_ = b.readerIndex_ + m
  BY <1>1 DEF readableBytes
<1>3. /\ toStringPiece(b) \in Seq(Bytes)
      /\ Len(toStringPiece(b)) = readableBytes(b)
      /\ \A i \in 1 .. readableBytes(b) : toStringPiece(b)[i] = b.buffer_[b.readerIndex_ + i]
  BY Contents
<1> HIDE DEF m, n
<1>4. /\ t \in Seq(Bytes) /\ Len(t) = n - m
      /\ \A i \in 1 .. n - m : t[i] = toStringPiece(b)[m + i]
  BY <1>2, <1>3
<1> HIDE DEF t
<1>5. ASSUME NEW i \in 1 .. n - m
      PROVE  toStringPiece(g)[i] = t[i]
  <2>1. m + i \in 1 .. readableBytes(b)
    BY <1>2, <1>3
  <2>2. toStringPiece(g)[i] = b.buffer_[(b.readerIndex_ + m) + i]
    BY <1>1, <1>2, Contents
  <2>3. t[i] = b.buffer_[b.readerIndex_ + (m + i)]
    BY <1>3, <1>4, <2>1
  <2>4. (b.readerIndex_ + m) + i = b.readerIndex_ + (m + i)
    BY <1>1, <1>2
  <2> QED
    BY <2>2, <2>3, <2>4
<1>6. toStringPiece(g) = t
  BY <1>1, <1>2, <1>4, <1>5, Contents, SeqEqual
<1> QED
  BY <1>1, <1>6 DEF t, m, n

(* retrieve takes the first bytes.                                          *)
LEMMA RetrieveTakes ==
    ASSUME NEW b, WellFormed(b), NEW len \in Nat, len <= readableBytes(b)
    PROVE  /\ WellFormed(retrieve(b, len))
           /\ SubSeq(toStringPiece(b), 1, len) \in Seq(Bytes)
           /\ toStringPiece(b) = SubSeq(toStringPiece(b), 1, len) \o toStringPiece(retrieve(b, len))
<1>1. /\ b.readerIndex_ \in Nat /\ b.writerIndex_ \in Nat /\ b.buffer_ \in Seq(Bytes)
      /\ toStringPiece(b) \in Seq(Bytes)
      /\ Len(toStringPiece(b)) = readableBytes(b) /\ readableBytes(b) \in Nat
  BY Contents DEF WellFormed, Buffers
<1>2. /\ SubSeq(toStringPiece(b), 1, len) \in Seq(Bytes)
      /\ toStringPiece(b) = SubSeq(toStringPiece(b), 1, len)
                             \o SubSeq(toStringPiece(b), len + 1, readableBytes(b))
  BY <1>1, SplitSequence
<1>3. CASE len < readableBytes(b)
  <2> DEFINE g == retrieve(b, len)
  <2>1. /\ g \in Buffers /\ g.buffer_ = b.buffer_
        /\ g.readerIndex_ = b.readerIndex_ + len /\ g.writerIndex_ = b.writerIndex_
    BY <1>1, <1>3 DEF retrieve, WellFormed, Buffers
  <2> HIDE DEF g
  <2>2. WellFormed(g) /\ toStringPiece(g) = SubSeq(toStringPiece(b), g.readerIndex_ - b.readerIndex_ + 1,
                                                   g.writerIndex_ - b.readerIndex_)
    <3>1. /\ b.readerIndex_ <= g.readerIndex_ /\ g.readerIndex_ <= g.writerIndex_
          /\ g.writerIndex_ <= b.writerIndex_
      BY <1>1, <1>3, <2>1 DEF readableBytes
    <3> QED
      BY <2>1, <3>1, Narrowed
  <2>3. g.readerIndex_ - b.readerIndex_ = len /\ g.writerIndex_ - b.readerIndex_ = readableBytes(b)
    BY <1>1, <2>1 DEF readableBytes
  <2> QED
    BY <1>2, <2>2, <2>3 DEF g
<1>4. CASE len = readableBytes(b)
  <2>1. retrieve(b, len) = retrieveAll(b)
    BY <1>1, <1>4 DEF retrieve
  <2>2. WellFormed(retrieveAll(b)) /\ readableBytes(retrieveAll(b)) = 0
    <3>1. /\ retrieveAll(b).buffer_ = b.buffer_
          /\ retrieveAll(b).readerIndex_ = kCheapPrepend
          /\ retrieveAll(b).writerIndex_ = kCheapPrepend
          /\ retrieveAll(b) \in Buffers
      BY BufferAssumption DEF retrieveAll, WellFormed, Buffers
    <3> QED
      BY <3>1, BufferAssumption DEF WellFormed, readableBytes
  <2>3. toStringPiece(retrieveAll(b)) = <<>>
    BY <2>2, Contents, EmptySeq, SeqEqual
  <2>4. SubSeq(toStringPiece(b), 1, len) = toStringPiece(b)
    BY <1>1, <1>4, SubSeqFull
  <2> QED
    BY <1>1, <2>1, <2>2, <2>3, <2>4, ConcatEmptySeq
<1> QED
  BY <1>1, <1>3, <1>4

(* unwrite takes the last bytes back.                                       *)
LEMMA UnwriteTakesBack ==
    ASSUME NEW b, WellFormed(b), NEW len \in Nat, len <= readableBytes(b)
    PROVE  LET last == SubSeq(toStringPiece(b), readableBytes(b) - len + 1, readableBytes(b))
           IN  /\ WellFormed(unwrite(b, len))
               /\ last \in Seq(Bytes)
               /\ toStringPiece(b) = toStringPiece(unwrite(b, len)) \o last
<1> DEFINE k == readableBytes(b) - len
           g == unwrite(b, len)
<1>1. /\ b.readerIndex_ \in Nat /\ b.writerIndex_ \in Nat
      /\ readableBytes(b) = b.writerIndex_ - b.readerIndex_
      /\ toStringPiece(b) \in Seq(Bytes)
      /\ Len(toStringPiece(b)) = readableBytes(b) /\ readableBytes(b) \in Nat
      /\ k \in 0 .. readableBytes(b) /\ b.writerIndex_ - len \in Nat
  BY Contents DEF WellFormed, Buffers, readableBytes
<1>2. /\ g \in Buffers /\ g.buffer_ = b.buffer_
      /\ g.readerIndex_ = b.readerIndex_ /\ g.writerIndex_ = b.writerIndex_ - len
  BY <1>1 DEF unwrite, WellFormed, Buffers
<1> HIDE DEF g
<1>3. /\ g.readerIndex_ - b.readerIndex_ + 1 = 1
      /\ g.writerIndex_ - b.readerIndex_ = k
  BY <1>1, <1>2
<1>4. WellFormed(g) /\ toStringPiece(g) = SubSeq(toStringPiece(b), 1, k)
  <2>1. WellFormed(g) /\ toStringPiece(g) = SubSeq(toStringPiece(b), g.readerIndex_ - b.readerIndex_ + 1,
                                                   g.writerIndex_ - b.readerIndex_)
    <3>1. /\ b.readerIndex_ <= g.readerIndex_
          /\ g.readerIndex_ <= g.writerIndex_
          /\ g.writerIndex_ <= b.writerIndex_
      BY <1>1, <1>2
    <3> HIDE DEF k
    <3> QED
      BY <1>1, <1>2, <3>1, Narrowed
  <2> QED
    BY <1>3, <2>1
<1> HIDE DEF k
<1>5. /\ SubSeq(toStringPiece(b), k + 1, readableBytes(b)) \in Seq(Bytes)
      /\ toStringPiece(b) = SubSeq(toStringPiece(b), 1, k)
                             \o SubSeq(toStringPiece(b), k + 1, readableBytes(b))
  BY <1>1, SplitSequence
<1> QED
  BY <1>4, <1>5 DEF g, k

(* prepend puts its bytes before the contents.                              *)
LEMMA PrependPuts ==
    ASSUME NEW b, WellFormed(b), NEW s \in Seq(Bytes), Len(s) <= prependableBytes(b)
    PROVE  WellFormed(prepend(b, s)) /\ toStringPiece(prepend(b, s)) = s \o toStringPiece(b)
<1> DEFINE r == b.readerIndex_ - Len(s)
           v == Copied(b.buffer_, r, s)
           g == prepend(b, s)
<1>1. /\ b.buffer_ \in Seq(Bytes) /\ Len(b.buffer_) \in Nat
      /\ b.readerIndex_ \in Nat /\ b.writerIndex_ \in Nat
      /\ b.readerIndex_ <= b.writerIndex_ /\ b.writerIndex_ <= Len(b.buffer_)
      /\ Len(s) \in Nat /\ r \in Nat /\ r + Len(s) = b.readerIndex_
  BY DEF WellFormed, Buffers, prependableBytes
<1> HIDE DEF r
<1>2. /\ v \in Seq(Bytes)
      /\ Len(v) = Len(b.buffer_)
      /\ \A i \in 1 .. Len(v) :
            v[i] = IF r < i /\ i <= r + Len(s) THEN s[i - r] ELSE b.buffer_[i]
  BY <1>1, CopiedVector
<1> HIDE DEF v
<1>3. /\ g \in Buffers /\ g.buffer_ = v
      /\ g.readerIndex_ = r /\ g.writerIndex_ = b.writerIndex_
  <2> DEFINE c == [b EXCEPT !.readerIndex_ = r]
  <2>1. /\ c \in Buffers /\ c.buffer_ = b.buffer_
        /\ c.readerIndex_ = r /\ c.writerIndex_ = b.writerIndex_
    BY <1>1 DEF WellFormed, Buffers
  <2>2. g = [c EXCEPT !.buffer_ = v]
    BY DEF prepend, v, r
  <2> HIDE DEF c, g
  <2> QED
    BY <1>1, <1>2, <2>1, <2>2 DEF Buffers
<1> HIDE DEF g
<1>4. /\ WellFormed(g)
      /\ readableBytes(g) = Len(s) + readableBytes(b)
      /\ readableBytes(b) = b.writerIndex_ - b.readerIndex_
  BY <1>1, <1>2, <1>3 DEF WellFormed, readableBytes
<1>5. /\ toStringPiece(b) \in Seq(Bytes)
      /\ Len(toStringPiece(b)) = readableBytes(b) /\ readableBytes(b) \in Nat
      /\ s \o toStringPiece(b) \in Seq(Bytes)
      /\ Len(s \o toStringPiece(b)) = readableBytes(g)
  BY <1>4, Contents, ConcatProperties
<1>6. ASSUME NEW i \in 1 .. readableBytes(g)
      PROVE  toStringPiece(g)[i] = (s \o toStringPiece(b))[i]
  <2>1. toStringPiece(g)[i] = v[r + i]
    BY <1>3, <1>4, Contents
  <2>2. r + i \in 1 .. Len(v)
    BY <1>1, <1>2, <1>4
  <2>3. CASE i <= Len(s)
    <3>1. (s \o toStringPiece(b))[i] = s[i]
      BY <1>1, <1>4, <1>5, <2>3, ConcatProperties
    <3>2. r < r + i /\ r + i <= r + Len(s) /\ (r + i) - r = i
      BY <1>1, <1>5, <2>3
    <3> QED
      BY <1>2, <2>1, <2>2, <3>1, <3>2
  <2>4. CASE ~(i <= Len(s))
    <3>1. (s \o toStringPiece(b))[i] = toStringPiece(b)[i - Len(s)]
      BY <1>1, <1>4, <1>5, <2>4, ConcatProperties
    <3>2. i - Len(s) \in 1 .. readableBytes(b) /\ b.readerIndex_ + (i - Len(s)) = r + i
      BY <1>1, <1>4, <1>5, <2>4
    <3>3. toStringPiece(b)[i - Len(s)] = b.buffer_[r + i]
      BY <3>2, Contents
    <3>4. ~(r + i <= r + Len(s))
      BY <1>1, <1>5, <2>4
    <3> QED
      BY <1>2, <2>1, <2>2, <3>1, <3>3, <3>4
  <2> QED
    BY <2>3, <2>4
<1> QED
  BY <1>4, <1>5, <1>6, Contents, SeqEqual DEF g

(* shrink keeps the contents.                                               *)
LEMMA ShrinkKeeps ==
    ASSUME NEW b, WellFormed(b), NEW reserve \in Nat
    PROVE  WellFormed(shrink(b, reserve)) /\ toStringPiece(shrink(b, reserve)) = toStringPiece(b)
<1> DEFINE new == NewBuffer(kInitialSize)
           e == ensureWritableBytes(new, readableBytes(b) + reserve)
<1>1. readableBytes(b) + reserve \in Nat /\ toStringPiece(b) \in Seq(Bytes)
  BY Contents
<1>2. WellFormed(new) /\ toStringPiece(new) = <<>>
  BY NewBufferEmpty, BufferAssumption
<1> HIDE DEF new
<1>3. WellFormed(e) /\ toStringPiece(e) = <<>>
  BY <1>1, <1>2, EnsuredRoom
<1>4. shrink(b, reserve) = append(e, toStringPiece(b))
  BY DEF shrink, new
<1> HIDE DEF e
<1>5. <<>> \o toStringPiece(b) = toStringPiece(b)
  BY <1>1, ConcatEmptySeq
<1> QED
  BY <1>1, <1>3, <1>4, <1>5, AppendPuts

-----------------------------------------------------------------------------
(* The theorems                                                             *)

(* The inductive invariant: the buffer is well formed, and the last call     *)
(* moved bytes.                                                             *)
Inv ==
    /\ WellFormed(buffer)
    /\ call \in [op : Queue!CallOps, bytes : Seq(Bytes)]

(* The constructor establishes the invariant and an empty queue.            *)
LEMMA InitInv == Init => Inv /\ Queue!Init
<1> SUFFICES ASSUME Init PROVE Inv /\ Queue!Init
  OBVIOUS
<1>1. WellFormed(buffer) /\ toStringPiece(buffer) = <<>>
  BY NewBufferEmpty, BufferAssumption DEF Init
<1>2. call = [op |-> "put", bytes |-> <<>>] /\ <<>> \in Seq(Bytes)
  BY DEF Init, Call, Queue!Call
<1> QED
  BY <1>1, <1>2 DEF Inv, Queue!Init, Queue!Call, Queue!CallOps

(* A string of at most n bytes is a sequence of bytes.                      *)
LEMMA StringsAreSequences ==
    ASSUME NEW n \in Nat, NEW s \in Strings(n)
    PROVE  s \in Seq(Bytes)
<1>1. PICK k \in 0 .. n : s \in [1 .. k -> Bytes]
  BY DEF Strings
<1> QED
  BY <1>1, SequenceOfFunction

(* Every method keeps the invariant, and moves bytes as ByteQueue does.     *)
LEMMA StepRefines ==
    ASSUME Inv, [Next]_vars
    PROVE  Inv' /\ [Queue!Next]_(<<toStringPiece(buffer), call>>)
<1> USE DEF Inv, Call, Queue!Call
<1>1. toStringPiece(buffer) \in Seq(Bytes) /\ readableBytes(buffer) \in Nat
  BY Contents
<1>2. WellFormed(buffer') => toStringPiece(buffer)' \in Seq(Bytes)
  BY Contents
<1>3. ASSUME NEW s \in Strings(MaxLen), AppendBytes(s) \/ ReadFd(s)
      PROVE  Inv' /\ Queue!Next
  <2>1. s \in Seq(Bytes)
    BY StringsAreSequences, BufferAssumption
  <2>2. /\ WellFormed(buffer') /\ call' = [op |-> "put", bytes |-> s]
        /\ toStringPiece(buffer)' = toStringPiece(buffer) \o s
    BY <1>3, <2>1, AppendPuts, ReadFdPuts DEF AppendBytes, ReadFd
  <2> QED
    BY <1>2, <2>1, <2>2 DEF Queue!Next, Queue!Put, Queue!CallOps
<1>4. ASSUME NEW s \in Strings(MaxLen), Prepend(s)
      PROVE  Inv' /\ Queue!Next
  <2>1. s \in Seq(Bytes)
    BY StringsAreSequences, BufferAssumption
  <2>2. /\ WellFormed(buffer') /\ call' = [op |-> "putFront", bytes |-> s]
        /\ toStringPiece(buffer)' = s \o toStringPiece(buffer)
    BY <1>4, <2>1, PrependPuts DEF Prepend
  <2> QED
    BY <1>2, <2>1, <2>2 DEF Queue!Next, Queue!PutFront, Queue!CallOps
<1>5. ASSUME NEW len \in 0 .. MaxReadable + MaxLen, Retrieve(len)
      PROVE  Inv' /\ Queue!Next
  <2>1. /\ WellFormed(buffer') /\ First(len) \in Seq(Bytes)
        /\ call' = [op |-> "take", bytes |-> First(len)]
        /\ toStringPiece(buffer) = First(len) \o toStringPiece(buffer)'
    BY <1>5, RetrieveTakes DEF Retrieve, First
  <2> QED
    BY <1>2, <2>1 DEF Queue!Next, Queue!Take, Queue!CallOps
<1>6. ASSUME NEW len \in 0 .. MaxReadable + MaxLen, Unwrite(len)
      PROVE  Inv' /\ Queue!Next
  <2>1. /\ WellFormed(buffer') /\ Last(len) \in Seq(Bytes)
        /\ call' = [op |-> "takeBack", bytes |-> Last(len)]
        /\ toStringPiece(buffer) = toStringPiece(buffer)' \o Last(len)
    <3>1. len \in Nat /\ len <= readableBytes(buffer)
      BY <1>6, BufferAssumption DEF Unwrite
    <3> QED
      BY <1>6, <3>1, UnwriteTakesBack DEF Unwrite, Last
  <2> QED
    BY <1>2, <2>1 DEF Queue!Next, Queue!TakeBack, Queue!CallOps
<1>7. ASSUME NEW len \in 0 .. MaxLen, EnsureWritableBytes(len) \/ Shrink(len)
      PROVE  Inv' /\ UNCHANGED <<toStringPiece(buffer), call>>
  <2>1. WellFormed(buffer') /\ toStringPiece(buffer)' = toStringPiece(buffer) /\ call' = call
    BY <1>7, EnsuredRoom, ShrinkKeeps, BufferAssumption DEF EnsureWritableBytes, Shrink
  <2> QED
    BY <2>1
<1>8. CASE UNCHANGED vars
  BY <1>8 DEF vars
<1> QED
  BY <1>3, <1>4, <1>5, <1>6, <1>7, <1>8 DEF Next

(* The invariant holds in every state.                                      *)
LEMMA Invariance == Spec => []Inv
<1>1. Init => Inv
  BY InitInv
<1>2. Inv /\ [Next]_vars => Inv'
  BY StepRefines
<1> QED
  BY <1>1, <1>2, PTL DEF Spec

(* The indices stay in order and inside the vector.                         *)
THEOREM TypeCorrect == Spec => []TypeOK
<1>1. Inv => TypeOK
  BY DEF Inv, WellFormed, TypeOK
<1> QED
  BY <1>1, Invariance, PTL

(* No assert of append and makeSpace can fail, whatever is appended next.    *)
THEOREM AssertsNeverFail == Spec => []AssertsHold
<1>1. Inv => AssertsHold
  BY EnsuredRoom, BufferAssumption DEF Inv, AssertsHold
<1> QED
  BY <1>1, Invariance, PTL

(* The bytes come out as they went in: Buffer implements ByteQueue.          *)
THEOREM BufferIsAByteQueue == Spec => BytesKept
<1>1. Init => Queue!Init
  BY InitInv
<1>2. Inv /\ [Next]_vars => [Queue!Next]_(<<toStringPiece(buffer), call>>)
  BY StepRefines
<1> QED
  BY <1>1, <1>2, Invariance, PTL DEF Spec, BytesKept, Queue!Spec

-----------------------------------------------------------------------------
(* ReplyBuffer                                                              *)

ReplyBuffers == [m_vecBuffer : Seq(Bytes), capacity : Nat, m_nReadPos : Nat, m_nWritePos : Nat]

(* The positions are in order and inside the vector, and the vector inside   *)
(* what it has reserved.                                                    *)
Sound(r) ==
    /\ r \in ReplyBuffers
    /\ r.m_nReadPos <= r.m_nWritePos
    /\ r.m_nWritePos <= Len(r.m_vecBuffer)
    /\ Len(r.m_vecBuffer) <= r.capacity

(* Two buffers that hold the same bytes at the same positions.               *)
SameHeld(r, g) ==
    /\ g.m_nReadPos = r.m_nReadPos
    /\ g.m_nWritePos = r.m_nWritePos
    /\ Reply!Contents(g) = Reply!Contents(r)

LEMMA Window ==
    ASSUME NEW v \in Seq(Bytes), NEW a \in Nat, NEW b \in Nat, a <= b, b <= Len(v)
    PROVE  /\ SubSeq(v, a + 1, b) \in Seq(Bytes)
           /\ Len(SubSeq(v, a + 1, b)) = b - a
           /\ \A i \in 1 .. b - a : SubSeq(v, a + 1, b)[i] = v[a + i]
OBVIOUS

LEMMA SoundParts ==
    ASSUME NEW r, Sound(r)
    PROVE  /\ r.m_vecBuffer \in Seq(Bytes) /\ Len(r.m_vecBuffer) \in Nat
           /\ r.capacity \in Nat /\ r.m_nReadPos \in Nat /\ r.m_nWritePos \in Nat
           /\ r.m_nReadPos <= r.m_nWritePos
           /\ r.m_nWritePos <= Len(r.m_vecBuffer)
           /\ Len(r.m_vecBuffer) <= r.capacity
BY DEF Sound, ReplyBuffers

(* What can be read, byte by byte.                                          *)
LEMMA ReplyContents ==
    ASSUME NEW r, Sound(r)
    PROVE  /\ Reply!Contents(r) \in Seq(Bytes)
           /\ Len(Reply!Contents(r)) = Reply!readableSize(r)
           /\ Reply!readableSize(r) \in Nat
           /\ \A i \in 1 .. Reply!readableSize(r) :
                Reply!Contents(r)[i] = r.m_vecBuffer[r.m_nReadPos + i]
<1>1. Reply!readableSize(r) = r.m_nWritePos - r.m_nReadPos
  BY DEF Reply!readableSize
<1>2. Reply!Contents(r) = SubSeq(r.m_vecBuffer, r.m_nReadPos + 1, r.m_nWritePos)
  BY DEF Reply!Contents
<1> QED
  BY <1>1, <1>2, SoundParts, Window

(* Buffers whose vectors agree where the bytes are hold the same.            *)
LEMMA HeldWhenAgree ==
    ASSUME NEW r, Sound(r), NEW g, Sound(g),
           g.m_nReadPos = r.m_nReadPos, g.m_nWritePos = r.m_nWritePos,
           \A i \in 1 .. r.m_nWritePos : g.m_vecBuffer[i] = r.m_vecBuffer[i]
    PROVE  SameHeld(r, g)
<1>1. Reply!readableSize(g) = Reply!readableSize(r)
  BY DEF Reply!readableSize
<1>2. ASSUME NEW i \in 1 .. Reply!readableSize(r)
      PROVE  Reply!Contents(g)[i] = Reply!Contents(r)[i]
  <2>1. r.m_nReadPos + i \in 1 .. r.m_nWritePos
    BY SoundParts DEF Reply!readableSize
  <2> QED
    BY <1>1, <2>1, ReplyContents
<1>3. Reply!Contents(g) = Reply!Contents(r)
  BY <1>1, <1>2, ReplyContents, SeqEqual
<1> QED
  BY <1>3 DEF SameHeld

LEMMA MaxOfTwo ==
    ASSUME NEW m \in Nat, NEW n \in Nat
    PROVE  Reply!Max({m, n}) \in Nat /\ Reply!Max({m, n}) >= m
<1>1. CASE m >= n
  <2>1. m \in {m, n} /\ \A y \in {m, n} : m >= y
    BY <1>1
  <2> QED
    BY <2>1 DEF Reply!Max
<1>2. CASE n >= m
  <2>1. n \in {m, n} /\ \A y \in {m, n} : n >= y
    BY <1>2
  <2> QED
    BY <2>1 DEF Reply!Max
<1> QED
  BY <1>1, <1>2

LEMMA MinOfTwo ==
    ASSUME NEW m \in Nat, NEW n \in Nat
    PROVE  Reply!Min({0 + m, n}) \in 0 .. n
<1>1. CASE m >= n
  <2>1. n \in {0 + m, n} /\ \A y \in {0 + m, n} : n <= y
    BY <1>1
  <2> QED
    BY <2>1 DEF Reply!Min
<1>2. CASE n >= m
  <2>1. 0 + m \in {0 + m, n} /\ \A y \in {0 + m, n} : 0 + m <= y
    BY <1>2
  <2> QED
    BY <1>2, <2>1 DEF Reply!Min
<1> QED
  BY <1>1, <1>2

(* resize to a size not smaller keeps what is held.                          *)
LEMMA ResizedKeeps ==
    ASSUME NEW r, Sound(r), NEW n \in Nat, Len(r.m_vecBuffer) <= n
    PROVE  LET g == Reply!Resized(r, n)
           IN  Sound(g) /\ SameHeld(r, g) /\ Len(g.m_vecBuffer) = n
<1> DEFINE v == [i \in 1 .. n |-> IF i <= Len(r.m_vecBuffer) THEN r.m_vecBuffer[i] ELSE 0]
           c == Reply!Reserved(r, n)
           g == [m_vecBuffer |-> v, capacity |-> c, m_nReadPos |-> r.m_nReadPos, m_nWritePos |-> r.m_nWritePos]
<1>1. Reply!Resized(r, n) = g
  <2>1. Reply!Resized(r, n) = [r EXCEPT !.m_vecBuffer = v, !.capacity = c]
    BY DEF Reply!Resized
  <2>2. r \in ReplyBuffers
    BY DEF Sound
  <2> HIDE DEF v, c
  <2> QED
    BY <2>1, <2>2 DEF ReplyBuffers
<1>2. v \in Seq(Bytes) /\ Len(v) = n /\ \A i \in 1 .. Len(r.m_vecBuffer) : v[i] = r.m_vecBuffer[i]
  <2> DEFINE w == r.m_vecBuffer
  <2>1. v = Resized(w, n)
    BY DEF Resized
  <2>2. w \in Seq(Bytes) /\ Len(w) \in Nat /\ Len(w) <= n
    BY SoundParts
  <2> HIDE DEF v, w
  <2>3. v \in Seq(Bytes) /\ Len(v) = n /\ \A i \in 1 .. n : i <= Len(w) => v[i] = w[i]
    BY <2>1, <2>2, ResizedVector
  <2>4. \A i \in 1 .. Len(w) : i \in 1 .. n /\ i <= Len(w)
    BY <2>2
  <2>5. v \in Seq(Bytes) /\ Len(v) = n /\ \A i \in 1 .. Len(w) : v[i] = w[i]
    BY <2>3, <2>4
  <2> QED
    BY <2>5 DEF w
<1>3. c \in Nat /\ n <= c
  <2>1. 2 * Len(r.m_vecBuffer) \in Nat
    BY SoundParts
  <2> QED
    BY <2>1, SoundParts, MaxOfTwo DEF Reply!Reserved
<1> HIDE DEF v, c
<1>4. Sound(g)
  BY <1>2, <1>3, SoundParts DEF Sound, ReplyBuffers
<1>5. \A i \in 1 .. r.m_nWritePos : g.m_vecBuffer[i] = r.m_vecBuffer[i]
  BY <1>2, SoundParts
<1>6. g.m_nReadPos = r.m_nReadPos /\ g.m_nWritePos = r.m_nWritePos /\ Len(g.m_vecBuffer) = n
  BY <1>2
<1> HIDE DEF g
<1> QED
  BY <1>1, <1>4, <1>5, <1>6, HeldWhenAgree

(* A turn of the loop makes the vector longer.                               *)
LEMMA GrownOnceKeeps ==
    ASSUME NEW r, Sound(r)
    PROVE  LET g == Reply!GrownOnce(r)
           IN  Sound(g) /\ SameHeld(r, g) /\ Len(g.m_vecBuffer) >= Len(r.m_vecBuffer) + 1
<1> DEFINE size == Len(r.m_vecBuffer)
           n == IF size < FirstSize THEN FirstSize ELSE size + size \div 2
<1>1. size \in Nat
  BY SoundParts
<1>2. n \in Nat /\ n >= size + 1
  <2>1. \A m \in Nat : m >= 2 => m \div 2 \in Nat /\ m \div 2 >= 1
    OBVIOUS
  <2>2. size >= 2 => size \div 2 \in Nat /\ size \div 2 >= 1
    BY <1>1, <2>1
  <2> DEFINE half == size \div 2
  <2>3. CASE size < FirstSize
    BY <1>1, <2>3, ReplyBufferAssumption
  <2>4. CASE ~ (size < FirstSize)
    <3>1. size >= 2
      BY <1>1, <2>4, ReplyBufferAssumption
    <3>2. half \in Nat /\ half >= 1
      BY <2>2, <3>1
    <3>3. n = size + half
      BY <2>4
    <3> HIDE DEF half, n
    <3> QED
      BY <1>1, <3>2, <3>3
  <2> QED
    BY <2>3, <2>4
<1>3. Reply!GrownOnce(r) = Reply!Resized(r, n)
  BY DEF Reply!GrownOnce
<1> HIDE DEF n
<1>4. size <= n
  BY <1>1, <1>2
<1> QED
  BY <1>2, <1>3, <1>4, ResizedKeeps

SoundBuffers == {r \in ReplyBuffers : Sound(r)}

(* The loop ends with room enough, or with a vector that is too large.       *)
LEMMA GrownKeeps ==
    ASSUME NEW r, Sound(r), NEW nSize \in Nat
    PROVE  LET g == Reply!Grown(r, nSize)
           IN  Sound(g) /\ SameHeld(r, g) /\ Reply!Enough(g, nSize)
<1> DEFINE Turn(g) == IF Reply!Enough(g, nSize) THEN g ELSE Reply!GrownOnce(g)
           T == SoundBuffers
           F == [i \in 1 .. nSize |-> [g \in T |-> Turn(g)]]
           Turns(t) == t = [i \in 0 .. nSize |->
                              IF i = 0 THEN r
                              ELSE IF Reply!Enough(t[i - 1], nSize) THEN t[i - 1]
                              ELSE Reply!GrownOnce(t[i - 1])]
<1>1. \A g \in T : Turn(g) \in T
  BY GrownOnceKeeps DEF SoundBuffers, Sound
<1>2. r \in T
  BY DEF SoundBuffers, Sound
<1>3. F \in [1 .. nSize -> [T -> T]]
  BY <1>1
<1>4. PICK t \in [0 .. nSize -> T] : Iterates(t, r, nSize, F)
  <2> HIDE DEF F, T
  <2> QED
    BY <1>2, <1>3, IterationExists
<1>5. t[0] = r /\ \A i \in 1 .. nSize : t[i] = Turn(t[i - 1])
  <2>1. \A i \in 0 .. nSize : t[i] = IF i = 0 THEN r ELSE F[i][t[i - 1]]
    <3> HIDE DEF F
    <3> QED
      BY <1>4 DEF Iterates
  <2>2. \A i \in 1 .. nSize : t[i - 1] \in T
    <3> HIDE DEF T
    <3> QED
      BY <1>4
  <2>3. ASSUME NEW i \in 1 .. nSize, NEW g \in T
        PROVE  F[i][g] = Turn(g)
    <3> HIDE DEF T, Turn
    <3> QED
      OBVIOUS
  <2> HIDE DEF F, T, Turn
  <2> QED
    BY <2>1, <2>2, <2>3
<1>6. Turns(t)
  <2> HIDE DEF T
  <2>1. t = [i \in 0 .. nSize |-> t[i]]
    BY <1>4
  <2> QED
    BY <1>5, <2>1
<1>7. PICK u : Turns(u) /\ Reply!Grown(r, nSize) = u[nSize]
  <2> DEFINE u == CHOOSE u : Turns(u)
  <2>1. Turns(u)
    BY <1>6
  <2>2. Reply!Grown(r, nSize) = u[nSize]
    BY DEF Reply!Grown
  <2> QED
    BY <2>1, <2>2
<1> DEFINE S == {i \in 0 .. nSize : /\ Sound(u[i]) /\ SameHeld(r, u[i])
                                    /\ \/ Reply!Enough(u[i], nSize)
                                       \/ Len(u[i].m_vecBuffer) >= Len(r.m_vecBuffer) + i}
<1>8. u[0] = r /\ \A i \in 1 .. nSize : u[i] = Turn(u[i - 1])
  BY <1>7
<1> HIDE DEF Turns
<1>9. 0 \in S
  BY <1>8, SoundParts DEF SameHeld
<1>10. ASSUME NEW i \in 1 .. nSize, i - 1 \in S
       PROVE  i \in S
  <2> DEFINE g == u[i - 1]
  <2>1. Sound(g) /\ SameHeld(r, g) /\ (Reply!Enough(g, nSize) \/ Len(g.m_vecBuffer) >= Len(r.m_vecBuffer) + (i - 1))
    BY <1>10
  <2>2. u[i] = Turn(g) /\ i \in 0 .. nSize
    BY <1>8
  <2> HIDE DEF g
  <2>3. CASE Reply!Enough(g, nSize)
    BY <2>1, <2>2, <2>3
  <2>4. CASE ~Reply!Enough(g, nSize)
    <3>1. u[i] = Reply!GrownOnce(g)
      BY <2>2, <2>4
    <3>2. Sound(u[i]) /\ SameHeld(g, u[i]) /\ Len(u[i].m_vecBuffer) >= Len(g.m_vecBuffer) + 1
      BY <2>1, <3>1, GrownOnceKeeps
    <3>3. SameHeld(r, u[i])
      BY <2>1, <3>2 DEF SameHeld
    <3>4. Len(u[i].m_vecBuffer) >= Len(r.m_vecBuffer) + i
      BY <2>1, <2>4, <3>2, SoundParts
    <3> QED
      BY <2>2, <3>2, <3>3, <3>4
  <2> QED
    BY <2>3, <2>4
<1>11. nSize \in S
  <2> HIDE DEF S
  <2>1. \A i \in 0 .. nSize : i \in S
    BY <1>9, <1>10, IndicesReached
  <2> QED
    BY <2>1
<1> DEFINE g == u[nSize]
<1>12. Sound(g) /\ SameHeld(r, g) /\ (Reply!Enough(g, nSize) \/ Len(g.m_vecBuffer) >= Len(r.m_vecBuffer) + nSize)
  BY <1>11
<1> HIDE DEF g
<1>13. Reply!Enough(g, nSize)
  BY <1>12, SoundParts DEF Reply!Enough, Reply!writableSize, SameHeld
<1> QED
  BY <1>7, <1>12, <1>13 DEF g

(* The contents moved to the front are the same, over bytes already read.    *)
LEMMA MovedReplyKeeps ==
    ASSUME NEW r, Sound(r)
    PROVE  LET m == Reply!MovedToFront(r)
           IN  /\ Sound(m)
               /\ Reply!Contents(m) = Reply!Contents(r)
               /\ m.m_nReadPos = 0 /\ m.m_nWritePos = Reply!readableSize(r)
               /\ Len(m.m_vecBuffer) = Len(r.m_vecBuffer)
<1> DEFINE c == Reply!Contents(r)
           k == Reply!readableSize(r)
           rest == SubSeq(r.m_vecBuffer, k + 1, Len(r.m_vecBuffer))
           v == c \o rest
           m == Reply!MovedToFront(r)
<1>1. /\ r.m_vecBuffer \in Seq(Bytes) /\ Len(r.m_vecBuffer) \in Nat
      /\ r.capacity \in Nat /\ Len(r.m_vecBuffer) <= r.capacity
      /\ k \in Nat /\ k <= Len(r.m_vecBuffer)
  BY SoundParts DEF Reply!readableSize
<1>2. c \in Seq(Bytes) /\ Len(c) = k
  BY ReplyContents
<1>3. rest \in Seq(Bytes) /\ Len(rest) = Len(r.m_vecBuffer) - k
  <2> HIDE DEF k
  <2> QED
    BY <1>1, Window
<1>4. m = [m_vecBuffer |-> v, capacity |-> r.capacity, m_nReadPos |-> 0, m_nWritePos |-> k]
  <2>1. m = [r EXCEPT !.m_vecBuffer = v, !.m_nReadPos = 0, !.m_nWritePos = k]
    BY DEF Reply!MovedToFront
  <2>2. r \in ReplyBuffers
    BY DEF Sound
  <2> HIDE DEF v, k, m
  <2> QED
    BY <2>1, <2>2 DEF ReplyBuffers
<1> HIDE DEF c, k, rest, m
<1>5. /\ v \in Seq(Bytes) /\ Len(v) = k + Len(rest)
      /\ \A i \in 1 .. k : v[i] = c[i]
  BY <1>1, <1>2, <1>3, ConcatProperties
<1> HIDE DEF v
<1>6. Sound(m) /\ Reply!readableSize(m) = k /\ Len(m.m_vecBuffer) = Len(r.m_vecBuffer)
  BY <1>1, <1>3, <1>4, <1>5 DEF Sound, ReplyBuffers, Reply!readableSize
<1>7. ASSUME NEW i \in 1 .. k
      PROVE  Reply!Contents(m)[i] = c[i]
  <2>1. Reply!Contents(m)[i] = m.m_vecBuffer[m.m_nReadPos + i]
    BY <1>6, ReplyContents
  <2> QED
    BY <1>1, <1>4, <1>5, <2>1
<1>8. Reply!Contents(m) = c
  BY <1>2, <1>6, <1>7, ReplyContents, SeqEqual
<1> QED
  BY <1>4, <1>6, <1>8 DEF c, k, m

(* After assureSpace the room is there, and the contents are the same.       *)
LEMMA AssuredRoom ==
    ASSUME NEW r, Sound(r), NEW n \in Nat, Reply!readableSize(r) + n <= MAX_BUFFER_SIZE
    PROVE  LET e == Reply!assureSpace(r, n)
           IN  /\ Sound(e)
               /\ Reply!Contents(e) = Reply!Contents(r)
               /\ n <= Reply!writableSize(e)
<1>1. CASE n <= Reply!writableSize(r)
  BY <1>1 DEF Reply!assureSpace
<1>2. CASE ~ (n <= Reply!writableSize(r))
  <2> DEFINE g == Reply!Grown(r, n)
             m == Reply!MovedToFront(g)
  <2>1. Reply!assureSpace(r, n) = m
    BY <1>2 DEF Reply!assureSpace
  <2>2. Sound(g) /\ SameHeld(r, g) /\ Reply!Enough(g, n)
    BY GrownKeeps
  <2> HIDE DEF g
  <2>3. /\ Sound(m) /\ Reply!Contents(m) = Reply!Contents(g)
        /\ m.m_nWritePos = Reply!readableSize(g)
        /\ Len(m.m_vecBuffer) = Len(g.m_vecBuffer)
    BY <2>2, MovedReplyKeeps
  <2> HIDE DEF m
  <2>4. Reply!readableSize(g) = Reply!readableSize(r) /\ Reply!Contents(g) = Reply!Contents(r)
    BY <2>2 DEF SameHeld, Reply!readableSize
  <2>5. Reply!readableSize(g) = g.m_nWritePos - g.m_nReadPos
    BY DEF Reply!readableSize
  <2>6. /\ Len(g.m_vecBuffer) \in Nat /\ g.m_nWritePos \in Nat /\ g.m_nReadPos \in Nat
        /\ MAX_BUFFER_SIZE \in Nat
    BY <2>2, SoundParts, ReplyBufferAssumption
  <2>7. n <= Len(g.m_vecBuffer) - Reply!readableSize(g)
    <3>1. CASE n <= Reply!writableSize(g) + g.m_nReadPos
      BY <2>5, <2>6, <3>1 DEF Reply!writableSize
    <3>2. CASE Len(g.m_vecBuffer) > MAX_BUFFER_SIZE
      BY <2>4, <2>5, <2>6, <3>2
    <3> QED
      BY <2>2, <3>1, <3>2 DEF Reply!Enough
  <2>8. n <= Reply!writableSize(m)
    BY <2>3, <2>7 DEF Reply!writableSize
  <2> QED
    BY <2>1, <2>3, <2>4, <2>8
<1> QED
  BY <1>1, <1>2

(* Bytes copied behind what a buffer with room for them holds.               *)
LEMMA WrittenBehind ==
    ASSUME NEW e, Sound(e), NEW s \in Seq(Bytes), Len(s) <= Reply!writableSize(e),
           NEW p, p = [m_vecBuffer |-> Copied(e.m_vecBuffer, e.m_nWritePos, s),
                       capacity |-> e.capacity, m_nReadPos |-> e.m_nReadPos,
                       m_nWritePos |-> e.m_nWritePos + Len(s)]
    PROVE  /\ Sound(p)
           /\ Reply!Contents(p) = Reply!Contents(e) \o s
           /\ Reply!readableSize(p) = Reply!readableSize(e) + Len(s)
<1> DEFINE w == e.m_vecBuffer
           at == e.m_nWritePos
           from == e.m_nReadPos
           v == Copied(w, at, s)
           c == Reply!Contents(e)
           k == Reply!readableSize(e)
           t == c \o s
<1>1. /\ w \in Seq(Bytes) /\ Len(w) \in Nat /\ at \in Nat /\ from \in Nat
      /\ from <= at /\ at <= Len(w) /\ Len(s) \in Nat /\ at + Len(s) <= Len(w)
      /\ e.capacity \in Nat /\ Len(w) <= e.capacity
  BY SoundParts DEF Reply!writableSize
<1>2. k = at - from
  BY DEF Reply!readableSize
<1>3. /\ c \in Seq(Bytes) /\ Len(c) = k /\ k \in Nat
      /\ \A i \in 1 .. k : c[i] = w[from + i]
  BY ReplyContents
<1> HIDE DEF w, at, from, c, k
<1>4. /\ v \in Seq(Bytes) /\ Len(v) = Len(w)
      /\ \A i \in 1 .. Len(w) :
            v[i] = IF at < i /\ i <= at + Len(s) THEN s[i - at] ELSE w[i]
  BY <1>1, CopiedVector
<1> HIDE DEF v
<1>5. p = [m_vecBuffer |-> v, capacity |-> e.capacity, m_nReadPos |-> from, m_nWritePos |-> at + Len(s)]
  BY DEF v, w, at, from
<1>6. /\ Sound(p) /\ Reply!readableSize(p) = k + Len(s)
      /\ p.m_vecBuffer = v /\ p.m_nReadPos = from
  BY <1>1, <1>2, <1>4, <1>5 DEF Sound, ReplyBuffers, Reply!readableSize
<1>7. /\ t \in Seq(Bytes) /\ Len(t) = k + Len(s)
      /\ \A i \in 1 .. k + Len(s) : t[i] = IF i <= k THEN c[i] ELSE s[i - k]
  BY <1>1, <1>3, ConcatProperties
<1> HIDE DEF t
<1>8. ASSUME NEW i \in 1 .. k + Len(s)
      PROVE  Reply!Contents(p)[i] = t[i]
  <2>1. Reply!Contents(p)[i] = v[from + i] /\ from + i \in 1 .. Len(w)
    <3>1. i \in 1 .. Reply!readableSize(p)
      BY <1>6
    <3>2. Reply!Contents(p)[i] = p.m_vecBuffer[p.m_nReadPos + i]
      BY <1>6, <3>1, ReplyContents
    <3>3. from + i \in 1 .. Len(w)
      BY <1>1, <1>2
    <3> QED
      BY <1>6, <3>2, <3>3
  <2>2. CASE i <= k
    <3>1. ~ (at < from + i) /\ i \in 1 .. k
      BY <1>1, <1>2, <1>3, <2>2
    <3> QED
      BY <1>3, <1>4, <1>7, <2>1, <2>2, <3>1
  <2>3. CASE ~ (i <= k)
    <3>1. at < from + i /\ from + i <= at + Len(s) /\ (from + i) - at = i - k
      BY <1>1, <1>2, <1>3, <2>3
    <3>2. v[from + i] = s[(from + i) - at]
      BY <1>4, <2>1, <3>1
    <3> QED
      BY <1>7, <2>1, <2>3, <3>1, <3>2
  <2> QED
    BY <2>2, <2>3
<1>9. Reply!Contents(p) = t
  BY <1>6, <1>7, <1>8, ReplyContents, SeqEqual
<1> QED
  BY <1>6, <1>9 DEF t, c, k

(* pushData puts its bytes behind the contents.                              *)
LEMMA PushPuts ==
    ASSUME NEW r, Sound(r), NEW s \in Seq(Bytes),
           Reply!readableSize(r) + Len(s) < MAX_BUFFER_SIZE
    PROVE  LET p == Reply!pushData(r, s)
           IN  /\ Sound(p)
               /\ Reply!Contents(p) = Reply!Contents(r) \o s
               /\ Reply!readableSize(p) = Reply!readableSize(r) + Len(s)
<1>1. /\ Len(s) \in Nat /\ MAX_BUFFER_SIZE \in Nat
      /\ Reply!readableSize(r) \in Nat
      /\ Reply!Contents(r) \in Seq(Bytes) /\ Len(Reply!Contents(r)) = Reply!readableSize(r)
  BY ReplyContents, ReplyBufferAssumption
<1>2. Reply!readableSize(r) # MAX_BUFFER_SIZE
  BY <1>1
<1>3. Reply!pushData(r, s) = [Reply!pushDataAt(r, s, 0) EXCEPT !.m_nWritePos = @ + Len(s)]
  BY <1>2 DEF Reply!pushData
<1>4. CASE s = <<>>
  <2>1. Len(s) = 0
    BY <1>4
  <2>2. Reply!pushDataAt(r, s, 0) = r
    BY <1>4 DEF Reply!pushDataAt
  <2>3. Reply!pushData(r, s) = r
    BY <1>3, <2>1, <2>2 DEF Sound, ReplyBuffers
  <2>4. Reply!Contents(r) \o s = Reply!Contents(r)
    BY <1>1, <1>4, ConcatEmptySeq
  <2> QED
    BY <1>1, <2>1, <2>3, <2>4
<1>5. CASE s # <<>>
  <2> DEFINE e == Reply!assureSpace(r, Len(s))
             w == e.m_vecBuffer
             v == Copied(w, e.m_nWritePos, s)
             p == Reply!pushData(r, s)
  <2>1. Sound(e) /\ Reply!Contents(e) = Reply!Contents(r) /\ Len(s) <= Reply!writableSize(e)
    BY <1>1, AssuredRoom
  <2>2. Len(s) + 0 = Len(s)
    BY <1>1
  <2>3. Reply!pushDataAt(r, s, 0) = [e EXCEPT !.m_vecBuffer = v]
    <3>1. e.m_nWritePos + 0 = e.m_nWritePos /\ DOMAIN w = 1 .. Len(w)
      BY <2>1, SoundParts
    <3> QED
      BY <1>2, <1>5, <2>2, <3>1 DEF Reply!pushDataAt, Copied
  <2> HIDE DEF v, e
  <2>4. e \in ReplyBuffers
    BY <2>1 DEF Sound
  <2>5. p = [m_vecBuffer |-> v, capacity |-> e.capacity, m_nReadPos |-> e.m_nReadPos,
             m_nWritePos |-> e.m_nWritePos + Len(s)]
    BY <1>3, <2>3, <2>4 DEF ReplyBuffers
  <2> HIDE DEF p
  <2>6. /\ Sound(p) /\ Reply!Contents(p) = Reply!Contents(e) \o s
        /\ Reply!readableSize(p) = Reply!readableSize(e) + Len(s)
    BY <2>1, <2>5, WrittenBehind DEF v
  <2>7. Reply!readableSize(e) = Reply!readableSize(r)
    BY <1>1, <2>1, ReplyContents
  <2> QED
    BY <2>1, <2>6, <2>7 DEF p
<1> QED
  BY <1>4, <1>5

(* peekDataAt takes the first bytes, at most those held.                     *)
LEMMA PeekTakes ==
    ASSUME NEW r, Sound(r), NEW n \in Nat,
           NEW g, g = [r EXCEPT !.m_nReadPos = @ + Len(Reply!peekDataAt(r, n, 0))]
    PROVE  /\ Sound(g)
           /\ Reply!peekDataAt(r, n, 0) \in Seq(Bytes)
           /\ Reply!Contents(r) = Reply!peekDataAt(r, n, 0) \o Reply!Contents(g)
           /\ Reply!readableSize(g) <= Reply!readableSize(r)
<1> DEFINE c == Reply!Contents(r)
           k == Reply!readableSize(r)
           m == Reply!Min({0 + n, k})
           rest == SubSeq(c, m + 1, k)
<1>1. /\ c \in Seq(Bytes) /\ Len(c) = k /\ k \in Nat
      /\ \A i \in 1 .. k : c[i] = r.m_vecBuffer[r.m_nReadPos + i]
  BY ReplyContents
<1>2. k = r.m_nWritePos - r.m_nReadPos
  BY DEF Reply!readableSize
<1>3. m \in 0 .. k
  <2> HIDE DEF k
  <2> QED
    BY <1>1, MinOfTwo
<1>4. Reply!peekDataAt(r, n, 0) = SubSeq(c, 1, m)
  BY DEF Reply!peekDataAt
<1> HIDE DEF m, c, k
<1>5. SubSeq(c, 1, m) \in Seq(Bytes) /\ Len(SubSeq(c, 1, m)) = m
  BY <1>1, <1>3
<1>6. c = SubSeq(c, 1, m) \o rest
  BY <1>1, <1>3, SplitSequence
<1>7. rest \in Seq(Bytes) /\ Len(rest) = k - m /\ \A i \in 1 .. k - m : rest[i] = c[m + i]
  BY <1>1, <1>3, Window
<1> HIDE DEF rest
<1>8. g = [m_vecBuffer |-> r.m_vecBuffer, capacity |-> r.capacity,
           m_nReadPos |-> r.m_nReadPos + m, m_nWritePos |-> r.m_nWritePos]
  BY <1>4, <1>5 DEF Sound, ReplyBuffers
<1>9. /\ Sound(g) /\ Reply!readableSize(g) = k - m
      /\ g.m_vecBuffer = r.m_vecBuffer /\ g.m_nReadPos = r.m_nReadPos + m
  BY <1>2, <1>3, <1>8, SoundParts DEF Sound, ReplyBuffers, Reply!readableSize
<1>10. ASSUME NEW i \in 1 .. k - m
       PROVE  Reply!Contents(g)[i] = rest[i]
  <2>1. Reply!Contents(g)[i] = r.m_vecBuffer[(r.m_nReadPos + m) + i]
    <3>1. i \in 1 .. Reply!readableSize(g)
      BY <1>9
    <3>2. Reply!Contents(g)[i] = g.m_vecBuffer[g.m_nReadPos + i]
      BY <1>9, <3>1, ReplyContents
    <3> QED
      BY <1>9, <3>2
  <2>2. m + i \in 1 .. k /\ (r.m_nReadPos + m) + i = r.m_nReadPos + (m + i)
    BY <1>1, <1>3, SoundParts
  <2> QED
    BY <1>1, <1>7, <2>1, <2>2
<1>11. Reply!Contents(g) = rest
  BY <1>7, <1>9, <1>10, ReplyContents, SeqEqual
<1>12. Reply!readableSize(g) <= k
  BY <1>1, <1>3, <1>9
<1> QED
  BY <1>4, <1>5, <1>6, <1>9, <1>11, <1>12 DEF c, k

(* clear takes everything.                                                   *)
LEMMA ClearTakes ==
    ASSUME NEW r, Sound(r)
    PROVE  /\ Sound(Reply!clear(r))
           /\ Reply!readableSize(Reply!clear(r)) = 0
           /\ Reply!Contents(Reply!clear(r)) = <<>>
<1>1. Reply!clear(r) = [m_vecBuffer |-> r.m_vecBuffer, capacity |-> r.capacity,
                        m_nReadPos |-> 0, m_nWritePos |-> 0]
  <2>1. r \in ReplyBuffers
    BY DEF Sound
  <2> DEFINE zero == 0
  <2>2. Reply!clear(r) = [r EXCEPT !.m_nReadPos = zero, !.m_nWritePos = zero]
    BY DEF Reply!clear
  <2>3. Reply!clear(r) = [m_vecBuffer |-> r.m_vecBuffer, capacity |-> r.capacity,
                          m_nReadPos |-> zero, m_nWritePos |-> zero]
    <3> HIDE DEF zero
    <3> QED
      BY <2>1, <2>2 DEF ReplyBuffers
  <2> QED
    BY <2>3
<1>2. Sound(Reply!clear(r)) /\ Reply!readableSize(Reply!clear(r)) = 0
  BY <1>1, SoundParts DEF Sound, ReplyBuffers, Reply!readableSize
<1> QED
  BY <1>2, ReplyContents, EmptySeq, SeqEqual

(* shrink changes nothing that can be read.                                  *)
LEMMA ShrinkReplyKeeps ==
    ASSUME NEW r, Sound(r), NEW tight \in BOOLEAN
    PROVE  /\ Sound(Reply!shrink(r, tight))
           /\ Reply!Contents(Reply!shrink(r, tight)) = Reply!Contents(r)
<1> DEFINE c == Reply!Contents(r)
           k == Reply!readableSize(r)
           g == [m_vecBuffer |-> c, capacity |-> k, m_nReadPos |-> 0, m_nWritePos |-> k]
<1>1. c \in Seq(Bytes) /\ Len(c) = k /\ k \in Nat
  BY ReplyContents
<1>2. Reply!shrink(r, tight) = r \/ Reply!shrink(r, tight) = g
  BY DEF Reply!shrink
<1> HIDE DEF c, k
<1>3. Sound(g) /\ Reply!readableSize(g) = k /\ g.m_vecBuffer = c /\ g.m_nReadPos = 0
  BY <1>1 DEF Sound, ReplyBuffers, Reply!readableSize
<1> HIDE DEF g
<1>4. Reply!Contents(g) = c
  BY <1>1, <1>3, ReplyContents, SeqEqual
<1> QED
  BY <1>2, <1>3, <1>4 DEF c

(* The inductive invariant: the buffer is sound, holds no more than a call   *)
(* can have left in it, and the last call moved bytes.                      *)
ReplyInv ==
    /\ Sound(reply)
    /\ Reply!readableSize(reply) <= MaxReadable + MaxLen
    /\ replyCall \in [op : Reply!Queue!CallOps, bytes : Seq(Bytes)]

(* A new buffer satisfies the invariant and holds an empty queue.           *)
LEMMA ReplyInitInv == Reply!Init => ReplyInv /\ Reply!Queue!Init
<1> SUFFICES ASSUME Reply!Init PROVE ReplyInv /\ Reply!Queue!Init
  OBVIOUS
<1>1. /\ reply = [m_vecBuffer |-> <<>>, capacity |-> 0, m_nReadPos |-> 0, m_nWritePos |-> 0]
      /\ replyCall = [op |-> "put", bytes |-> <<>>]
  BY DEF Reply!Init, Reply!Queue!Call
<1>2. <<>> \in Seq(Bytes) /\ Len(<<>>) = 0
  OBVIOUS
<1>3. Sound(reply) /\ Reply!readableSize(reply) = 0
  BY <1>1, <1>2 DEF Sound, ReplyBuffers, Reply!readableSize
<1>4. Reply!Contents(reply) = <<>>
  BY <1>3, ReplyContents, EmptySeq, SeqEqual
<1> QED
  BY <1>1, <1>2, <1>3, <1>4, BufferAssumption
     DEF ReplyInv, Reply!Queue!Init, Reply!Queue!Call, Reply!Queue!CallOps

LEMMA ReplyStrings ==
    ASSUME NEW s \in Reply!Strings
    PROVE  s \in Seq(Bytes) /\ Len(s) \in 0 .. MaxLen
<1>1. PICK k \in 0 .. MaxLen : s \in [1 .. k -> Bytes]
  BY DEF Reply!Strings
<1> QED
  BY <1>1, SequenceOfFunction, BufferAssumption

(* Every call keeps the invariant, and moves bytes as ByteQueue does.        *)
LEMMA ReplyStepRefines ==
    ASSUME ReplyInv, [Reply!Next]_(Reply!vars)
    PROVE  ReplyInv' /\ [Reply!Queue!Next]_(<<Reply!Contents(reply), replyCall>>)
<1> USE DEF ReplyInv, Reply!Queue!Call
<1>1. Reply!Contents(reply) \in Seq(Bytes) /\ Reply!readableSize(reply) \in Nat
  BY ReplyContents
<1>2. Sound(reply') => Reply!Contents(reply)' \in Seq(Bytes)
  BY ReplyContents
<1>3. MaxReadable \in Nat /\ MaxLen \in Nat /\ MAX_BUFFER_SIZE \in Nat
      /\ MaxReadable + 3 * MaxLen < MAX_BUFFER_SIZE
  BY BufferAssumption, ReplyBufferAssumption
<1>4. ASSUME NEW s \in Reply!Strings, Reply!PushData(s)
      PROVE  ReplyInv' /\ Reply!Queue!Next
  <2>1. s \in Seq(Bytes) /\ Len(s) \in 0 .. MaxLen
    BY ReplyStrings
  <2>2. Reply!readableSize(reply) <= MaxReadable /\ reply' = Reply!pushData(reply, s)
        /\ replyCall' = [op |-> "put", bytes |-> s]
    BY <1>4 DEF Reply!PushData
  <2>3. Reply!readableSize(reply) + Len(s) < MAX_BUFFER_SIZE
    BY <1>1, <1>3, <2>1, <2>2
  <2>4. /\ Sound(reply') /\ Reply!Contents(reply)' = Reply!Contents(reply) \o s
        /\ Reply!readableSize(reply)' = Reply!readableSize(reply) + Len(s)
    BY <2>1, <2>2, <2>3, PushPuts
  <2>5. Reply!readableSize(reply)' <= MaxReadable + MaxLen
    BY <1>1, <1>3, <2>1, <2>2, <2>4
  <2> QED
    BY <1>2, <2>1, <2>2, <2>4, <2>5 DEF Reply!Queue!Next, Reply!Queue!Put, Reply!Queue!CallOps
<1>5. ASSUME NEW n \in 0 .. MaxLen, Reply!PeekData(n)
      PROVE  ReplyInv' /\ Reply!Queue!Next
  <2> DEFINE s == Reply!peekDataAt(reply, n, 0)
  <2>1. replyCall' = [op |-> "take", bytes |-> s]
    BY <1>5 DEF Reply!PeekData
  <2>2. reply' = [reply EXCEPT !.m_nReadPos = @ + Len(s)]
    BY <1>5, <2>1 DEF Reply!PeekData
  <2>3. /\ Sound(reply') /\ s \in Seq(Bytes)
        /\ Reply!Contents(reply) = s \o Reply!Contents(reply)'
        /\ Reply!readableSize(reply)' <= Reply!readableSize(reply)
    <3>1. n \in Nat
      BY <1>3
    <3> QED
      BY <2>2, <3>1, PeekTakes
  <2> HIDE DEF s
  <2>4. Reply!readableSize(reply)' \in Nat
    BY <2>3, ReplyContents
  <2>5. Reply!readableSize(reply)' <= MaxReadable + MaxLen
    BY <1>1, <1>3, <2>3, <2>4
  <2> QED
    BY <1>2, <2>1, <2>3, <2>5 DEF Reply!Queue!Next, Reply!Queue!Take, Reply!Queue!CallOps
<1>6. ASSUME Reply!Clear
      PROVE  ReplyInv' /\ Reply!Queue!Next
  <2>1. reply' = Reply!clear(reply) /\ replyCall' = [op |-> "take", bytes |-> Reply!Contents(reply)]
    BY <1>6 DEF Reply!Clear
  <2>2. Sound(reply') /\ Reply!Contents(reply)' = <<>> /\ Reply!readableSize(reply)' = 0
    BY <2>1, ClearTakes
  <2>3. Reply!Contents(reply) = Reply!Contents(reply) \o Reply!Contents(reply)'
    BY <1>1, <2>2, ConcatEmptySeq
  <2> QED
    BY <1>1, <1>2, <1>3, <2>1, <2>2, <2>3
       DEF Reply!Queue!Next, Reply!Queue!Take, Reply!Queue!CallOps
<1>7. ASSUME NEW tight \in BOOLEAN, Reply!Shrink(tight)
      PROVE  ReplyInv' /\ UNCHANGED <<Reply!Contents(reply), replyCall>>
  <2>1. reply' = Reply!shrink(reply, tight) /\ replyCall' = replyCall
    BY <1>7 DEF Reply!Shrink
  <2>2. Sound(reply') /\ Reply!Contents(reply)' = Reply!Contents(reply)
    BY <2>1, ShrinkReplyKeeps
  <2>3. Reply!readableSize(reply)' = Reply!readableSize(reply)
    BY <2>2, ReplyContents
  <2> QED
    BY <2>1, <2>2, <2>3
<1>8. CASE UNCHANGED Reply!vars
  <2>1. reply' = reply /\ replyCall' = replyCall
    BY <1>8 DEF Reply!vars
  <2> QED
    BY <2>1
<1> QED
  BY <1>4, <1>5, <1>6, <1>7, <1>8 DEF Reply!Next

(* The invariant holds in every state.                                      *)
LEMMA ReplyInvariance == Reply!Spec => []ReplyInv
<1>1. Reply!Init => ReplyInv
  BY ReplyInitInv
<1>2. ReplyInv /\ [Reply!Next]_(Reply!vars) => ReplyInv'
  BY ReplyStepRefines
<1> QED
  BY <1>1, <1>2, PTL DEF Reply!Spec

(* ReplyBuffer's positions stay in order, inside its vector.                 *)
THEOREM ReplyTypeCorrect == Reply!Spec => []ReplyTypeOK
<1>1. ReplyInv => ReplyTypeOK
  <2> SUFFICES ASSUME ReplyInv PROVE ReplyTypeOK
    OBVIOUS
  <2> QED
    BY SoundParts DEF ReplyInv, ReplyTypeOK, Reply!TypeOK
<1> QED
  BY <1>1, ReplyInvariance, PTL

(* The assert of pushDataAt cannot fail, whatever is pushed next at whatever *)
(* offset: assureSpace has made the room.                                   *)
THEOREM ReplyAssertsNeverFail == Reply!Spec => []ReplyAssertsHold
<1>1. ReplyInv => ReplyAssertsHold
  <2> SUFFICES ASSUME ReplyInv, NEW n \in 1 .. MaxLen, NEW offset \in 0 .. MaxLen
               PROVE  n + offset <= Reply!writableSize(Reply!assureSpace(reply, n + offset))
    BY DEF ReplyAssertsHold, Reply!AssertsHold
  <2> DEFINE m == n + offset
  <2>1. Sound(reply) /\ Reply!readableSize(reply) \in Nat
        /\ Reply!readableSize(reply) <= MaxReadable + MaxLen
    BY ReplyContents DEF ReplyInv
  <2>2. m \in Nat /\ Reply!readableSize(reply) + m <= MAX_BUFFER_SIZE
    BY <2>1, BufferAssumption, ReplyBufferAssumption
  <2> HIDE DEF m
  <2>3. m <= Reply!writableSize(Reply!assureSpace(reply, m))
    BY <2>1, <2>2, AssuredRoom
  <2> QED
    BY <2>3 DEF m
<1> QED
  BY <1>1, ReplyInvariance, PTL

(* A reply is read as it was written: ReplyBuffer implements ByteQueue.      *)
THEOREM ReplyBufferIsAByteQueue == Reply!Spec => ReplyBytesKept
<1>1. Reply!Init => Reply!Queue!Init
  BY ReplyInitInv
<1>2. ReplyInv /\ [Reply!Next]_(Reply!vars) => [Reply!Queue!Next]_(<<Reply!Contents(reply), replyCall>>)
  BY ReplyStepRefines
<1> QED
  BY <1>1, <1>2, ReplyInvariance, PTL
     DEF Reply!Spec, ReplyBytesKept, Reply!BytesKept, Reply!Queue!Spec

(* A behaviour of both buffers is one of each: the theorems above hold of    *)
(* the specification the runs check.                                        *)
THEOREM BothBuffers == MCSpec => Spec /\ Reply!Spec
<1>1. MCInit => Init /\ Reply!Init
  BY DEF MCInit
<1>2. [MCNext]_<<vars, reply, replyCall>> => [Next]_vars /\ [Reply!Next]_(Reply!vars)
  BY DEF MCNext, vars, Reply!vars
<1> QED
  BY <1>1, <1>2, PTL DEF MCSpec, Spec, Reply!Spec

-----------------------------------------------------------------------------
(* Integers                                                                 *)

LEMMA Division ==
    ASSUME NEW a \in Int, NEW p \in Nat \ {0}
    PROVE  /\ a \div p \in Int /\ a % p \in 0 .. p - 1
           /\ a = p * (a \div p) + (a % p)
OBVIOUS

(* Quotient and remainder are determined by what they add up to.            *)
LEMMA DivisionUnique ==
    ASSUME NEW p \in Nat \ {0}, NEW q \in Int, NEW r \in 0 .. p - 1, NEW a \in Int, a = p * q + r
    PROVE  a \div p = q /\ a % p = r
<1>1. /\ a \div p \in Int /\ a % p \in 0 .. p - 1
      /\ a = p * (a \div p) + (a % p)
  BY Division
<1> DEFINE d == a \div p
           m == a % p
<1> HIDE DEF d, m
<1>2. d \in Int /\ m \in 0 .. p - 1 /\ p * d + m = p * q + r
  BY <1>1 DEF d, m
<1>3. p * (d - q) = r - m
  BY <1>2
<1>4. ~ (d - q >= 1)
  <2>1. \A k \in Int : k >= 1 => p * k >= p
    OBVIOUS
  <2> QED
    BY <1>2, <1>3, <2>1
<1>5. ~ (d - q <= -1)
  <2>1. \A k \in Int : k <= -1 => p * k <= -p
    OBVIOUS
  <2> QED
    BY <1>2, <1>3, <2>1
<1>6. d = q
  BY <1>2, <1>4, <1>5
<1>7. m = r
  BY <1>2, <1>6
<1> QED
  BY <1>6, <1>7 DEF d, m

(* Dividing twice is dividing by the product.                               *)
LEMMA DividedTwice ==
    ASSUME NEW a \in Nat, NEW c \in Nat \ {0}, NEW p \in Nat \ {0}
    PROVE  a \div (c * p) = (a \div p) \div c
<1> DEFINE q == a \div p
           r == a % p
           d == q \div c
           m == q % c
           w == p * m + r
<1>1. q \in Nat /\ r \in 0 .. p - 1 /\ a = p * q + r
  OBVIOUS
<1>2. d \in Nat /\ m \in 0 .. c - 1 /\ q = c * d + m
  <2> HIDE DEF q
  <2> QED
    BY <1>1
<1> HIDE DEF q, r, d, m
<1>3. c * p \in Nat \ {0}
  OBVIOUS
<1>4. w \in 0 .. c * p - 1
  <2>1. p * m <= p * (c - 1)
    BY <1>2
  <2>2. p * (c - 1) = c * p - p
    OBVIOUS
  <2>3. p * m \in Nat
    BY <1>2
  <2> QED
    BY <1>1, <1>3, <2>1, <2>2, <2>3
<1>5. a = (c * p) * d + w
  <2>1. p * (c * d + m) = (c * p) * d + p * m
    BY <1>2
  <2> QED
    BY <1>1, <1>2, <2>1
<1> HIDE DEF w
<1>6. a \div (c * p) = d
  BY <1>2, <1>3, <1>4, <1>5, DivisionUnique
<1> QED
  BY <1>6 DEF d, q

PowersTo(p, n) == p = [k \in 0 .. n |-> IF k = 0 THEN 1 ELSE ByteBase * p[k - 1]]

LEMMA PowersExist ==
    ASSUME NEW n \in Nat
    PROVE  \E p : PowersTo(p, n)
<1> DEFINE T == Nat
           F == [i \in 1 .. n |-> [x \in T |-> ByteBase * x]]
<1>1. F \in [1 .. n -> [T -> T]]
  BY BufferAssumption
<1>2. PICK p \in [0 .. n -> T] : Iterates(p, 1, n, F)
  <2> HIDE DEF F
  <2>1. 1 \in T
    OBVIOUS
  <2> HIDE DEF T
  <2> QED
    BY <1>1, <2>1, IterationExists
<1>3. \A k \in 0 .. n : p[k] = IF k = 0 THEN 1 ELSE ByteBase * p[k - 1]
  <2>1. \A k \in 0 .. n : p[k] = IF k = 0 THEN 1 ELSE F[k][p[k - 1]]
    <3> HIDE DEF F
    <3> QED
      BY <1>2 DEF Iterates
  <2>2. \A k \in 1 .. n, x \in T : F[k][x] = ByteBase * x
    OBVIOUS
  <2>3. \A k \in 1 .. n : p[k - 1] \in T
    BY <1>2
  <2> HIDE DEF F, T
  <2> QED
    BY <2>1, <2>2, <2>3
<1>4. p = [k \in 0 .. n |-> p[k]]
  BY <1>2
<1>5. p = [k \in 0 .. n |-> IF k = 0 THEN 1 ELSE ByteBase * p[k - 1]]
  BY <1>3, <1>4
<1> QED
  BY <1>5 DEF PowersTo

LEMMA PowersAgree ==
    ASSUME NEW n \in Nat, NEW m \in Nat, n <= m,
           NEW p, PowersTo(p, n), NEW q, PowersTo(q, m)
    PROVE  \A k \in 0 .. n : p[k] = q[k] /\ p[k] \in Nat \ {0}
<1> DEFINE S == {k \in 0 .. n : p[k] = q[k] /\ p[k] \in Nat \ {0}}
<1>1. /\ \A k \in 0 .. n : p[k] = IF k = 0 THEN 1 ELSE ByteBase * p[k - 1]
      /\ \A k \in 0 .. m : q[k] = IF k = 0 THEN 1 ELSE ByteBase * q[k - 1]
  BY DEF PowersTo
<1>2. 0 \in S
  BY <1>1
<1>3. ASSUME NEW k \in 1 .. n, k - 1 \in S
      PROVE  k \in S
  <2>1. p[k] = ByteBase * p[k - 1] /\ q[k] = ByteBase * q[k - 1]
    BY <1>1
  <2>2. p[k - 1] = q[k - 1] /\ p[k - 1] \in Nat \ {0}
    BY <1>3
  <2>3. \A x \in Nat \ {0} : ByteBase * x \in Nat \ {0}
    BY BufferAssumption
  <2> QED
    BY <2>1, <2>2, <2>3
<1> HIDE DEF S
<1>4. \A k \in 0 .. n : k \in S
  BY <1>2, <1>3, IndicesReached
<1> QED
  BY <1>4 DEF S

(* Power(n) is the n-th power of ByteBase.                                  *)
LEMMA Powers ==
    /\ Power(0) = 1
    /\ \A n \in Nat : Power(n) \in Nat \ {0} /\ Power(n + 1) = ByteBase * Power(n)
<1>1. ASSUME NEW n \in Nat
      PROVE  \E p : PowersTo(p, n) /\ Power(n) = p[n]
  <2> DEFINE p == CHOOSE p : PowersTo(p, n)
  <2>1. PowersTo(p, n)
    BY PowersExist
  <2>2. Power(n) = p[n]
    BY DEF Power, PowersTo
  <2> QED
    BY <2>1, <2>2
<1>2. Power(0) = 1
  BY <1>1 DEF PowersTo
<1>3. ASSUME NEW n \in Nat
      PROVE  Power(n) \in Nat \ {0} /\ Power(n + 1) = ByteBase * Power(n)
  <2>1. PICK p : PowersTo(p, n) /\ Power(n) = p[n]
    BY <1>1
  <2>2. PICK q : PowersTo(q, n + 1) /\ Power(n + 1) = q[n + 1]
    BY <1>1
  <2>3. p[n] = q[n] /\ p[n] \in Nat \ {0}
    <3>1. n + 1 \in Nat /\ n <= n + 1 /\ n \in 0 .. n
      OBVIOUS
    <3> QED
      BY <2>1, <2>2, <3>1, PowersAgree
  <2>4. q[n + 1] = ByteBase * q[n]
    <3>1. \A k \in 0 .. n + 1 : q[k] = IF k = 0 THEN 1 ELSE ByteBase * q[k - 1]
      BY <2>2 DEF PowersTo
    <3> QED
      BY <3>1
  <2> QED
    BY <2>1, <2>2, <2>3, <2>4
<1> QED
  BY <1>2, <1>3

SumsOf(sum, s) == sum = [n \in 0 .. Len(s) |-> IF n = 0 THEN 0 ELSE ByteBase * sum[n - 1] + s[n]]

(* The loop of Unsigned computes its partial sums.                           *)
LEMMA UnsignedSums ==
    ASSUME NEW s \in Seq(Bytes)
    PROVE  \E sum : SumsOf(sum, s) /\ Unsigned(s) = sum[Len(s)]
<1> DEFINE T == Nat
           n == Len(s)
           F == [i \in 1 .. n |-> [x \in T |-> ByteBase * x + s[i]]]
           sums == CHOOSE sum : SumsOf(sum, s)
<1>1. n \in Nat /\ \A i \in 1 .. n : s[i] \in Nat
  BY BufferAssumption DEF Bytes
<1>2. F \in [1 .. n -> [T -> T]]
  <2> HIDE DEF n
  <2> QED
    BY <1>1, BufferAssumption
<1>3. PICK p \in [0 .. n -> T] : Iterates(p, 0, n, F)
  <2>1. 0 \in T
    OBVIOUS
  <2> HIDE DEF F, n, T
  <2> QED
    BY <1>1, <1>2, <2>1, IterationExists
<1> HIDE DEF n
<1>4. \A k \in 0 .. n : p[k] = IF k = 0 THEN 0 ELSE ByteBase * p[k - 1] + s[k]
  <2>1. \A k \in 0 .. n : p[k] = IF k = 0 THEN 0 ELSE F[k][p[k - 1]]
    <3> HIDE DEF F
    <3> QED
      BY <1>3 DEF Iterates
  <2>2. \A k \in 1 .. n, x \in T : F[k][x] = ByteBase * x + s[k]
    OBVIOUS
  <2>3. \A k \in 1 .. n : p[k - 1] \in T
    BY <1>1, <1>3
  <2> HIDE DEF F, T
  <2> QED
    BY <1>1, <2>1, <2>2, <2>3
<1>5. p = [k \in 0 .. n |-> p[k]]
  BY <1>3
<1>6. p = [k \in 0 .. n |-> IF k = 0 THEN 0 ELSE ByteBase * p[k - 1] + s[k]]
  BY <1>4, <1>5
<1>7. SumsOf(p, s)
  BY <1>6 DEF SumsOf, n
<1>8. SumsOf(sums, s)
  BY <1>7
<1>9. Unsigned(s) = sums[Len(s)]
  BY DEF Unsigned, SumsOf
<1> QED
  BY <1>8, <1>9

(* The bytes of a number, most significant first, spell it.                  *)
LEMMA SpelledNumber ==
    ASSUME NEW width \in Nat, NEW u \in 0 .. Power(width) - 1,
           NEW s, s = [i \in 1 .. width |-> (u \div Power(width - i)) % ByteBase]
    PROVE  s \in Seq(Bytes) /\ Len(s) = width /\ Unsigned(s) = u
<1>1. \A n \in Nat : Power(n) \in Nat \ {0}
  BY Powers
<1>2. u \in Nat /\ ByteBase \in Nat \ {0}
  BY <1>1, BufferAssumption
<1>3. ASSUME NEW i \in 1 .. width
      PROVE  /\ u \div Power(width - i) \in Nat
             /\ s[i] = (u \div Power(width - i)) % ByteBase
             /\ s[i] \in Bytes
  <2>1. width - i \in Nat
    OBVIOUS
  <2>2. Power(width - i) \in Nat \ {0}
    BY <1>1, <2>1
  <2> DEFINE q == u \div Power(width - i)
  <2>3. q \in Nat
    BY <1>2, <2>2
  <2>4. s[i] = q % ByteBase
    OBVIOUS
  <2> HIDE DEF q
  <2>5. q % ByteBase \in Bytes
    BY <1>2, <2>3 DEF Bytes
  <2> QED
    BY <2>3, <2>4, <2>5 DEF q
<1>4. s \in Seq(Bytes) /\ Len(s) = width
  <2>1. s \in [1 .. width -> Bytes]
    BY <1>3
  <2> QED
    BY <2>1, SequenceOfFunction
<1>5. PICK sum : SumsOf(sum, s) /\ Unsigned(s) = sum[Len(s)]
  BY <1>4, UnsignedSums
<1>6. \A k \in 0 .. width : sum[k] = IF k = 0 THEN 0 ELSE ByteBase * sum[k - 1] + s[k]
  BY <1>4, <1>5 DEF SumsOf
<1> DEFINE S == {k \in 0 .. width : sum[k] = u \div Power(width - k)}
<1>7. 0 \in S
  <2>1. Power(width) \in Nat \ {0} /\ width - 0 = width
    BY <1>1
  <2>2. u \div Power(width) = 0
    <3>1. \A p \in Nat \ {0} : \A a \in 0 .. p - 1 : a \div p = 0
      OBVIOUS
    <3> QED
      BY <2>1, <3>1
  <2>3. sum[0] = 0 /\ 0 \in 0 .. width
    BY <1>6
  <2>4. sum[0] = u \div Power(width - 0)
    BY <2>1, <2>2, <2>3, Zenon
  <2> QED
    BY <2>3, <2>4
<1>8. ASSUME NEW k \in 1 .. width, k - 1 \in S
      PROVE  k \in S
  <2> DEFINE p == Power(width - k)
             q == u \div p
  <2>1. /\ width - k \in Nat /\ width - (k - 1) = (width - k) + 1
        /\ k - 1 \in 0 .. width /\ k \in 0 .. width /\ k # 0
    OBVIOUS
  <2>2. p \in Nat \ {0} /\ Power(width - (k - 1)) = ByteBase * p
    BY <2>1, Powers
  <2>3. sum[k - 1] = u \div (ByteBase * p)
    BY <1>8, <2>2
  <2>4. s[k] = q % ByteBase /\ q \in Nat
    BY <1>3
  <2>5. sum[k] = ByteBase * sum[k - 1] + s[k]
    BY <1>6, <2>1
  <2> HIDE DEF p
  <2>6. u \div (ByteBase * p) = q \div ByteBase
    BY <1>2, <2>2, DividedTwice
  <2> HIDE DEF q
  <2>7. q = ByteBase * (q \div ByteBase) + (q % ByteBase)
    <3>1. \A a \in Nat, b \in Nat \ {0} : a = b * (a \div b) + (a % b)
      OBVIOUS
    <3> QED
      BY <1>2, <2>4, <3>1
  <2>8. sum[k] = q
    BY <2>3, <2>4, <2>5, <2>6, <2>7
  <2> QED
    BY <2>1, <2>8 DEF q, p
<1> HIDE DEF S
<1>9. width \in S
  <2>1. \A k \in 0 .. width : k \in S
    BY <1>7, <1>8, IndicesReached
  <2> QED
    BY <2>1
<1>10. Unsigned(s) = u \div Power(0)
  <2>1. width - width = 0
    OBVIOUS
  <2> QED
    BY <1>4, <1>5, <1>9, <2>1 DEF S
<1>11. u \div 1 = u
  BY <1>2
<1> QED
  BY <1>4, <1>10, <1>11, Powers

(* A signed number survives the conversion to bytes and back.                *)
LEMMA NumberRoundTrip ==
    ASSUME NEW width \in Nat, NEW x \in Ints(width)
    PROVE  /\ hostToNetwork(x, width) \in Seq(Bytes)
           /\ Len(hostToNetwork(x, width)) = width
           /\ networkToHost(hostToNetwork(x, width)) = x
<1> DEFINE p == Power(width)
           h == p \div 2
           u == x % p
           s == hostToNetwork(x, width)
<1>1. p \in Nat \ {0}
  BY Powers
<1>2. h \in Nat /\ h <= p /\ x \in Int /\ -h <= x /\ x <= p - 1 - h
  <2>1. x \in - h .. p - 1 - h
    BY DEF Ints
  <2> HIDE DEF p
  <2> QED
    BY <1>1, <2>1
<1> HIDE DEF p, h
<1>3. u = IF x >= 0 THEN x ELSE x + p
  <2>1. CASE x >= 0
    <3>1. x = p * 0 + x /\ x \in 0 .. p - 1
      BY <1>1, <1>2, <2>1
    <3>2. x % p = x
      BY <1>1, <1>2, <3>1, DivisionUnique
    <3> QED
      BY <2>1, <3>2
  <2>2. CASE x < 0
    <3>1. x = p * (-1) + (x + p) /\ x + p \in 0 .. p - 1
      BY <1>1, <1>2, <2>2
    <3>2. \A q \in Int : \A r \in 0 .. p - 1 : x = p * q + r => x % p = r
      BY <1>1, <1>2, DivisionUnique
    <3>3. x % p = x + p
      BY <3>1, <3>2
    <3> QED
      BY <1>2, <2>2, <3>3
  <2> QED
    BY <1>2, <2>1, <2>2
<1>4. u \in 0 .. p - 1
  BY <1>1, <1>2
<1>5. s = [i \in 1 .. width |-> (u \div Power(width - i)) % ByteBase]
  BY DEF hostToNetwork, p
<1> HIDE DEF u, s
<1>6. s \in Seq(Bytes) /\ Len(s) = width /\ Unsigned(s) = u
  BY <1>4, <1>5, SpelledNumber DEF p
<1>7. networkToHost(s) = IF u < p - h THEN u ELSE u - p
  BY <1>6 DEF networkToHost, p, h
<1>8. networkToHost(s) = x
  BY <1>1, <1>2, <1>3, <1>7
<1> QED
  BY <1>6, <1>8 DEF s

(* What stands behind c, and before it, when the other is taken away.        *)
LEMMA FirstOfTwo ==
    ASSUME NEW S, NEW c \in Seq(S), NEW h \in Seq(S)
    PROVE  SubSeq(c \o h, 1, Len(c)) = c
<1>1. /\ c \o h \in Seq(S) /\ Len(c \o h) = Len(c) + Len(h)
      /\ \A i \in 1 .. Len(c) : (c \o h)[i] = c[i]
  BY ConcatProperties
<1> DEFINE d == c \o h
<1> HIDE DEF d
<1>2. d \in Seq(S) /\ Len(c) \in Nat /\ Len(c) <= Len(d) /\ \A i \in 1 .. Len(c) : d[i] = c[i]
  BY <1>1 DEF d
<1>3. /\ SubSeq(d, 1, Len(c)) \in Seq(S) /\ Len(SubSeq(d, 1, Len(c))) = Len(c)
      /\ \A i \in 1 .. Len(c) : SubSeq(d, 1, Len(c))[i] = d[i]
  BY <1>2
<1>4. SubSeq(d, 1, Len(c)) = c
  BY <1>2, <1>3, SeqEqual
<1> QED
  BY <1>4 DEF d

LEMMA SameFirst ==
    ASSUME NEW S, NEW c \in Seq(S), NEW h \in Seq(S), NEW t \in Seq(S), c \o h = c \o t
    PROVE  h = t
<1> DEFINE n == Len(c)
<1>1. /\ Len(c \o h) = n + Len(h) /\ Len(c \o t) = n + Len(t)
      /\ \A i \in 1 .. n + Len(h) : (c \o h)[i] = IF i <= n THEN c[i] ELSE h[i - n]
      /\ \A i \in 1 .. n + Len(t) : (c \o t)[i] = IF i <= n THEN c[i] ELSE t[i - n]
  BY ConcatProperties
<1>2. n \in Nat /\ Len(h) \in Nat /\ Len(t) \in Nat
  OBVIOUS
<1> HIDE DEF n
<1>3. Len(h) = Len(t)
  BY <1>1, <1>2
<1>4. ASSUME NEW i \in 1 .. Len(h)
      PROVE  h[i] = t[i]
  <2>1. n + i \in 1 .. n + Len(h) /\ ~ (n + i <= n) /\ (n + i) - n = i
    BY <1>2
  <2>2. (c \o h)[n + i] = h[i] /\ (c \o t)[n + i] = t[i]
    BY <1>1, <1>3, <2>1
  <2> QED
    BY <2>2
<1> QED
  BY <1>3, <1>4, SeqEqual

(* An integer appended is read back once what stood before it is taken; one  *)
(* prepended is read back at once: for every width and value, wherever the  *)
(* bytes have to be moved, and whenever the vector has to grow.             *)
THEOREM IntegersRoundTrip == Spec => []IntsRoundTrip
<1>1. Inv => IntsRoundTrip
  <2> SUFFICES ASSUME Inv, NEW width \in IntWidths, NEW x \in Ints(width)
               PROVE  /\ peekInt(retrieve(appendInt(buffer, x, width), readableBytes(buffer)), width) = x
                      /\ width <= prependableBytes(buffer) => peekInt(prependInt(buffer, x, width), width) = x
    BY DEF IntsRoundTrip
  <2> DEFINE s == hostToNetwork(x, width)
             c == toStringPiece(buffer)
             k == readableBytes(buffer)
             a == append(buffer, s)
  <2>1. width \in Nat
    BY BufferAssumption
  <2>2. s \in Seq(Bytes) /\ Len(s) = width /\ networkToHost(s) = x
    BY <2>1, NumberRoundTrip
  <2>3. WellFormed(buffer) /\ c \in Seq(Bytes) /\ Len(c) = k /\ k \in Nat
    BY Contents DEF Inv
  <2> HIDE DEF s, c, k
  <2>4. SubSeq(s, 1, width) = s
    BY <2>2, SubSeqFull
  <2>5. peekInt(retrieve(appendInt(buffer, x, width), k), width) = x
    <3>1. WellFormed(a) /\ toStringPiece(a) = c \o s
      BY <2>2, <2>3, AppendPuts DEF c
    <3> HIDE DEF a
    <3>2. k <= readableBytes(a)
      <4>1. Len(toStringPiece(a)) = readableBytes(a) /\ Len(c \o s) = Len(c) + Len(s)
        BY <2>2, <2>3, <3>1, Contents, ConcatProperties
      <4> QED
        BY <2>1, <2>2, <2>3, <3>1, <4>1
    <3> DEFINE r == retrieve(a, k)
    <3>3. /\ WellFormed(r)
          /\ toStringPiece(a) = SubSeq(toStringPiece(a), 1, k) \o toStringPiece(r)
      BY <2>3, <3>1, <3>2, RetrieveTakes
    <3> HIDE DEF r
    <3>4. SubSeq(c \o s, 1, Len(c)) = c
      BY <2>2, <2>3, FirstOfTwo
    <3>5. c \o s = c \o toStringPiece(r)
      BY <2>3, <3>1, <3>3, <3>4
    <3>6. toStringPiece(r) \in Seq(Bytes)
      BY <3>3, Contents
    <3>7. toStringPiece(r) = s
      BY <2>2, <2>3, <3>5, <3>6, SameFirst
    <3>8. appendInt(buffer, x, width) = a
      BY DEF appendInt, a, s
    <3>9. peekInt(r, width) = networkToHost(SubSeq(toStringPiece(r), 1, width))
      BY DEF peekInt
    <3> QED
      BY <2>2, <2>4, <3>7, <3>8, <3>9 DEF r
  <2>6. ASSUME width <= prependableBytes(buffer)
        PROVE  peekInt(prependInt(buffer, x, width), width) = x
    <3>1. toStringPiece(prepend(buffer, s)) = s \o c
      BY <2>2, <2>3, <2>6, PrependPuts DEF c
    <3>2. SubSeq(s \o c, 1, width) = s
      BY <2>2, <2>3, FirstOfTwo
    <3> QED
      BY <2>2, <3>1, <3>2 DEF prependInt, peekInt, s
  <2> QED
    BY <2>5, <2>6 DEF k
<1> QED
  BY <1>1, Invariance, PTL
=============================================================================
