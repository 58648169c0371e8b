-------------------------------- MODULE Buffer --------------------------------
(***************************************************************************)
(* src/base/Buffer.h and Buffer.cpp: the growing byte buffer every         *)
(* connection reads into.  A vector of bytes, of which readerIndex_ ..     *)
(* writerIndex_ hold what can be read; before them is room to prepend,     *)
(* behind them room to write.                                              *)
(*                                                                         *)
(* A buffer is a value, and a method a function of it, so that shrink can  *)
(* work on a second buffer as the code does.  Vector positions count from  *)
(* 1 here: index i of the code is buffer_[i + 1].                          *)
(***************************************************************************)
EXTENDS Integers, Sequences

CONSTANTS kCheapPrepend,
          kInitialSize,
          ExtraSize,     (* sizeof extrabuf in readFd                        *)
          ByteBase,      (* the values of a byte are 0 .. ByteBase - 1       *)
          IntWidths,     (* the sizes of the integers read and written       *)
          MaxLen,        (* bound: the bytes of one call                     *)
          MaxReadable    (* bound: the bytes held when a call adds to them   *)

ASSUME BufferAssumption ==
    /\ kCheapPrepend \in Nat
    /\ kInitialSize \in Nat
    /\ ExtraSize \in Nat
    /\ ByteBase \in Nat \ {0}
    /\ IntWidths \subseteq Nat \ {0}
    /\ MaxLen \in Nat
    /\ MaxReadable \in Nat

Bytes   == 0 .. ByteBase - 1
Buffers == [buffer_ : Seq(Bytes), readerIndex_ : Nat, writerIndex_ : Nat]

-----------------------------------------------------------------------------
(* std::vector and std::copy                                                *)

Resized(v, n)   == [i \in 1 .. n |-> IF i <= Len(v) THEN v[i] ELSE 0]
Copied(v, at, s) ==
    [i \in 1 .. Len(v) |-> IF at < i /\ i <= at + Len(s) THEN s[i - at] ELSE v[i]]

-----------------------------------------------------------------------------
(* The methods                                                              *)

NewBuffer(initialSize) ==
    [buffer_      |-> [i \in 1 .. kCheapPrepend + initialSize |-> 0],
     readerIndex_ |-> kCheapPrepend,
     writerIndex_ |-> kCheapPrepend]

readableBytes(b)    == b.writerIndex_ - b.readerIndex_
writableBytes(b)    == Len(b.buffer_) - b.writerIndex_
prependableBytes(b) == b.readerIndex_
toStringPiece(b)    == SubSeq(b.buffer_, b.readerIndex_ + 1, b.writerIndex_)

(* Mutant of retrieveAll: the reader stays where it was.                     *)
retrieveAllWriterOnly(b) == [b EXCEPT !.writerIndex_ = kCheapPrepend]

retrieveAll(b) ==
    [b EXCEPT !.readerIndex_ = kCheapPrepend, !.writerIndex_ = kCheapPrepend]

retrieve(b, len) ==
    IF len < readableBytes(b) THEN [b EXCEPT !.readerIndex_ = @ + len] ELSE retrieveAll(b)

MovedToFront(b) ==
    [buffer_      |-> Copied(b.buffer_, kCheapPrepend, toStringPiece(b)),
     readerIndex_ |-> kCheapPrepend,
     writerIndex_ |-> kCheapPrepend + readableBytes(b)]

MustGrow(b, len) == writableBytes(b) + prependableBytes(b) < len + kCheapPrepend

(* Mutant of makeSpace: the room kept for prepending is not counted.         *)
makeSpaceWithoutPrepend(b, len) ==
    IF writableBytes(b) + prependableBytes(b) < len
    THEN [b EXCEPT !.buffer_ = Resized(@, b.writerIndex_ + len)]
    ELSE MovedToFront(b)

makeSpace(b, len) ==
    IF MustGrow(b, len)
    THEN [b EXCEPT !.buffer_ = Resized(@, b.writerIndex_ + len)]
    ELSE MovedToFront(b)

ensureWritableBytes(b, len) == IF writableBytes(b) < len THEN makeSpace(b, len) ELSE b

hasWritten(b, len) == [b EXCEPT !.writerIndex_ = @ + len]
unwrite(b, len)    == [b EXCEPT !.writerIndex_ = @ - len]

(* Bytes copied behind the contents, where there is room for them.           *)
Stored(b, s) == hasWritten([b EXCEPT !.buffer_ = Copied(@, b.writerIndex_, s)], Len(s))

append(b, s) == Stored(ensureWritableBytes(b, Len(s)), s)

prepend(b, s) ==
    [b EXCEPT !.readerIndex_ = @ - Len(s),
              !.buffer_ = Copied(@, b.readerIndex_ - Len(s), s)]

shrink(b, reserve) ==
    append(ensureWritableBytes(NewBuffer(kInitialSize), readableBytes(b) + reserve),
           toStringPiece(b))

(* What one readv can take: two areas when the first is the smaller one.     *)
Readable(b) == IF writableBytes(b) < ExtraSize THEN writableBytes(b) + ExtraSize
                                               ELSE writableBytes(b)

(* Mutant of readFd: writerIndex_ is not put at the end before the rest.     *)
readFdOverwriting(b, s) ==
    LET w == writableBytes(b)
    IN  IF Len(s) <= w THEN Stored(b, s)
        ELSE append([b EXCEPT !.buffer_ = Copied(@, b.writerIndex_, SubSeq(s, 1, w))],
                    SubSeq(s, w + 1, Len(s)))

(* readv fills the vector, then extrabuf, whose bytes are appended.          *)
readFd(b, s) ==
    LET w == writableBytes(b)
    IN  IF Len(s) <= w THEN Stored(b, s)
        ELSE append(Stored(b, SubSeq(s, 1, w)), SubSeq(s, w + 1, Len(s)))

-----------------------------------------------------------------------------
(* Integers, two's complement, most significant byte first                  *)

Power(n) ==
    LET power[k \in 0 .. n] == IF k = 0 THEN 1 ELSE ByteBase * power[k - 1]
    IN  power[n]

Ints(width) == - (Power(width) \div 2) .. Power(width) - 1 - Power(width) \div 2

(* Mutant of hostToNetwork: the bytes in the order of the host.              *)
hostOrder(x, width) == [i \in 1 .. width |-> ((x % Power(width)) \div Power(i - 1)) % ByteBase]

hostToNetwork(x, width) ==
    [i \in 1 .. width |-> ((x % Power(width)) \div Power(width - i)) % ByteBase]

Unsigned(s) ==
    LET sum[n \in 0 .. Len(s)] == IF n = 0 THEN 0 ELSE ByteBase * sum[n - 1] + s[n]
    IN  sum[Len(s)]

networkToHost(s) ==
    IF Unsigned(s) < Power(Len(s)) - Power(Len(s)) \div 2
    THEN Unsigned(s) ELSE Unsigned(s) - Power(Len(s))

appendInt(b, x, width)  == append(b, hostToNetwork(x, width))
prependInt(b, x, width) == prepend(b, hostToNetwork(x, width))
peekInt(b, width)       == networkToHost(SubSeq(toStringPiece(b), 1, width))

-----------------------------------------------------------------------------
VARIABLES buffer,   (* the Buffer                                            *)
          call      (* what the last call put in or took out                 *)

vars == <<buffer, call>>

Queue == INSTANCE ByteQueue WITH queue <- toStringPiece(buffer)
Call(op, s) == Queue!Call(op, s)

Strings(n) == UNION {[1 .. k -> Bytes] : k \in 0 .. n}

First(n) == SubSeq(toStringPiece(buffer), 1, n)
Last(n)  == SubSeq(toStringPiece(buffer), readableBytes(buffer) - n + 1, readableBytes(buffer))
Bounded  == readableBytes(buffer) <= MaxReadable

Init == buffer = NewBuffer(kInitialSize) /\ call = Call("put", <<>>)

Retrieve(len) ==
    /\ len <= readableBytes(buffer)
    /\ buffer' = retrieve(buffer, len)
    /\ call' = Call("take", First(len))

AppendBytes(s) ==
    /\ Bounded
    /\ buffer' = append(buffer, s)
    /\ call' = Call("put", s)

ReadFd(s) ==
    /\ Bounded
    /\ Len(s) <= Readable(buffer)
    /\ buffer' = readFd(buffer, s)
    /\ call' = Call("put", s)

Unwrite(len) ==
    /\ len <= readableBytes(buffer)
    /\ buffer' = unwrite(buffer, len)
    /\ call' = Call("takeBack", Last(len))

Prepend(s) ==
    /\ Bounded
    /\ Len(s) <= prependableBytes(buffer)
    /\ buffer' = prepend(buffer, s)
    /\ call' = Call("putFront", s)

EnsureWritableBytes(len) ==
    /\ buffer' = ensureWritableBytes(buffer, len)
    /\ UNCHANGED call

Shrink(reserve) ==
    /\ buffer' = shrink(buffer, reserve)
    /\ UNCHANGED call

Next ==
    \/ \E s \in Strings(MaxLen) : AppendBytes(s) \/ ReadFd(s) \/ Prepend(s)
    \/ \E len \in 0 .. MaxReadable + MaxLen : Retrieve(len) \/ Unwrite(len)
    \/ \E len \in 0 .. MaxLen : EnsureWritableBytes(len) \/ Shrink(len)

Spec == Init /\ [][Next]_vars

-----------------------------------------------------------------------------
(* The indices stay in order and inside the vector, in whatever way calls    *)
(* that move the reader back (prepend) or the writer back (unwrite) follow  *)
(* ones that move the contents, swap the vector or grow it.                 *)
TypeOK ==
    /\ buffer \in Buffers
    /\ buffer.readerIndex_ <= buffer.writerIndex_
    /\ buffer.writerIndex_ <= Len(buffer.buffer_)
    /\ call \in [op : Queue!CallOps, bytes : Seq(Bytes)]

(* The asserts inside append and makeSpace, for a call of any length that    *)
(* could come next: contents are moved only towards the front, and there is *)
(* then room for the bytes.                                                 *)
AssertsHold ==
    \A len \in 0 .. MaxLen :
        /\ writableBytes(buffer) < len =>
              MustGrow(buffer, len) \/ kCheapPrepend < buffer.readerIndex_
        /\ writableBytes(ensureWritableBytes(buffer, len)) >= len

(* An integer appended in any state is what is read back once the bytes      *)
(* before it have been taken, whether the buffer had to move or to grow;    *)
(* one that is prepended is what is read back at once.                      *)
IntsRoundTrip ==
    \A width \in IntWidths : \A x \in Ints(width) :
        /\ peekInt(retrieve(appendInt(buffer, x, width), readableBytes(buffer)), width) = x
        /\ width <= prependableBytes(buffer) => peekInt(prependInt(buffer, x, width), width) = x

(* The bytes come out in the order they went in, none lost, none twice:      *)
(* Buffer implements ByteQueue, for readv's split reads as for appends.     *)
BytesKept == Queue!Spec
=============================================================================
