----------------------------- MODULE ReplyBuffer -----------------------------
(***************************************************************************)
(* src/base/ReplyBuffer.cpp: the buffer a command's reply is written into. *)
(* A vector of which m_nReadPos .. m_nWritePos hold the bytes not yet       *)
(* read; unlike Buffer it starts empty, grows by halves and keeps no room  *)
(* in front.  Index i of the code is m_vecBuffer[i + 1].                   *)
(***************************************************************************)
EXTENDS Naturals, Sequences, FiniteSetsExt

CONSTANTS FirstSize,        (* the first size assureSpace gives: 64          *)
          MAX_BUFFER_SIZE,
          Bytes,
          MaxLen,           (* bound: the bytes of one call                  *)
          MaxReadable       (* bound: the bytes held when a call adds to them *)

VARIABLES reply, call

vars == <<reply, call>>

readableSize(r) == r.m_nWritePos - r.m_nReadPos
writableSize(r) == Len(r.m_vecBuffer) - r.m_nWritePos
Contents(r)     == SubSeq(r.m_vecBuffer, r.m_nReadPos + 1, r.m_nWritePos)

(* resize of a std::vector: what is reserved doubles when it does not do.    *)
Reserved(r, n) == IF n <= r.capacity THEN r.capacity
                  ELSE Max({n, 2 * Len(r.m_vecBuffer)})

Resized(r, n) ==
    [r EXCEPT !.m_vecBuffer = [i \in 1 .. n |-> IF i <= Len(@) THEN @[i] ELSE 0],
              !.capacity = Reserved(r, n)]

(* The while loop ends when nSize more bytes fit, those already read not     *)
(* counted, or when the vector has become too large.                        *)
Enough(r, nSize) ==
    nSize <= writableSize(r) + r.m_nReadPos \/ Len(r.m_vecBuffer) > MAX_BUFFER_SIZE

GrownOnce(r) ==
    LET size == Len(r.m_vecBuffer)
    IN  Resized(r, IF size < FirstSize THEN FirstSize ELSE size + size \div 2)

(* Each turn makes the vector longer, so there are at most nSize turns.      *)
Grown(r, nSize) ==
    LET turn[i \in 0 .. nSize] ==
          IF i = 0 THEN r
          ELSE IF Enough(turn[i - 1], nSize) THEN turn[i - 1] ELSE GrownOnce(turn[i - 1])
    IN  turn[nSize]

(* Mutant of MovedToFront: the positions are reset, the bytes left.          *)
MovedPositionsOnly(r) == [r EXCEPT !.m_nReadPos = 0, !.m_nWritePos = readableSize(r)]

MovedToFront(r) ==
    [r EXCEPT !.m_vecBuffer = Contents(r) \o SubSeq(@, readableSize(r) + 1, Len(@)),
              !.m_nReadPos = 0,
              !.m_nWritePos = readableSize(r)]

(* Mutant of assureSpace: the contents stay where they are.                  *)
assureSpaceUnmoved(r, nSize) == IF nSize <= writableSize(r) THEN r ELSE Grown(r, nSize)

assureSpace(r, nSize) ==
    IF nSize <= writableSize(r) THEN r ELSE MovedToFront(Grown(r, nSize))

pushDataAt(r, s, offset) ==
    IF s = <<>> \/ readableSize(r) = MAX_BUFFER_SIZE THEN r
    ELSE LET e  == assureSpace(r, Len(s) + offset)
             at == e.m_nWritePos + offset
         IN  [e EXCEPT !.m_vecBuffer =
                [i \in DOMAIN @ |-> IF i > at /\ i <= at + Len(s) THEN s[i - at] ELSE @[i]]]

pushData(r, s) ==
    IF readableSize(r) = MAX_BUFFER_SIZE THEN r
    ELSE [pushDataAt(r, s, 0) EXCEPT !.m_nWritePos = @ + Len(s)]

peekDataAt(r, nSize, offset) ==
    SubSeq(Contents(r), offset + 1, Min({offset + nSize, readableSize(r)}))

(* Mutant of clear: only the write position is reset.                        *)
clearWritePos(r) == [r EXCEPT !.m_nWritePos = 0]

clear(r) == [r EXCEPT !.m_nReadPos = 0, !.m_nWritePos = 0]

(* The vector is replaced by one of the size of the contents.                *)
shrink(r, tight) ==
    IF ~tight /\ readableSize(r) > Len(r.m_vecBuffer) \div 2 THEN r
    ELSE [m_vecBuffer |-> Contents(r), capacity |-> readableSize(r),
          m_nReadPos |-> 0, m_nWritePos |-> readableSize(r)]

-----------------------------------------------------------------------------
Queue == INSTANCE ByteQueue WITH queue <- Contents(reply)

Strings == UNION {[1 .. k -> Bytes] : k \in 0 .. MaxLen}

Init ==
    /\ reply = [m_vecBuffer |-> <<>>, capacity |-> 0, m_nReadPos |-> 0, m_nWritePos |-> 0]
    /\ call = Queue!Call("put", <<>>)

PushData(s) ==
    /\ readableSize(reply) <= MaxReadable
    /\ reply' = pushData(reply, s)
    /\ call' = Queue!Call("put", s)

PeekData(nSize) ==
    /\ call' = Queue!Call("take", peekDataAt(reply, nSize, 0))
    /\ reply' = [reply EXCEPT !.m_nReadPos = @ + Len(call'.bytes)]

Clear ==
    /\ reply' = clear(reply)
    /\ call' = Queue!Call("take", Contents(reply))

(* Called under its assert, which a vector that has grown twice fails.       *)
Shrink(tight) ==
    /\ reply.capacity = Len(reply.m_vecBuffer)
    /\ reply' = shrink(reply, tight)
    /\ UNCHANGED call

Next ==
    \/ \E s \in Strings : PushData(s)
    \/ \E n \in 0 .. MaxLen : PeekData(n)
    \/ Clear
    \/ \E tight \in BOOLEAN : Shrink(tight)

Spec == Init /\ [][Next]_vars

-----------------------------------------------------------------------------
(* The positions stay in order and inside the vector, and the vector inside  *)
(* what it has reserved, though they are not reset when the buffer empties. *)
TypeOK ==
    /\ reply.m_vecBuffer \in Seq(Bytes)
    /\ reply.m_nReadPos \in 0 .. reply.m_nWritePos
    /\ reply.m_nWritePos \in 0 .. Len(reply.m_vecBuffer)
    /\ Len(reply.m_vecBuffer) \in 0 .. reply.capacity
    /\ call \in [op : Queue!CallOps, bytes : Seq(Bytes)]

(* The assert of pushDataAt, for bytes of any length at any offset that      *)
(* could come next: the room is there once the buffer has moved or grown.   *)
AssertsHold ==
    \A n \in 1 .. MaxLen, offset \in 0 .. MaxLen :
        n + offset <= writableSize(assureSpace(reply, n + offset))

(* The reply is read as it was written: ReplyBuffer implements ByteQueue.    *)
BytesKept == Queue!Spec
=============================================================================
