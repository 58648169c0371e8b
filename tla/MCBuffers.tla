------------------------------ MODULE MCBuffers ------------------------------
(***************************************************************************)
(* The two byte buffers side by side: Buffer, which a connection reads     *)
(* into, and ReplyBuffer, which a command writes its reply into.  They     *)
(* share nothing, so each is explored while the other is as constructed.   *)
(***************************************************************************)
EXTENDS Buffer

CONSTANTS FirstSize, MAX_BUFFER_SIZE

(* What is held and pushed stays below MAX_BUFFER_SIZE, half of the address  *)
(* space.                                                                   *)
ASSUME ReplyBufferAssumption ==
    /\ FirstSize \in Nat \ {0, 1}
    /\ MAX_BUFFER_SIZE \in Nat
    /\ MaxReadable + 3 * MaxLen < MAX_BUFFER_SIZE

VARIABLES reply, replyCall

Reply == INSTANCE ReplyBuffer WITH call <- replyCall

MCInit == Init /\ Reply!Init

MCNext ==
    \/ Reply!Init /\ Next /\ UNCHANGED <<reply, replyCall>>
    \/ Init /\ Reply!Next /\ UNCHANGED <<buffer, call>>

MCSpec == MCInit /\ [][MCNext]_<<vars, reply, replyCall>>

(* ReplyBuffer's positions stay in order, inside its vector.                 *)
ReplyTypeOK == Reply!TypeOK

(* The assert of pushDataAt holds for whatever is pushed next.               *)
ReplyAssertsHold == Reply!AssertsHold

(* A reply is read as it was written: ReplyBuffer implements ByteQueue.      *)
ReplyBytesKept == Reply!BytesKept
=============================================================================
