------------------------------ MODULE ByteQueue ------------------------------
(***************************************************************************)
(* What the program's byte buffers promise, without storage, indices or    *)
(* growth: the bytes come out as they went in.  A call is seen by what it  *)
(* put in or took out, and at which end.                                   *)
(***************************************************************************)
EXTENDS Sequences

CONSTANT Bytes

VARIABLES queue,   (* the bytes held, the first to be read first             *)
          call     (* the last call: the bytes it moved                      *)

Call(op, s) == [op |-> op, bytes |-> s]
CallOps     == {"put", "take", "putFront", "takeBack"}

Init == queue = <<>> /\ call = Call("put", <<>>)

Put      == call'.op = "put"      /\ queue' = queue \o call'.bytes
Take     == call'.op = "take"     /\ queue  = call'.bytes \o queue'
PutFront == call'.op = "putFront" /\ queue' = call'.bytes \o queue
TakeBack == call'.op = "takeBack" /\ queue  = queue' \o call'.bytes

Next ==
    /\ call' \in [op : CallOps, bytes : Seq(Bytes)]
    /\ queue' \in Seq(Bytes)
    /\ Put \/ Take \/ PutFront \/ TakeBack

Spec == Init /\ [][Next]_<<queue, call>>
=============================================================================
