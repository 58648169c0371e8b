---------------------------- MODULE RequestQueue ----------------------------
(***************************************************************************)
(* What the task queue between the I/O threads and the executor thread     *)
(* promises, without its mutexes and condition variables: a FIFO of at     *)
(* most Capacity requests; the executor serves exactly the oldest one, one *)
(* at a time, and answers it before it serves the next.                    *)
(***************************************************************************)
EXTENDS Naturals, Sequences

CONSTANTS Requests,   (* the requests that may be submitted                *)
          NoRequest,  (* "nothing is being served"                         *)
          Capacity    (* the largest number of requests the queue holds    *)

VARIABLES queue,      (* requests accepted and not yet served, oldest first *)
          serving     (* the request being served, or NoRequest             *)

vars == <<queue, serving>>

Init == queue = <<>> /\ serving = NoRequest

Accept(r) ==
    /\ Len(queue) < Capacity
    /\ queue' = Append(queue, r)
    /\ UNCHANGED serving

Serve ==
    /\ serving = NoRequest
    /\ queue # <<>>
    /\ serving' = Head(queue)
    /\ queue' = Tail(queue)

Answer ==
    /\ serving # NoRequest
    /\ serving' = NoRequest
    /\ UNCHANGED queue

Next == (\E r \in Requests : Accept(r)) \/ Serve \/ Answer

Spec == Init /\ [][Next]_vars /\ WF_vars(Serve) /\ WF_vars(Answer)
=============================================================================
