--------------------------- MODULE EventLoopProofs ---------------------------
(***************************************************************************)
(* Theorems about EventLoop for every set of threads that queue functors,  *)
(* every set of functors and every bound on the queue.  Inv of EventLoop   *)
(* is inductive; the refinement of RequestQueue follows from it.           *)
(***************************************************************************)
EXTENDS EventLoop, TLAPS

USE DEF Threads, InCallback, LoopRuns, LoopPCs

(* The loop the constructor leaves satisfies the inductive invariant,        *)
(* whatever m_bCallingPendingFunctor holds.                                 *)
LEMMA InitInv == Init => Inv
<1> SUFFICES ASSUME Init PROVE Inv
  OBVIOUS
<1>1. TypeOK
  <2>1. m_bCallingPendingFunctor \in BOOLEAN
    BY Zenon DEF Init
  <2>2. m_wakeupFd \in BOOLEAN /\ wakeupActive \in BOOLEAN
    BY Zenon DEF Init
  <2> QED
    BY <2>1, <2>2 DEF Init, TypeOK
<1> QED
  BY <1>1 DEF Init, Inv

(* A thread inside queueInLoop keeps the inductive invariant.               *)
LEMMA QueueInLoopInv ==
    ASSUME Inv, NEW t \in Threads, NEW f \in Functors, PushPending(t, f) \/ WakeUp(t)
    PROVE  Inv'
<1> USE LoopAssumption DEF Inv, TypeOK
<1>1. CASE PushPending(t, f)
  BY <1>1 DEF PushPending
<1>2. CASE WakeUp(t)
  BY <1>2 DEF WakeUp
<1> QED
  BY <1>1, <1>2

(* The loop's own steps keep the inductive invariant.                       *)
LEMMA LoopInv ==
    ASSUME Inv, LoopStep
    PROVE  Inv'
<1> USE LoopAssumption DEF Inv, TypeOK
<1>1. CASE Poll
  BY <1>1 DEF Poll
<1>2. CASE handleRead
  BY <1>2 DEF handleRead
<1>3. CASE StartFunctors
  BY <1>3 DEF StartFunctors
<1>4. CASE CallFunctor
  <2>1. Head(vecFunctors) \in Functors /\ Tail(vecFunctors) \in Seq(Functors)
    BY <1>4 DEF CallFunctor
  <2> QED
    BY <1>4, <2>1 DEF CallFunctor
<1>5. CASE FunctorReturns
  BY <1>5 DEF FunctorReturns
<1>6. CASE EndFunctors
  BY <1>6 DEF EndFunctors
<1> QED
  BY <1>1, <1>2, <1>3, <1>4, <1>5, <1>6 DEF LoopStep

(* Any step keeps the inductive invariant.                                  *)
LEMMA NextInv == Inv /\ [Next]_vars => Inv'
<1> SUFFICES ASSUME Inv, [Next]_vars PROVE Inv'
  OBVIOUS
<1>1. CASE \E t \in Threads, f \in Functors : PushPending(t, f)
  BY <1>1, QueueInLoopInv
<1>2. CASE \E t \in Threads : WakeUp(t)
  <2>1. PICK t \in Threads : WakeUp(t)
    BY <1>2
  <2> QED
    BY <2>1, LoopAssumption DEF WakeUp, Inv, TypeOK
<1>3. CASE LoopStep
  BY <1>3, LoopInv
<1>4. CASE UNCHANGED vars
  BY <1>4 DEF vars, Inv, TypeOK
<1> QED
  BY <1>1, <1>2, <1>3, <1>4 DEF Next

(* The inductive invariant holds in every reachable state: the flag is set   *)
(* while functors run, and what they queue for the next round is signalled. *)
THEOREM LoopInvariance == Spec => []Inv
BY InitInv, NextInv, PTL DEF Spec

(* No functor is left waiting for the poll timeout: whenever the loop goes   *)
(* to poll with something queued, the eventfd is or will be written.        *)
THEOREM NoWakeupLost == Spec => []PendingIsSignalled
<1>1. Inv => PendingIsSignalled
  BY DEF Inv, PendingIsSignalled
<1> QED
  BY <1>1, LoopInvariance, PTL

-----------------------------------------------------------------------------
(* Two sequences in a row, as the batch being run and what is queued behind  *)
(* it, are one: taking from the front and adding to the end.                *)
LEMMA FrontOfTwo ==
    ASSUME NEW S, NEW v \in Seq(S), NEW p \in Seq(S), v # <<>>
    PROVE  /\ v \o p # <<>>
           /\ Head(v \o p) = Head(v)
           /\ Tail(v \o p) = Tail(v) \o p
<1>1. Len(v) > 0 /\ Len(v \o p) = Len(v) + Len(p)
  OBVIOUS
<1>2. Tail(v) \in Seq(S) /\ Len(Tail(v)) = Len(v) - 1
  OBVIOUS
<1>3. v \o p \in Seq(S) /\ v \o p # <<>>
  BY <1>1
<1>4. Head(v \o p) = Head(v)
  BY <1>1
<1>5. Tail(v \o p) \in Seq(S) /\ Len(Tail(v \o p)) = Len(v \o p) - 1
  BY <1>3
<1>6. Tail(v) \o p \in Seq(S) /\ Len(Tail(v) \o p) = Len(Tail(v)) + Len(p)
  BY <1>2
<1>7. \A i \in 1 .. Len(Tail(v \o p)) : Tail(v \o p)[i] = (Tail(v) \o p)[i]
  BY <1>1, <1>2, <1>3, <1>5, <1>6
<1>8. Tail(v \o p) = Tail(v) \o p
  BY <1>1, <1>2, <1>5, <1>6, <1>7
<1> QED
  BY <1>3, <1>4, <1>8

(* The loop is a FIFO of functors that runs one at a time, in the order in   *)
(* which queueInLoop was called: the safety part of RunsInOrder.            *)
THEOREM LoopRefinement == Spec => FIFO!Init /\ [][FIFO!Next]_FIFO!vars
<1>1. Init => FIFO!Init
  BY DEF Init, FIFO!Init
<1>2. Inv /\ [Next]_vars => [FIFO!Next]_FIFO!vars
  <2> SUFFICES ASSUME Inv, [Next]_vars PROVE [FIFO!Next]_FIFO!vars
    OBVIOUS
  <2> USE LoopAssumption DEF Inv, TypeOK
  <2>1. ASSUME NEW t \in Threads, NEW f \in Functors, PushPending(t, f)
        PROVE  FIFO!Accept(f)
    <3>1. vecFunctors \o Append(m_vecPendingFunctor, f)
            = Append(vecFunctors \o m_vecPendingFunctor, f)
      OBVIOUS
    <3>2. Len(vecFunctors \o m_vecPendingFunctor) < MaxQueued
      BY <2>1 DEF PushPending
    <3> QED
      BY <2>1, <3>1, <3>2 DEF PushPending, FIFO!Accept
  <2>2. ASSUME NEW t \in Threads, WakeUp(t)
        PROVE  UNCHANGED FIFO!vars
    BY <2>2 DEF WakeUp, FIFO!vars
  <2>3. CASE Poll \/ handleRead \/ EndFunctors
    BY <2>3 DEF Poll, handleRead, EndFunctors, FIFO!vars
  <2>4. CASE StartFunctors
    <3>1. vecFunctors = <<>>
      BY <2>4 DEF StartFunctors
    <3>2. vecFunctors \o m_vecPendingFunctor = m_vecPendingFunctor \o <<>>
      BY <3>1
    <3> QED
      BY <2>4, <3>2 DEF StartFunctors, FIFO!vars
  <2>5. CASE CallFunctor
    <3>1. vecFunctors # <<>> /\ current = NoFunctor
      BY <2>5 DEF CallFunctor
    <3>2. FIFO!Serve
      BY <2>5, <3>1, FrontOfTwo DEF CallFunctor, FIFO!Serve
    <3> QED
      BY <3>2 DEF FIFO!Next
  <2>6. CASE FunctorReturns
    BY <2>6 DEF FunctorReturns, FIFO!Answer, FIFO!Next
  <2>7. CASE UNCHANGED vars
    BY <2>7 DEF vars, FIFO!vars
  <2> QED
    BY <2>1, <2>2, <2>3, <2>4, <2>5, <2>6, <2>7 DEF Next, LoopStep, FIFO!Next
<1> QED
  BY <1>1, <1>2, LoopInvariance, PTL DEF Spec
=============================================================================
