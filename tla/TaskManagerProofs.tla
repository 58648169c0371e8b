-------------------------- MODULE TaskManagerProofs --------------------------
(***************************************************************************)
(* Theorems about TaskManager for every set of workers, every set of       *)
(* commands and every queue size.  Inv of TaskManager is inductive; the    *)
(* safety properties and the refinement of RequestQueue follow from it.    *)
(***************************************************************************)
EXTENDS TaskManager, TLAPS

USE DEF Threads, ProducerPCs, ConsumerPCs, InQueue, InCounter

(* The state in which the threads start satisfies the inductive invariant.  *)
LEMMA InitInv == Init => Inv
BY ThreadAssumption, MaxSizeAssumption
   DEF Init, Inv, TypeOK, OwnersAgree, SleepersRetry, ItemsInHand, RoomWhenPushing,
       QueueBounded, FrontIsServed, NoLostWakeup

(* A thread that takes m_mtx keeps the inductive invariant.                 *)
LEMMA LockQueueInv ==
    ASSUME Inv, NEW t \in Threads, NEW then,
           LockQueue(t, then),
           then = IF t = Consumer THEN "testEmpty" ELSE "testFull"
    PROVE  Inv'
BY ThreadAssumption, MaxSizeAssumption
   DEF LockQueue, Goto, Inv, TypeOK, OwnersAgree, SleepersRetry, ItemsInHand,
       RoomWhenPushing, QueueBounded, FrontIsServed, NoLostWakeup

(* A worker's steps keep the inductive invariant.                           *)
LEMMA ProducerInv ==
    ASSUME Inv, NEW p \in Producers, Submit(p) \/ ProducerStep(p)
    PROVE  Inv'
<1> USE ThreadAssumption, MaxSizeAssumption
        DEF Goto, Inv, TypeOK, OwnersAgree, SleepersRetry, ItemsInHand,
            RoomWhenPushing, QueueBounded, FrontIsServed, NoLostWakeup
<1>1. CASE Submit(p)
  BY <1>1 DEF Submit, Requests
<1>2. CASE LockCounter(p)
  BY <1>2 DEF LockCounter
<1>3. CASE LockQueue(p, "testFull")
  BY <1>3, LockQueueInv
<1>4. CASE TestFull(p)
  BY <1>4 DEF TestFull
<1>5. CASE Push(p)
  BY <1>5 DEF Push
<1>6. CASE UnlockQueue(p, "unlockCounter") /\ UNCHANGED item
  BY <1>6 DEF UnlockQueue
<1>7. CASE UnlockCounter(p)
  BY <1>7 DEF UnlockCounter
<1> QED
  BY <1>1, <1>2, <1>3, <1>4, <1>5, <1>6, <1>7 DEF ProducerStep

(* The executor's steps keep the inductive invariant.                       *)
LEMMA ConsumerInv ==
    ASSUME Inv, ConsumerStep
    PROVE  Inv'
<1> USE ThreadAssumption, MaxSizeAssumption
        DEF Goto, Inv, TypeOK, OwnersAgree, SleepersRetry, ItemsInHand,
            RoomWhenPushing, QueueBounded, FrontIsServed, NoLostWakeup
<1>1. CASE LockQueue(Consumer, "testEmpty")
  BY <1>1, LockQueueInv
<1>2. CASE TestEmpty
  BY <1>2 DEF TestEmpty
<1>3. CASE Execute
  <2>1. Head(m_deque) \in Requests
    BY <1>3 DEF Execute
  <2>2. \A p \in Producers : pc[p] \notin InQueue /\ p # Consumer
    BY <1>3 DEF Execute
  <2> QED
    BY <1>3, <2>1, <2>2 DEF Execute
<1>4. CASE Send
  BY <1>4 DEF Send
<1>5. CASE PopFront
  BY <1>5 DEF PopFront
<1>6. CASE /\ UnlockQueue(Consumer, "lockQueue")
           /\ item' = [item EXCEPT ![Consumer] = NoRequest]
  BY <1>6 DEF UnlockQueue
<1> QED
  BY <1>1, <1>2, <1>3, <1>4, <1>5, <1>6 DEF ConsumerStep

(* Any thread's step, or a spurious wakeup, keeps the inductive invariant.  *)
LEMMA NextInv == Inv /\ [Next]_vars => Inv'
<1> SUFFICES ASSUME Inv, [Next]_vars PROVE Inv'
  OBVIOUS
<1>1. CASE \E p \in Producers : Submit(p) \/ ProducerStep(p)
  BY <1>1, ProducerInv
<1>2. CASE ConsumerStep
  BY <1>2, ConsumerInv
<1>3. CASE \E t \in Threads : SpuriousWake(t)
  BY <1>3, ThreadAssumption
     DEF SpuriousWake, Inv, TypeOK, OwnersAgree, SleepersRetry, ItemsInHand,
         RoomWhenPushing, QueueBounded, FrontIsServed, NoLostWakeup
<1>4. CASE UNCHANGED vars
  BY <1>4
     DEF vars, Inv, TypeOK, OwnersAgree, SleepersRetry, ItemsInHand,
         RoomWhenPushing, QueueBounded, FrontIsServed, NoLostWakeup
<1> QED
  BY <1>1, <1>2, <1>3, <1>4 DEF Next

(* The inductive invariant holds in every reachable state.                  *)
THEOREM Invariance == Spec => []Inv
BY InitInv, NextInv, PTL DEF Spec

-----------------------------------------------------------------------------
(* Types: owners are threads, sleepers sleep on the right condition         *)
(* variable, and the queue holds requests.                                  *)
THEOREM TypeCorrect == Spec => []TypeOK
BY Invariance, PTL DEF Inv

(* Mutual exclusion on m_mtx, from the agreement of owners and program      *)
(* points.                                                                  *)
THEOREM Exclusion == Spec => []QueueExclusion
<1>1. Inv => QueueExclusion
  BY DEF Inv, OwnersAgree, QueueExclusion
<1> QED
  BY <1>1, Invariance, PTL

(* The deque never outgrows m_nMAxSize.                                     *)
THEOREM Bounded == Spec => []QueueBounded
BY Invariance, PTL DEF Inv

(* What the executor executes, answers and pops is one and the same front.  *)
THEOREM FrontServed == Spec => []FrontIsServed
BY Invariance, PTL DEF Inv

(* No sleeping thread has been left behind by the notification it needs.    *)
THEOREM WakeupsKept == Spec => []NoLostWakeup
BY Invariance, PTL DEF Inv

(* At most one worker sleeps, holding m_itemCounterMtx.                     *)
THEOREM OneSleeper == Spec => []OneSleepingProducer
<1>1. Inv => OneSleepingProducer
  <2> SUFFICES ASSUME Inv, NEW p \in waitNotFull
               PROVE  m_itemCounterMtx = p /\ waitNotFull = {p}
    BY DEF OneSleepingProducer
  <2>1. \A q \in waitNotFull : m_itemCounterMtx = q
    BY DEF Inv, TypeOK, SleepersRetry, OwnersAgree
  <2> QED
    BY <2>1
<1> QED
  BY <1>1, Invariance, PTL

(* While the executor serves the front, only its own pop_front touches the  *)
(* queue.                                                                   *)
THEOREM Frozen == Spec => QueueFrozenWhileServing
<1>1. Inv /\ [Next]_vars =>
        [pc[Consumer] \in {"send", "pop"} /\ m_deque' # m_deque
           => pc[Consumer] = "pop" /\ m_deque' = Tail(m_deque)]_vars
  <2> SUFFICES ASSUME Inv, Next, pc[Consumer] \in {"send", "pop"}, m_deque' # m_deque
               PROVE  pc[Consumer] = "pop" /\ m_deque' = Tail(m_deque)
    OBVIOUS
  <2>1. \A p \in Producers : pc[p] \notin InQueue
    BY ThreadAssumption DEF Inv, OwnersAgree
  <2> QED
    BY <2>1 DEF Next, Submit, ProducerStep, LockCounter, LockQueue, TestFull, Push,
        UnlockQueue, UnlockCounter, ConsumerStep, TestEmpty, Execute, Send, PopFront,
        SpuriousWake
<1> QED
  BY <1>1, Invariance, PTL DEF Spec, QueueFrozenWhileServing

-----------------------------------------------------------------------------
(* The safety part of ImplementsRequestQueue: the threads start in an       *)
(* initial state of the bounded FIFO, and each of their steps is a step of  *)
(* it or leaves it alone.                                                   *)
THEOREM Refinement == Spec => RQ!Init /\ [][RQ!Next]_(RQ!vars)
<1>1. Init => RQ!Init
  BY ThreadAssumption DEF Init, RQ!Init
<1>2. Inv /\ [Next]_vars => [RQ!Next]_(RQ!vars)
  <2> SUFFICES ASSUME Inv, [Next]_vars
               PROVE  RQ!Next \/ UNCHANGED RQ!vars
    OBVIOUS
  <2> USE ThreadAssumption
          DEF Goto, Inv, TypeOK, OwnersAgree, FrontIsServed, RQ!vars
  <2>1. ASSUME NEW p \in Producers, Push(p)
        PROVE  RQ!Accept(item[p])
    BY <2>1 DEF Push, RQ!Accept, RoomWhenPushing
  <2>2. CASE Execute
    BY <2>2 DEF Execute, RQ!Next, RQ!Serve
  <2>3. CASE Send
    BY <2>3, MaxSizeAssumption DEF Send, RQ!Next, RQ!Answer
  <2>4. CASE PopFront
    BY <2>4 DEF PopFront
  <2>5. ASSUME NEW p \in Producers,
               \/ Submit(p)
               \/ LockCounter(p)
               \/ LockQueue(p, "testFull")
               \/ TestFull(p)
               \/ UnlockQueue(p, "unlockCounter") /\ UNCHANGED item
               \/ UnlockCounter(p)
        PROVE  UNCHANGED RQ!vars
    BY <2>5 DEF Submit, LockCounter, LockQueue, TestFull, UnlockQueue, UnlockCounter
  <2>6. CASE \/ LockQueue(Consumer, "testEmpty")
             \/ TestEmpty
             \/ /\ UnlockQueue(Consumer, "lockQueue")
                /\ item' = [item EXCEPT ![Consumer] = NoRequest]
    BY <2>6 DEF LockQueue, TestEmpty, UnlockQueue
  <2>7. CASE \E t \in Threads : SpuriousWake(t)
    BY <2>7 DEF SpuriousWake
  <2>8. CASE UNCHANGED vars
    BY <2>8 DEF vars
  <2>9. \A p \in Producers : pc[p] = "push" => item[p] \in Requests
    BY DEF ItemsInHand
  <2> QED
    BY <2>1, <2>2, <2>3, <2>4, <2>5, <2>6, <2>7, <2>8, <2>9
       DEF Next, ProducerStep, ConsumerStep, RQ!Next, Push
<1> QED
  BY <1>1, <1>2, Invariance, PTL DEF Spec
=============================================================================
