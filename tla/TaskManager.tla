----------------------------- MODULE TaskManager -----------------------------
(***************************************************************************)
(* src/src/TaskManager.cpp: the task queue between the worker I/O threads  *)
(* and the one thread that executes commands.  A worker thread submits a   *)
(* request with producerTask; the executor thread runs consumerTask.       *)
(*                                                                         *)
(* Each action is the code between two points where another thread may     *)
(* run: a mutex acquisition, a condition-variable wait, a release.  A call *)
(* to notify_all under the mutex is part of the step it follows.           *)
(***************************************************************************)
EXTENDS Naturals, Sequences, FiniteSets

CONSTANTS Producers,  (* the worker I/O threads                              *)
          Consumer,   (* the executor thread                                 *)
          Cmds,       (* command vectors, abstracted to identities           *)
          MaxSize,    (* m_nMAxSize                                          *)
          NoThread,   (* the owner of a free mutex                           *)
          NoRequest   (* no item in hand                                     *)

Threads == Producers \cup {Consumer}

(* connAndCmd: a connection belongs to one worker, so the worker stands for it. *)
Requests == [conn : Producers, vecCmd : Cmds]

ASSUME ThreadAssumption ==
    /\ Consumer \notin Producers
    /\ NoThread \notin Threads
    /\ NoRequest \notin Requests

ASSUME MaxSizeAssumption == MaxSize \in Nat \ {0}

VARIABLES m_deque,            (* the task queue                              *)
          m_mtx,              (* owner of the mutex that guards m_deque      *)
          m_itemCounterMtx,   (* owner of the mutex that serialises producers *)
          waitNotFull,        (* threads asleep on m_repositoryNotFull       *)
          waitNotEmpty,       (* threads asleep on m_repositoryNotEmpty      *)
          pc,                 (* where each thread is                        *)
          item                (* producerTask's argument / consumer's temp   *)

vars == <<m_deque, m_mtx, m_itemCounterMtx, waitNotFull, waitNotEmpty, pc, item>>

ProducerPCs == {"idle", "lockCounter", "lockQueue", "testFull", "push",
                "unlockQueue", "unlockCounter"}
ConsumerPCs == {"lockQueue", "testEmpty", "execute", "send", "pop", "unlockQueue"}

Init ==
    /\ m_deque = <<>>
    /\ m_mtx = NoThread
    /\ m_itemCounterMtx = NoThread
    /\ waitNotFull = {}
    /\ waitNotEmpty = {}
    /\ pc = [t \in Threads |-> IF t = Consumer THEN "lockQueue" ELSE "idle"]
    /\ item = [t \in Threads |-> NoRequest]

Goto(t, label) == pc' = [pc EXCEPT ![t] = label]

-----------------------------------------------------------------------------
(* Mutex and condition variable, as the C++ library specifies them.         *)

(* Mutant of LockQueue: the queue is entered without owning its mutex.      *)
LockQueueUnguarded(t, then) ==
    /\ pc[t] = "lockQueue"
    /\ t \notin waitNotFull \cup waitNotEmpty
    /\ m_mtx' = t
    /\ Goto(t, then)
    /\ UNCHANGED <<m_deque, m_itemCounterMtx, waitNotFull, waitNotEmpty, item>>

(* A woken waiter takes the mutex again and evaluates its predicate again. *)
LockQueue(t, then) ==
    /\ pc[t] = "lockQueue"
    /\ t \notin waitNotFull \cup waitNotEmpty
    /\ m_mtx = NoThread
    /\ m_mtx' = t
    /\ Goto(t, then)
    /\ UNCHANGED <<m_deque, m_itemCounterMtx, waitNotFull, waitNotEmpty, item>>

UnlockQueue(t, then) ==
    /\ pc[t] = "unlockQueue"
    /\ m_mtx' = NoThread
    /\ Goto(t, then)
    /\ UNCHANGED <<m_deque, m_itemCounterMtx, waitNotFull, waitNotEmpty>>

(* condition_variable::wait may return without a notification.             *)
SpuriousWake(t) ==
    /\ t \in waitNotFull \cup waitNotEmpty
    /\ waitNotFull' = waitNotFull \ {t}
    /\ waitNotEmpty' = waitNotEmpty \ {t}
    /\ UNCHANGED <<m_deque, m_mtx, m_itemCounterMtx, pc, item>>

-----------------------------------------------------------------------------
(* producerTask, in a worker thread.                                        *)

(* YedisSession::onRead calls producerTask with the request it parsed.     *)
Submit(p) ==
    /\ pc[p] = "idle"
    /\ \E c \in Cmds : item' = [item EXCEPT ![p] = [conn |-> p, vecCmd |-> c]]
    /\ Goto(p, "lockCounter")
    /\ UNCHANGED <<m_deque, m_mtx, m_itemCounterMtx, waitNotFull, waitNotEmpty>>

(* Mutant of LockCounter: producer is called without producerTask's mutex.  *)
LockCounterSkipped(p) ==
    /\ pc[p] = "lockCounter"
    /\ Goto(p, "lockQueue")
    /\ UNCHANGED <<m_deque, m_mtx, m_itemCounterMtx, waitNotFull, waitNotEmpty, item>>

LockCounter(p) ==
    /\ pc[p] = "lockCounter"
    /\ m_itemCounterMtx = NoThread
    /\ m_itemCounterMtx' = p
    /\ Goto(p, "lockQueue")
    /\ UNCHANGED <<m_deque, m_mtx, waitNotFull, waitNotEmpty, item>>

(* Mutant of TestFull: the predicate says full one element too late.        *)
TestFullOffByOne(p) ==
    /\ pc[p] = "testFull"
    /\ IF Len(m_deque) > MaxSize
       THEN /\ waitNotFull' = waitNotFull \cup {p}
            /\ m_mtx' = NoThread
            /\ Goto(p, "lockQueue")
       ELSE /\ Goto(p, "push")
            /\ UNCHANGED <<waitNotFull, m_mtx>>
    /\ UNCHANGED <<m_deque, m_itemCounterMtx, waitNotEmpty, item>>

(* Mutant of TestFull: the worker sleeps on the other condition variable.   *)
TestFullWrongCondition(p) ==
    /\ pc[p] = "testFull"
    /\ IF Len(m_deque) >= MaxSize
       THEN /\ waitNotEmpty' = waitNotEmpty \cup {p}
            /\ m_mtx' = NoThread
            /\ Goto(p, "lockQueue")
       ELSE /\ Goto(p, "push")
            /\ UNCHANGED <<waitNotEmpty, m_mtx>>
    /\ UNCHANGED <<m_deque, m_itemCounterMtx, waitNotFull, item>>

(* m_repositoryNotFull.wait(lock, predicate).                               *)
TestFull(p) ==
    /\ pc[p] = "testFull"
    /\ IF Len(m_deque) >= MaxSize
       THEN /\ waitNotFull' = waitNotFull \cup {p}
            /\ m_mtx' = NoThread
            /\ Goto(p, "lockQueue")
       ELSE /\ Goto(p, "push")
            /\ UNCHANGED <<waitNotFull, m_mtx>>
    /\ UNCHANGED <<m_deque, m_itemCounterMtx, waitNotEmpty, item>>

(* Mutant of Push: the executor is not notified.                            *)
PushSilently(p) ==
    /\ pc[p] = "push"
    /\ m_deque' = Append(m_deque, item[p])
    /\ Goto(p, "unlockQueue")
    /\ UNCHANGED <<m_mtx, m_itemCounterMtx, waitNotFull, waitNotEmpty, item>>

(* push_back, then m_repositoryNotEmpty.notify_all().                       *)
Push(p) ==
    /\ pc[p] = "push"
    /\ m_deque' = Append(m_deque, item[p])
    /\ waitNotEmpty' = {}
    /\ Goto(p, "unlockQueue")
    /\ UNCHANGED <<m_mtx, m_itemCounterMtx, waitNotFull, item>>

UnlockCounter(p) ==
    /\ pc[p] = "unlockCounter"
    /\ m_itemCounterMtx' = NoThread
    /\ item' = [item EXCEPT ![p] = NoRequest]
    /\ Goto(p, "idle")
    /\ UNCHANGED <<m_deque, m_mtx, waitNotFull, waitNotEmpty>>

ProducerStep(p) ==
    \/ LockCounter(p)
    \/ LockQueue(p, "testFull")
    \/ TestFull(p)
    \/ Push(p)
    \/ UnlockQueue(p, "unlockCounter") /\ UNCHANGED item
    \/ UnlockCounter(p)

-----------------------------------------------------------------------------
(* consumerTask: consumer() for ever, in the executor thread.               *)

(* Mutant of TestEmpty: an IF instead of a loop, so that a spurious wakeup   *)
(* is taken for a notification.                                             *)
TestEmptySkipped ==
    /\ pc[Consumer] = "testEmpty"
    /\ Goto(Consumer, "execute")
    /\ UNCHANGED <<m_deque, m_mtx, m_itemCounterMtx, waitNotFull, waitNotEmpty, item>>

(* m_repositoryNotEmpty.wait(lock, predicate).                              *)
TestEmpty ==
    /\ pc[Consumer] = "testEmpty"
    /\ IF m_deque = <<>>
       THEN /\ waitNotEmpty' = waitNotEmpty \cup {Consumer}
            /\ m_mtx' = NoThread
            /\ Goto(Consumer, "lockQueue")
       ELSE /\ Goto(Consumer, "execute")
            /\ UNCHANGED <<waitNotEmpty, m_mtx>>
    /\ UNCHANGED <<m_deque, m_itemCounterMtx, waitNotFull, item>>

(* Mutant of Execute: the command runs with m_mtx released.                 *)
ExecuteUnlocked ==
    /\ pc[Consumer] = "execute"
    /\ item' = [item EXCEPT ![Consumer] = Head(m_deque)]
    /\ m_mtx' = NoThread
    /\ Goto(Consumer, "send")
    /\ UNCHANGED <<m_deque, m_itemCounterMtx, waitNotFull, waitNotEmpty>>

(* Mutant of Execute: the newest request is served first.                   *)
ExecuteBack ==
    /\ pc[Consumer] = "execute"
    /\ item' = [item EXCEPT ![Consumer] = m_deque[Len(m_deque)]]
    /\ Goto(Consumer, "send")
    /\ UNCHANGED <<m_deque, m_mtx, m_itemCounterMtx, waitNotFull, waitNotEmpty>>

(* The front is copied, not removed, and its command is executed.           *)
Execute ==
    /\ pc[Consumer] = "execute"
    /\ item' = [item EXCEPT ![Consumer] = Head(m_deque)]
    /\ Goto(Consumer, "send")
    /\ UNCHANGED <<m_deque, m_mtx, m_itemCounterMtx, waitNotFull, waitNotEmpty>>

(* The reply goes to the connection of the copied item, m_mtx still held.   *)
Send ==
    /\ pc[Consumer] = "send"
    /\ Goto(Consumer, "pop")
    /\ UNCHANGED <<m_deque, m_mtx, m_itemCounterMtx, waitNotFull, waitNotEmpty, item>>

(* Mutant of PopFront: the waiting worker is not notified.                  *)
PopFrontSilently ==
    /\ pc[Consumer] = "pop"
    /\ m_deque' = Tail(m_deque)
    /\ Goto(Consumer, "unlockQueue")
    /\ UNCHANGED <<m_mtx, m_itemCounterMtx, waitNotFull, waitNotEmpty, item>>

(* pop_front, then m_repositoryNotFull.notify_all().                        *)
PopFront ==
    /\ pc[Consumer] = "pop"
    /\ m_deque' = Tail(m_deque)
    /\ waitNotFull' = {}
    /\ Goto(Consumer, "unlockQueue")
    /\ UNCHANGED <<m_mtx, m_itemCounterMtx, waitNotEmpty, item>>

ConsumerStep ==
    \/ LockQueue(Consumer, "testEmpty")
    \/ TestEmpty
    \/ Execute
    \/ Send
    \/ PopFront
    \/ /\ UnlockQueue(Consumer, "lockQueue")
       /\ item' = [item EXCEPT ![Consumer] = NoRequest]

-----------------------------------------------------------------------------
Next ==
    \/ \E p \in Producers : Submit(p) \/ ProducerStep(p)
    \/ ConsumerStep
    \/ \E t \in Threads : SpuriousWake(t)

Spec == Init /\ [][Next]_vars

(* Every thread is scheduled (weak fairness); no fairness is asked of the   *)
(* mutexes, of which std::mutex gives none; submitting is up to the clients. *)
(* Only finitely many wakeups are spurious.                                 *)
Fairness ==
    /\ \A p \in Producers : WF_vars(ProducerStep(p))
    /\ WF_vars(ConsumerStep)
    /\ <>[][\A t \in Threads : ~SpuriousWake(t)]_vars

FairSpec == Spec /\ Fairness

-----------------------------------------------------------------------------
TypeOK ==
    /\ m_deque \in Seq(Requests)
    /\ m_mtx \in Threads \cup {NoThread}
    /\ m_itemCounterMtx \in Producers \cup {NoThread}
    /\ waitNotFull \subseteq Producers
    /\ waitNotEmpty \subseteq {Consumer}
    /\ pc \in [Threads -> ProducerPCs \cup ConsumerPCs]
    /\ \A p \in Producers : pc[p] \in ProducerPCs
    /\ pc[Consumer] \in ConsumerPCs
    /\ item \in [Threads -> Requests \cup {NoRequest}]

(* The program points at which a thread believes it owns a mutex.           *)
InQueue == {"testFull", "push", "testEmpty", "execute", "send", "pop", "unlockQueue"}
InCounter == {"lockQueue", "testFull", "push", "unlockQueue", "unlockCounter"}

(* No two threads are between the acquisition and the release of m_mtx, so  *)
(* no producer touches the queue while a command is executed and answered. *)
QueueExclusion ==
    \A t, u \in Threads : pc[t] \in InQueue /\ pc[u] \in InQueue => t = u

(* push_back never makes the queue longer than m_nMAxSize, even though the  *)
(* size is tested in an earlier step than the one that pushes.              *)
QueueBounded == Len(m_deque) <= MaxSize

(* The front that is executed, answered and popped exists at each of those  *)
(* steps and is the same element: the queue's head did not change between   *)
(* the copy of front() and pop_front().                                     *)
FrontIsServed ==
    /\ pc[Consumer] \in {"execute", "send", "pop"} => m_deque # <<>>
    /\ pc[Consumer] \in {"send", "pop"} => item[Consumer] = Head(m_deque)

(* No notification is lost: the executor is asleep only over an empty       *)
(* queue, and a worker only over a full one.                                *)
NoLostWakeup ==
    /\ waitNotEmpty # {} => m_deque = <<>>
    /\ waitNotFull # {} => Len(m_deque) >= MaxSize

(* At most one worker ever sleeps on m_repositoryNotFull, and it keeps      *)
(* m_itemCounterMtx while it sleeps: every other submitting worker queues   *)
(* behind that mutex.                                                       *)
OneSleepingProducer ==
    \A p \in waitNotFull : m_itemCounterMtx = p /\ waitNotFull = {p}

(* Once the executor has copied the front, nothing but its own pop_front    *)
(* changes the queue: what it answers is what it removes.                   *)
QueueFrozenWhileServing ==
    [][pc[Consumer] \in {"send", "pop"} /\ m_deque' # m_deque
         => pc[Consumer] = "pop" /\ m_deque' = Tail(m_deque)]_vars

(* The strengthening under which the five invariants above are inductive:   *)
(* the owner fields agree with the program points, a sleeping thread is     *)
(* always on its way to m_mtx, and the facts a thread tested under m_mtx    *)
(* stay true until it releases it.                                          *)
OwnersAgree ==
    /\ \A t \in Threads : pc[t] \in InQueue <=> m_mtx = t
    /\ \A p \in Producers : pc[p] \in InCounter <=> m_itemCounterMtx = p

SleepersRetry == \A t \in waitNotFull \cup waitNotEmpty : pc[t] = "lockQueue"

ItemsInHand ==
    /\ \A p \in Producers : pc[p] # "idle" => item[p] \in Requests
    /\ item[Consumer] # NoRequest <=> pc[Consumer] \in {"send", "pop", "unlockQueue"}

RoomWhenPushing == \A p \in Producers : pc[p] = "push" => Len(m_deque) < MaxSize

Inv ==
    /\ TypeOK
    /\ OwnersAgree
    /\ SleepersRetry
    /\ ItemsInHand
    /\ RoomWhenPushing
    /\ QueueBounded
    /\ FrontIsServed
    /\ NoLostWakeup

-----------------------------------------------------------------------------
(* Refinement: the queue with its threads hidden is a bounded FIFO.  A      *)
(* request leaves the abstract queue when its execution starts and is       *)
(* answered by send, although m_deque holds it until pop_front.             *)
RQ == INSTANCE RequestQueue WITH
        Capacity <- MaxSize,
        queue    <- IF pc[Consumer] \in {"send", "pop"} THEN Tail(m_deque) ELSE m_deque,
        serving  <- IF pc[Consumer] = "send" THEN item[Consumer] ELSE NoRequest

(* Every behaviour of the threads is one of the bounded FIFO, which serves  *)
(* and answers for ever what it accepted.                                   *)
ImplementsRequestQueue == RQ!Spec

(* A worker that has m_itemCounterMtx and goes for the queue gets its       *)
(* request in: neither the executor nor a full queue keeps it out for ever. *)
HolderPushes ==
    \A p \in Producers : pc[p] = "lockQueue" ~> pc[p] = "unlockQueue"

(* As long as workers have requests to submit, requests keep being accepted: *)
(* the two mutexes and the two condition variables never block everyone.    *)
SubmissionsProgress ==
    (\E p \in Producers : pc[p] = "lockCounter") ~> (\E p \in Producers : pc[p] = "push")
=============================================================================
