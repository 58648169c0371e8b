----------------------------- MODULE LoopThreads -----------------------------
(***************************************************************************)
(* How the main thread starts the worker loops: EventLoopThreadPool::Start *)
(* calls EventLoopThread::StartLoop for one worker after the other, which  *)
(* creates the thread and waits on m_Cond until its ThreadFunc has         *)
(* published m_loop; then AcceptNew::listen and the main loop.  Worker w   *)
(* is the w-th thread, and its loop is called w too.  What runs under      *)
(* m_Mutex_ is one step, except that wait releases it.                     *)
(***************************************************************************)
EXTENDS Naturals, Sequences

CONSTANTS NumWorkers,        (* the worker loops are 1 .. NumWorkers         *)
          None               (* the null pointer                             *)

Workers == 1 .. NumWorkers

VARIABLES
    mainPc,           (* where the main thread is                            *)
    threadPc,         (* where each worker thread is                         *)
    m_loop,           (* EventLoopThread::m_loop of each worker              *)
    m_vecLoops        (* EventLoopThreadPool::m_vecLoops                     *)

startup == <<mainPc, threadPc, m_loop, m_vecLoops>>

(* "test": in StartLoop, m_Mutex_ not held; "wait": asleep on m_Cond.       *)
MainPCs   == {"create", "test", "wait", "return", "loop"}
ThreadPCs == {"none", "ThreadFunc", "notified", "loop"}

StartupInit ==
    /\ mainPc = "create"
    /\ threadPc = [w \in Workers |-> "none"]
    /\ m_loop = [w \in Workers |-> None]
    /\ m_vecLoops = <<>>

(* The worker that is being started.                                         *)
Starting == Len(m_vecLoops) + 1

-----------------------------------------------------------------------------
(* The main thread.                                                         *)

CreateThread ==
    /\ mainPc = "create"
    /\ Starting \in Workers
    /\ threadPc' = [threadPc EXCEPT ![Starting] = "ThreadFunc"]
    /\ mainPc' = "test"
    /\ UNCHANGED <<m_loop, m_vecLoops>>

(* while (m_loop == NULL) m_Cond.wait(lock);                                *)
TestLoop ==
    /\ mainPc = "test"
    /\ mainPc' = IF m_loop[Starting] = None THEN "wait" ELSE "return"
    /\ UNCHANGED <<threadPc, m_loop, m_vecLoops>>

(* Mutant of SpuriousWake: if for while, a woken StartLoop does not test     *)
(* again.                                                                   *)
SpuriousWakeReturns ==
    /\ mainPc = "wait"
    /\ mainPc' = "return"
    /\ UNCHANGED <<threadPc, m_loop, m_vecLoops>>

SpuriousWake ==
    /\ mainPc = "wait"
    /\ mainPc' = "test"
    /\ UNCHANGED <<threadPc, m_loop, m_vecLoops>>

(* StartLoop returns m_loop, and Start pushes it.                            *)
ReturnLoop ==
    /\ mainPc = "return"
    /\ m_vecLoops' = Append(m_vecLoops, m_loop[Starting])
    /\ mainPc' = "create"
    /\ UNCHANGED <<threadPc, m_loop>>

(* Server::start has every loop: it listens, and main enters its own loop.  *)
listen ==
    /\ mainPc = "create"
    /\ Starting \notin Workers
    /\ mainPc' = "loop"
    /\ UNCHANGED <<threadPc, m_loop, m_vecLoops>>

-----------------------------------------------------------------------------
(* A worker thread.                                                         *)

(* Mutant of PublishLoop: nobody is notified.                                *)
PublishLoopQuietly(w) ==
    /\ threadPc[w] = "ThreadFunc"
    /\ m_loop' = [m_loop EXCEPT ![w] = w]
    /\ threadPc' = [threadPc EXCEPT ![w] = "notified"]
    /\ UNCHANGED <<mainPc, m_vecLoops>>

(* The block of ThreadFunc: m_loop is set and m_Cond notified.               *)
PublishLoop(w) ==
    /\ threadPc[w] = "ThreadFunc"
    /\ m_loop' = [m_loop EXCEPT ![w] = w]
    /\ mainPc' = IF mainPc = "wait" /\ Starting = w THEN "test" ELSE mainPc
    /\ threadPc' = [threadPc EXCEPT ![w] = "notified"]
    /\ UNCHANGED m_vecLoops

EnterLoop(w) ==
    /\ threadPc[w] = "notified"
    /\ threadPc' = [threadPc EXCEPT ![w] = "loop"]
    /\ UNCHANGED <<mainPc, m_loop, m_vecLoops>>

MainStarts     == CreateThread \/ TestLoop \/ ReturnLoop \/ listen
ThreadFunc(w)  == PublishLoop(w) \/ EnterLoop(w)

-----------------------------------------------------------------------------
StartupTypeOK ==
    /\ mainPc \in MainPCs
    /\ threadPc \in [Workers -> ThreadPCs]
    /\ m_loop \in [Workers -> Workers \cup {None}]
    /\ m_vecLoops \in Seq(Workers \cup {None})

(* Whatever wakes StartLoop, and however late a thread comes to ThreadFunc,  *)
(* the pool holds the loop of each worker started, in order: getNextLoop    *)
(* never hands out NULL, nor a loop that has not been constructed.          *)
PoolHoldsLoops ==
    \A i \in DOMAIN m_vecLoops : m_vecLoops[i] = i /\ threadPc[i] \in {"notified", "loop"}

(* The handshakes end and the server listens: no notification comes too      *)
(* early to be noticed.                                                     *)
StartupEnds == <>(mainPc = "loop")
=============================================================================
