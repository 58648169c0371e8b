------------------------------ MODULE EventLoop ------------------------------
(***************************************************************************)
(* src/net/EventLoop.cpp: how work is handed to a loop's thread.  Other    *)
(* threads, and the loop's own callbacks, queue functors; the loop polls,  *)
(* handles its active channels, then runs what was queued.  Only the       *)
(* wakeup channel is modelled; what the functors and the other channels'   *)
(* handlers do is a queueInLoop of their own, or nothing.                  *)
(***************************************************************************)
EXTENDS Naturals, Sequences

CONSTANTS Posters,     (* the threads other than the loop's                  *)
          Loop,        (* the loop's thread                                  *)
          Functors,    (* what may be queued                                 *)
          NoFunctor,
          MaxQueued    (* bound: functors queued and not yet run             *)

ASSUME LoopAssumption ==
    /\ Loop \notin Posters
    /\ NoFunctor \notin Functors
    /\ MaxQueued \in Nat \ {0}

Threads == Posters \cup {Loop}

VARIABLES m_vecPendingFunctor,      (* queued, under m_mutex                 *)
          vecFunctors,              (* swapped out and not yet run           *)
          current,                  (* the functor that is running           *)
          m_bCallingPendingFunctor,
          m_wakeupFd,               (* the eventfd is readable               *)
          wakeupActive,             (* the wakeup channel is in the active list *)
          loopPc,                   (* where the loop is                     *)
          posting                   (* threads between push_back and the wakeUp test *)

vars == <<m_vecPendingFunctor, vecFunctors, current, m_bCallingPendingFunctor,
          m_wakeupFd, wakeupActive, loopPc, posting>>

LoopPCs == {"poll", "handle", "run"}

(* The constructor leaves m_bCallingPendingFunctor uninitialized.           *)
Init ==
    /\ m_vecPendingFunctor = <<>>
    /\ vecFunctors = <<>>
    /\ current = NoFunctor
    /\ m_bCallingPendingFunctor \in BOOLEAN
    /\ m_wakeupFd = FALSE
    /\ wakeupActive = FALSE
    /\ loopPc = "poll"
    /\ posting = {}

(* The loop's thread runs code of a callback: it handles a channel or runs  *)
(* a functor, and is not itself inside queueInLoop.                         *)
InCallback == loopPc = "handle" \/ (loopPc = "run" /\ current # NoFunctor)

-----------------------------------------------------------------------------
(* queueInLoop, and runInLoop from another thread.                          *)

PushPending(t, f) ==
    /\ t \notin posting
    /\ t = Loop => InCallback
    /\ Len(vecFunctors) + Len(m_vecPendingFunctor) < MaxQueued
    /\ m_vecPendingFunctor' = Append(m_vecPendingFunctor, f)
    /\ posting' = posting \cup {t}
    /\ UNCHANGED <<vecFunctors, current, m_bCallingPendingFunctor, m_wakeupFd,
                   wakeupActive, loopPc>>

(* Mutant of WakeUp: a callback's own functor is thought to be picked up by  *)
(* the round that is running.                                               *)
WakeUpOthersOnly(t) ==
    /\ t \in posting
    /\ posting' = posting \ {t}
    /\ m_wakeupFd' = (m_wakeupFd \/ t # Loop)
    /\ UNCHANGED <<m_vecPendingFunctor, vecFunctors, current, m_bCallingPendingFunctor,
                   wakeupActive, loopPc>>

(* The eventfd is written unless the loop's own thread is handling events.  *)
WakeUp(t) ==
    /\ t \in posting
    /\ posting' = posting \ {t}
    /\ m_wakeupFd' = (m_wakeupFd \/ t # Loop \/ m_bCallingPendingFunctor)
    /\ UNCHANGED <<m_vecPendingFunctor, vecFunctors, current, m_bCallingPendingFunctor,
                   wakeupActive, loopPc>>

-----------------------------------------------------------------------------
(* loop().                                                                  *)

LoopRuns == Loop \notin posting

(* poll returns after a millisecond even if nothing is active.              *)
Poll ==
    /\ loopPc = "poll"
    /\ wakeupActive' = m_wakeupFd
    /\ loopPc' = "handle"
    /\ UNCHANGED <<m_vecPendingFunctor, vecFunctors, current, m_bCallingPendingFunctor,
                   m_wakeupFd, posting>>

(* The wakeup channel's handler reads the eventfd empty.                    *)
handleRead ==
    /\ loopPc = "handle" /\ LoopRuns
    /\ wakeupActive
    /\ wakeupActive' = FALSE
    /\ m_wakeupFd' = FALSE
    /\ UNCHANGED <<m_vecPendingFunctor, vecFunctors, current, m_bCallingPendingFunctor,
                   loopPc, posting>>

(* Mutant of StartFunctors: the batch is run from its last functor to its    *)
(* first.                                                                   *)
StartFunctorsReversed ==
    /\ loopPc = "handle" /\ LoopRuns
    /\ ~wakeupActive
    /\ m_bCallingPendingFunctor' = TRUE
    /\ vecFunctors' = [i \in DOMAIN m_vecPendingFunctor |->
                         m_vecPendingFunctor[Len(m_vecPendingFunctor) + 1 - i]]
    /\ m_vecPendingFunctor' = <<>>
    /\ loopPc' = "run"
    /\ UNCHANGED <<current, m_wakeupFd, wakeupActive, posting>>

(* doPendingFunctors: the flag is set, the queue swapped out under m_mutex. *)
StartFunctors ==
    /\ loopPc = "handle" /\ LoopRuns
    /\ ~wakeupActive
    /\ m_bCallingPendingFunctor' = TRUE
    /\ vecFunctors' = m_vecPendingFunctor
    /\ m_vecPendingFunctor' = <<>>
    /\ loopPc' = "run"
    /\ UNCHANGED <<current, m_wakeupFd, wakeupActive, posting>>

CallFunctor ==
    /\ loopPc = "run" /\ LoopRuns
    /\ current = NoFunctor
    /\ vecFunctors # <<>>
    /\ current' = Head(vecFunctors)
    /\ vecFunctors' = Tail(vecFunctors)
    /\ UNCHANGED <<m_vecPendingFunctor, m_bCallingPendingFunctor, m_wakeupFd,
                   wakeupActive, loopPc, posting>>

FunctorReturns ==
    /\ current # NoFunctor /\ LoopRuns
    /\ current' = NoFunctor
    /\ UNCHANGED <<m_vecPendingFunctor, vecFunctors, m_bCallingPendingFunctor, m_wakeupFd,
                   wakeupActive, loopPc, posting>>

(* Mutant of EndFunctors: the next round starts by emptying the eventfd.     *)
EndFunctorsDraining ==
    /\ loopPc = "run"
    /\ current = NoFunctor
    /\ vecFunctors = <<>>
    /\ m_bCallingPendingFunctor' = FALSE
    /\ m_wakeupFd' = FALSE
    /\ loopPc' = "poll"
    /\ UNCHANGED <<m_vecPendingFunctor, vecFunctors, current, wakeupActive, posting>>

EndFunctors ==
    /\ loopPc = "run"
    /\ current = NoFunctor
    /\ vecFunctors = <<>>
    /\ m_bCallingPendingFunctor' = FALSE
    /\ loopPc' = "poll"
    /\ UNCHANGED <<m_vecPendingFunctor, vecFunctors, current, m_wakeupFd, wakeupActive, posting>>

LoopStep ==
    Poll \/ handleRead \/ StartFunctors \/ CallFunctor \/ FunctorReturns \/ EndFunctors

Next ==
    \/ \E t \in Threads, f \in Functors : PushPending(t, f)
    \/ \E t \in Threads : WakeUp(t)
    \/ LoopStep

Spec == Init /\ [][Next]_vars

(* The loop's thread runs for ever (quit() is empty), and a thread that has  *)
(* queued a functor returns from queueInLoop.                               *)
FairSpec == Spec /\ WF_vars(LoopStep) /\ \A t \in Threads : WF_vars(WakeUp(t))

-----------------------------------------------------------------------------
TypeOK ==
    /\ m_vecPendingFunctor \in Seq(Functors)
    /\ vecFunctors \in Seq(Functors)
    /\ current \in Functors \cup {NoFunctor}
    /\ m_bCallingPendingFunctor \in BOOLEAN
    /\ m_wakeupFd \in BOOLEAN
    /\ wakeupActive \in BOOLEAN
    /\ loopPc \in LoopPCs
    /\ posting \subseteq Threads

(* What is still queued when the loop goes to poll makes poll return at      *)
(* once: the eventfd is readable, or some thread is on its way to write it. *)
(* So no functor waits for the poll timeout.                                *)
PendingIsSignalled ==
    loopPc = "poll" /\ m_vecPendingFunctor # <<>> => m_wakeupFd \/ posting # {}

(* The strengthening under which PendingIsSignalled is inductive: it already *)
(* holds while the functors run, because m_bCallingPendingFunctor is set     *)
(* whatever value the constructor left in it, and the loop's own thread only *)
(* queues from a callback.                                                  *)
Inv ==
    /\ TypeOK
    /\ loopPc \in {"poll", "run"} /\ m_vecPendingFunctor # <<>> => m_wakeupFd \/ posting # {}
    /\ loopPc = "run" => m_bCallingPendingFunctor
    /\ Loop \in posting => InCallback
    /\ current # NoFunctor => loopPc = "run"
    /\ vecFunctors # <<>> => loopPc = "run"

(* The loop as a FIFO: functors run one at a time, each once, in the order   *)
(* in which they were queued, across rounds and queueing threads.           *)
FIFO == INSTANCE RequestQueue WITH
          Requests  <- Functors,
          NoRequest <- NoFunctor,
          Capacity  <- MaxQueued,
          queue     <- vecFunctors \o m_vecPendingFunctor,
          serving   <- current

(* Every behaviour of the threads is one of the FIFO, and what was queued    *)
(* runs.                                                                    *)
RunsInOrder == FIFO!Spec
=============================================================================
