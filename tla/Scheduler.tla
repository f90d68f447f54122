----------------------------- MODULE Scheduler -----------------------------
(***************************************************************************)
(* monsoon::Scheduler and monsoon::Fiber: threads that take tasks from a   *)
(* shared list and run them as fibers, which give their thread back when   *)
(* they yield.  IOManager, which is a Scheduler, adds what a thread does   *)
(* without a task (idle) and how it is woken (tickle); Hook adds what the  *)
(* fibers do.  Their actions are conjoined with the ones below.            *)
(*                                                                         *)
(* A task is work together with the thread it is pinned to.  Work is a     *)
(* callback that gets a fiber of its own ("cb"), a suspended fiber         *)
(* ("fiber"), or the callback of a timer ("wake", "timeout").  Pushing a   *)
(* task and the tickle that follows it are one step: a tickle that comes   *)
(* later can only wake a thread that has looked at the list meanwhile.     *)
(***************************************************************************)
EXTENDS Naturals, Sequences, FiniteSets, SequencesExt, FiniteSetsExt

CONSTANTS
    Thread,     \* the threads that execute Scheduler::run
    Fiber,      \* the callbacks given to the scheduler, each with its fiber
    AnyThread,  \* SchedulerTask::thread_ = -1
    NoWork      \* an empty SchedulerTask

VARIABLES
    tasks_,             \* Seq of [work, thread]
    pc,                 \* where each thread is in run() and idle()
    work,               \* the task each thread has taken
    idleTerm,           \* the idle fiber of the thread has terminated
    activeThreadCnt_,
    idleThreadCnt_,
    isStopped_,
    state_,             \* Fiber::state_
    ctxSaved,           \* swapcontext has saved the context of the fiber
    panic               \* a CondPanic has failed, or a context was resumed twice

schedulerVars ==
    <<tasks_, pc, work, idleTerm, activeThreadCnt_, idleThreadCnt_, isStopped_, state_, ctxSaved, panic>>

Work ==
    [kind : {"cb", "fiber", "wake", "timeout"}, fiber : Fiber, call : Nat]

ASSUME ThreadAssumption == IsFiniteSet(Thread)
ASSUME WorkAssumption == NoWork \notin Work

CbWork(f) == [kind |-> "cb", fiber |-> f, call |-> 0]
FiberWork(f) == [kind |-> "fiber", fiber |-> f, call |-> 0]

\* Scheduler::scheduler of several pieces of work in turn, none of them pinned.
Scheduled(works) == tasks_ \o [i \in DOMAIN works |-> [work |-> works[i], thread |-> AnyThread]]

\* schedulerNoLock: only the task that ends an empty list asks for a tickle.
isNeedTickle(works) == tasks_ = <<>> /\ works # <<>>

-----------------------------------------------------------------------------
(* One turn of the loop of run().                                          *)

Runnable(t) == {i \in DOMAIN tasks_ : tasks_[i].thread \in {AnyThread, t}}

\* A task was left for another thread, or one is left behind the one taken.
tickle_me(t) == IF Runnable(t) = {} THEN tasks_ # <<>> ELSE Len(tasks_) > 1

TakeTask(t) ==
    /\ pc[t] = "run"
    /\ Runnable(t) # {}
    /\ LET i == Min(Runnable(t))
           w == tasks_[i].work
       IN  /\ panic' = (panic \/ (w.kind = "fiber" /\ state_[w.fiber] # "READY"))
           /\ tasks_' = RemoveAt(tasks_, i)
           /\ work' = [work EXCEPT ![t] = w]
    /\ activeThreadCnt_' = activeThreadCnt_ + 1
    /\ pc' = [pc EXCEPT ![t] = "resume"]
    /\ UNCHANGED <<idleTerm, idleThreadCnt_, isStopped_, state_, ctxSaved>>

FindNothing(t) ==
    /\ pc[t] = "run"
    /\ Runnable(t) = {}
    /\ pc' = [pc EXCEPT ![t] = "noTask"]
    /\ UNCHANGED <<tasks_, work, idleTerm, activeThreadCnt_, idleThreadCnt_, isStopped_, state_,
                   ctxSaved, panic>>

\* Mutant: the thread does not leave when its idle fiber has terminated.
GoIdle_Mutant(t) ==
    /\ pc[t] = "noTask"
    /\ pc' = [pc EXCEPT ![t] = "idle"] /\ idleThreadCnt_' = idleThreadCnt_ + 1
    /\ UNCHANGED <<tasks_, work, idleTerm, activeThreadCnt_, isStopped_, state_, ctxSaved, panic>>

\* Until idleThreadCnt_ counts the thread, no tickle is meant for it.
GoIdle(t) ==
    /\ pc[t] = "noTask"
    /\ IF idleTerm[t]
       THEN pc' = [pc EXCEPT ![t] = "exit"] /\ UNCHANGED idleThreadCnt_
       ELSE pc' = [pc EXCEPT ![t] = "idle"] /\ idleThreadCnt_' = idleThreadCnt_ + 1
    /\ UNCHANGED <<tasks_, work, idleTerm, activeThreadCnt_, isStopped_, state_, ctxSaved, panic>>

\* Mutant: a thread whose idle fiber returns stays counted.
LeaveIdle_Mutant(t, terminated) ==
    /\ idleTerm' = [idleTerm EXCEPT ![t] = terminated]
    /\ idleThreadCnt_' = IF terminated THEN idleThreadCnt_ ELSE idleThreadCnt_ - 1
    /\ pc' = [pc EXCEPT ![t] = "run"]

\* The idle fiber yields, or returns when the scheduler stops.
LeaveIdle(t, terminated) ==
    /\ idleTerm' = [idleTerm EXCEPT ![t] = terminated]
    /\ idleThreadCnt_' = idleThreadCnt_ - 1
    /\ pc' = [pc EXCEPT ![t] = "run"]

\* A callback that neither blocks nor yields runs to its end on the cbFiber.
\* Its effects on the list of tasks are the caller's.
FinishCallback(t) ==
    /\ activeThreadCnt_' = activeThreadCnt_ - 1
    /\ work' = [work EXCEPT ![t] = NoWork]
    /\ pc' = [pc EXCEPT ![t] = "run"]

-----------------------------------------------------------------------------
(* Fibers.                                                                 *)

\* Fiber::resume, of a suspended fiber or of the fiber made for a callback.
Resume(t) ==
    /\ pc[t] = "resume"
    /\ work[t].kind \in {"cb", "fiber"}
    /\ LET f == work[t].fiber
       IN  /\ panic' = (panic \/ state_[f] \in {"TERM", "RUNNING"} \/ ~ctxSaved[f])
           /\ state_' = [state_ EXCEPT ![f] = "RUNNING"]
           /\ ctxSaved' = [ctxSaved EXCEPT ![f] = FALSE]
    /\ pc' = [pc EXCEPT ![t] = "fiber"]
    /\ UNCHANGED <<tasks_, work, idleTerm, activeThreadCnt_, idleThreadCnt_, isStopped_>>

\* Mutant: yield leaves the fiber RUNNING.
LeaveFiber_Mutant(t, newState) ==
    /\ state_' = [state_ EXCEPT ![work[t].fiber] = IF newState = "TERM" THEN "TERM" ELSE @]
    /\ pc' = [pc EXCEPT ![t] = "swap"]
    /\ UNCHANGED <<tasks_, work, idleTerm, activeThreadCnt_, idleThreadCnt_, isStopped_, ctxSaved, panic>>

\* The first half of Fiber::yield, and of MainFunc when the callback has returned.
LeaveFiber(t, newState) ==
    /\ state_' = [state_ EXCEPT ![work[t].fiber] = newState]
    /\ pc' = [pc EXCEPT ![t] = "swap"]
    /\ UNCHANGED <<tasks_, work, idleTerm, activeThreadCnt_, idleThreadCnt_, isStopped_, ctxSaved, panic>>

\* The second half: the context is saved and run() goes on behind resume().
SwapBack(t) ==
    /\ pc[t] = "swap"
    /\ ctxSaved' = [ctxSaved EXCEPT ![work[t].fiber] = TRUE]
    /\ FinishCallback(t)
    /\ UNCHANGED <<tasks_, idleTerm, idleThreadCnt_, isStopped_, state_, panic>>

-----------------------------------------------------------------------------
(* Start and stop.                                                         *)

\* The threads of the pool run; the calling thread, if it is to be used, does so in stop().
SchedulerInit(pool, caller) ==
    /\ tasks_ = <<>>
    /\ pc = [t \in Thread |-> IF t \in pool THEN "run" ELSE IF t \in caller THEN "caller" ELSE "exit"]
    /\ work = [t \in Thread |-> NoWork]
    /\ idleTerm = [t \in Thread |-> FALSE]
    /\ activeThreadCnt_ = 0
    /\ idleThreadCnt_ = 0
    /\ isStopped_ = FALSE
    /\ state_ = [f \in Fiber |-> "READY"]
    /\ ctxSaved = [f \in Fiber |-> TRUE]
    /\ panic = FALSE

schedulerStopping == isStopped_ /\ tasks_ = <<>> /\ activeThreadCnt_ = 0

\* scheduler(cb, thread), called from outside.
Schedule(f, thread) ==
    /\ tasks_' = Append(tasks_, [work |-> CbWork(f), thread |-> thread])
    /\ UNCHANGED <<pc, work, idleTerm, activeThreadCnt_, idleThreadCnt_, isStopped_, state_, ctxSaved, panic>>

\* stop(): the calling thread runs the root fiber, or waits for the pool in join().
StopScheduler ==
    /\ ~isStopped_
    /\ isStopped_' = TRUE
    /\ pc' = [t \in Thread |-> IF pc[t] = "caller" THEN "run" ELSE pc[t]]
    /\ UNCHANGED <<tasks_, work, idleTerm, activeThreadCnt_, idleThreadCnt_, state_, ctxSaved, panic>>

SchedulerTypeOK ==
    /\ tasks_ \in Seq([work : Work, thread : Thread \cup {AnyThread}])
    /\ pc \in [Thread -> {"run", "resume", "fiber", "swap", "noTask", "idle", "epoll_wait",
                          "expired", "events", "caller", "exit"}]
    /\ work \in [Thread -> Work \cup {NoWork}]
    /\ idleTerm \in [Thread -> BOOLEAN]
    /\ activeThreadCnt_ \in Nat /\ idleThreadCnt_ \in Nat
    /\ isStopped_ \in BOOLEAN /\ panic \in BOOLEAN
    /\ state_ \in [Fiber -> {"READY", "RUNNING", "TERM"}]
    /\ ctxSaved \in [Fiber -> BOOLEAN]
=============================================================================
