----------------------------- MODULE IOManager -----------------------------
(***************************************************************************)
(* monsoon::IOManager and monsoon::TimerManager: the events fibers and     *)
(* callbacks wait for on file descriptors, the ordered set of timers, and  *)
(* idle(), in which a thread without a task waits for either.              *)
(*                                                                         *)
(* Time is relative: a timer carries the time left until next_, a thread   *)
(* in epoll_wait the time left until its time-out, and Elapse lets one     *)
(* unit pass.  The monotonic clock never turns back, so that               *)
(* detectClockRolllover is always false.  The kernel (epoll, the pipe,     *)
(* what a descriptor is ready for) is external and modelled from its use:  *)
(* edge-triggered, a descriptor is reported once per registration or       *)
(* change of its readiness.                                                *)
(***************************************************************************)
EXTENDS Scheduler, Integers

CONSTANTS
    Fd,
    MAX_TIMEOUT,    \* the longest wait in epoll_wait (5000 ms in the code)
    INT_MAX         \* the largest int

ASSUME FdAssumption == IsFiniteSet(Fd)
ASSUME TimeoutAssumption == MAX_TIMEOUT \in Nat /\ INT_MAX \in Nat /\ MAX_TIMEOUT <= INT_MAX

VARIABLES
    timers_,            \* Seq of [work, due], the earliest first
    tickled_,           \* TimerManager::tickled_
    fdContexts_,        \* who waits for READ and for WRITE on each descriptor
    pendingEventCnt_,
    pipe,               \* tickleFds_: "empty", "edge" (to be reported) or "seen"
    ready,              \* kernel: EPOLLIN, EPOLLOUT and EPOLLERR of each descriptor
    edge,               \* kernel: descriptors epoll_wait has to report
    wait,               \* time left in epoll_wait, negative when it has no end
    reported            \* what epoll_wait has returned and idle() not yet handled

ioVars == <<timers_, tickled_, fdContexts_, pendingEventCnt_, pipe, ready, edge, wait, reported>>

Event == {"READ", "WRITE"}
EPOLL(evs) == {IF e = "READ" THEN "IN" ELSE "OUT" : e \in evs}

\* FdContext::events.
events(fd) == {e \in Event : fdContexts_[fd][e] # NoWork}

IOManagerInit ==
    /\ timers_ = <<>>
    /\ tickled_ = FALSE
    /\ fdContexts_ = [fd \in Fd |-> [e \in Event |-> NoWork]]
    /\ pendingEventCnt_ = 0
    /\ pipe = "empty"
    /\ ready = [fd \in Fd |-> {"OUT"}]
    /\ edge = {}
    /\ wait = [t \in Thread |-> 0]
    /\ reported = [t \in Thread |-> {}]

\* IOManager::tickle: nothing is written when no thread is counted as idle.
tickle(needed) == pipe' = IF needed /\ idleThreadCnt_ > 0 THEN "edge" ELSE pipe

\* epoll_ctl with a new set of events: the descriptor is reported if it is ready for one.
epoll_ctl(fd, evs) ==
    edge' = IF evs # {} /\ ready[fd] \cap (EPOLL(evs) \cup {"ERR"}) # {}
            THEN edge \cup {fd} ELSE edge \ {fd}

-----------------------------------------------------------------------------
(* Events.                                                                 *)

addEvent(fd, e, w) ==
    /\ panic' = (panic \/ e \in events(fd))
    /\ fdContexts_' = [fdContexts_ EXCEPT ![fd][e] = w]
    /\ pendingEventCnt_' = pendingEventCnt_ + 1
    /\ epoll_ctl(fd, events(fd) \cup {e})

\* epoll_ctl fails: nothing is registered.
addEventFails(fd, e) ==
    /\ panic' = (panic \/ e \in events(fd))
    /\ UNCHANGED <<fdContexts_, pendingEventCnt_, edge>>

\* The work that triggerEvent schedules for a set of events, READ before WRITE.
triggered(fd, evs) ==
    LET ctx(e) == IF e \in evs \cap events(fd) THEN <<fdContexts_[fd][e]>> ELSE <<>>
    IN  ctx("READ") \o ctx("WRITE")

\* triggerEvent for each of evs, with the epoll_ctl and the count of its callers.
triggerEvents(fd, evs) ==
    /\ panic' = (panic \/ ~(evs \subseteq events(fd)))
    /\ tasks_' = Scheduled(triggered(fd, evs))
    /\ tickle(isNeedTickle(triggered(fd, evs)))
    /\ fdContexts_' = [fdContexts_ EXCEPT ![fd] = [e \in Event |-> IF e \in evs THEN NoWork ELSE @[e]]]
    /\ pendingEventCnt_' = pendingEventCnt_ - Cardinality(evs)
    /\ epoll_ctl(fd, events(fd) \ evs)

cancelEvent(fd, e) ==
    IF e \in events(fd)
    THEN triggerEvents(fd, {e})
    ELSE UNCHANGED <<panic, tasks_, pipe, fdContexts_, pendingEventCnt_, edge>>

\* Mutant: the events are forgotten, not triggered.
cancelAll_Mutant(fd) ==
    /\ fdContexts_' = [fdContexts_ EXCEPT ![fd] = [e \in Event |-> NoWork]]
    /\ pendingEventCnt_' = pendingEventCnt_ - Cardinality(events(fd))
    /\ epoll_ctl(fd, {})
    /\ UNCHANGED <<panic, tasks_, pipe>>

cancelAll(fd) ==
    IF events(fd) # {}
    THEN triggerEvents(fd, events(fd))
    ELSE UNCHANGED <<panic, tasks_, pipe, fdContexts_, pendingEventCnt_, edge>>

-----------------------------------------------------------------------------
(* Timers.                                                                 *)

\* Mutant: the new timer goes to the end.
addTimer_Mutant(w, ms) ==
    /\ timers_' = Append(timers_, [work |-> w, due |-> ms])
    /\ UNCHANGED <<tickled_, pipe>>

\* TimerManager::addTimer; timers for the same time are ordered by address.
addTimer(w, ms) ==
    \E i \in 1 .. Len(timers_) + 1 :
        /\ \A j \in DOMAIN timers_ : IF j < i THEN timers_[j].due <= ms ELSE timers_[j].due >= ms
        /\ timers_' = InsertAt(timers_, i, [work |-> w, due |-> ms])
        /\ tickled_' = (tickled_ \/ i = 1)
        /\ tickle(i = 1 /\ ~tickled_)

\* Timer::cancel: a timer that has expired is no longer in the set.
cancelTimer(w) ==
    LET found == {i \in DOMAIN timers_ : timers_[i].work = w}
    IN  IF found = {} THEN UNCHANGED timers_ ELSE \E i \in found : timers_' = RemoveAt(timers_, i)

\* Mutant: the wait is unbounded when there is no timer.
nextTimeout_Mutant == IF timers_ = <<>> THEN -1 ELSE timers_[1].due

\* (int) of an uint64_t: modulo the range of int.
toInt(n) ==
    LET values == 2 * (INT_MAX + 1)
        rest == n % values
    IN  IF rest <= INT_MAX THEN rest ELSE rest - values

\* getNextTimer, and the least of its (int) and MAX_TIMEOUT: a timer further away than
\* INT_MAX may give a negative number, with which epoll_wait waits without end.
nextTimeout == IF timers_ = <<>> THEN MAX_TIMEOUT ELSE Min({toInt(timers_[1].due), MAX_TIMEOUT})

\* The timers whose time is over in ms.
dueIn(ms) == {i \in DOMAIN timers_ : timers_[i].due <= ms}

\* Mutant: a timer is taken one unit too early.
expired_Mutant == SubSeq(timers_, 1, Cardinality(dueIn(1)))

\* What listExpiredCb takes from the front of the set, and what it leaves.
expired == SubSeq(timers_, 1, Cardinality(dueIn(0)))

unexpired == SubSeq(timers_, Len(expired) + 1, Len(timers_))

-----------------------------------------------------------------------------
(* idle().                                                                 *)

stopping == timers_ = <<>> /\ pendingEventCnt_ = 0 /\ schedulerStopping

\* The head of the loop: stop, or go to sleep for at most MAX_TIMEOUT.
IdleChecks(t) ==
    /\ pc[t] = "idle"
    /\ tickled_' = FALSE
    /\ IF stopping
       THEN LeaveIdle(t, TRUE) /\ UNCHANGED wait
       ELSE /\ wait' = [wait EXCEPT ![t] = nextTimeout]
            /\ pc' = [pc EXCEPT ![t] = "epoll_wait"]
            /\ UNCHANGED <<idleTerm, idleThreadCnt_>>
    /\ UNCHANGED <<tasks_, work, activeThreadCnt_, isStopped_, state_, ctxSaved, panic,
                   timers_, fdContexts_, pendingEventCnt_, pipe, ready, edge, reported>>

\* What the kernel has to report of the descriptors, unless it has been taken meanwhile.
reports ==
    {r \in {[fd |-> fd, mask |-> ready[fd] \cap (EPOLL(events(fd)) \cup {"ERR"})] : fd \in edge} :
        r.mask # {}}

\* epoll_wait returns: something is to be reported or the time is over.
WakeUp(t) ==
    /\ pc[t] = "epoll_wait"
    /\ wait[t] = 0 \/ reports # {} \/ pipe = "edge"
    /\ reported' = [reported EXCEPT ![t] =
           reports
           \cup (IF pipe = "edge" THEN {[fd |-> "pipe", mask |-> {"IN"}]} ELSE {})]
    /\ edge' = {}
    /\ pipe' = IF pipe = "edge" THEN "seen" ELSE pipe
    /\ wait' = [wait EXCEPT ![t] = 0]
    /\ pc' = [pc EXCEPT ![t] = "expired"]
    /\ UNCHANGED <<tasks_, work, idleTerm, activeThreadCnt_, idleThreadCnt_, isStopped_, state_,
                   ctxSaved, panic, timers_, tickled_, fdContexts_, pendingEventCnt_, ready>>

\* listExpiredCb and the scheduling of the callbacks.
ScheduleExpired(t) ==
    /\ pc[t] = "expired"
    /\ LET works == [i \in DOMAIN expired |-> expired[i].work]
       IN  tasks_' = Scheduled(works) /\ tickle(isNeedTickle(works))
    /\ timers_' = unexpired
    /\ pc' = [pc EXCEPT ![t] = "events"]
    /\ UNCHANGED <<work, idleTerm, activeThreadCnt_, idleThreadCnt_, isStopped_, state_, ctxSaved, panic,
                   tickled_, fdContexts_, pendingEventCnt_, ready, edge, wait, reported>>

\* The events of one report: an error counts as both, unless nobody waits for them.
real_events(r) ==
    {e \in Event : EPOLL({e}) \subseteq r.mask \/ ("ERR" \in r.mask /\ e \in events(r.fd))}

HandleReport(t) ==
    /\ pc[t] = "events"
    /\ \E r \in reported[t] :
        /\ reported' = [reported EXCEPT ![t] = @ \ {r}]
        /\ IF r.fd = "pipe"
           THEN pipe' = "empty" /\ UNCHANGED <<panic, tasks_, fdContexts_, pendingEventCnt_, edge>>
           ELSE IF events(r.fd) \cap real_events(r) = {}
           THEN UNCHANGED <<panic, tasks_, pipe, fdContexts_, pendingEventCnt_, edge>>
           ELSE triggerEvents(r.fd, real_events(r))
    /\ UNCHANGED <<pc, work, idleTerm, activeThreadCnt_, idleThreadCnt_, isStopped_, state_, ctxSaved,
                   timers_, tickled_, ready, wait>>

\* All reports are handled: the idle fiber yields.
IdleYields(t) ==
    /\ pc[t] = "events"
    /\ reported[t] = {}
    /\ LeaveIdle(t, FALSE)
    /\ UNCHANGED <<tasks_, work, activeThreadCnt_, isStopped_, state_, ctxSaved, panic, ioVars>>

IdleStep(t) == IdleChecks(t) \/ WakeUp(t) \/ ScheduleExpired(t) \/ HandleReport(t) \/ IdleYields(t)

-----------------------------------------------------------------------------
(* The steps of run(), with the tickle that follows taking a task.         *)

RunStep(t) ==
    \/ /\ TakeTask(t) \/ FindNothing(t)
       /\ tickle(tickle_me(t))
       /\ UNCHANGED <<timers_, tickled_, fdContexts_, pendingEventCnt_, ready, edge, wait, reported>>
    \/ /\ GoIdle(t) \/ Resume(t) \/ SwapBack(t)
       /\ UNCHANGED ioVars

\* One unit of time passes.
Elapse ==
    /\ \/ \E i \in DOMAIN timers_ : timers_[i].due > 0
       \/ \E t \in Thread : wait[t] > 0
    /\ timers_' = [i \in DOMAIN timers_ |-> [timers_[i] EXCEPT !.due = Max({@ - 1, 0})]]
    /\ wait' = [t \in Thread |-> IF wait[t] > 0 THEN wait[t] - 1 ELSE wait[t]]
    /\ UNCHANGED <<schedulerVars, tickled_, fdContexts_, pendingEventCnt_, pipe, ready, edge, reported>>

\* A descriptor becomes ready for something, or its peer closes it.
BecomesReady(fd, bit) ==
    /\ bit \notin ready[fd]
    /\ ready' = [ready EXCEPT ![fd] = @ \cup {bit}]
    /\ edge' = IF events(fd) # {} /\ bit \in EPOLL(events(fd)) \cup {"ERR"} THEN edge \cup {fd} ELSE edge
    /\ UNCHANGED <<schedulerVars, timers_, tickled_, fdContexts_, pendingEventCnt_, pipe, wait, reported>>

IOManagerTypeOK ==
    /\ timers_ \in Seq([work : Work, due : Nat])
    /\ \A i \in 1 .. Len(timers_) - 1 : timers_[i].due <= timers_[i + 1].due
    /\ tickled_ \in BOOLEAN
    /\ fdContexts_ \in [Fd -> [Event -> Work \cup {NoWork}]]
    /\ pendingEventCnt_ \in Int
    /\ pipe \in {"empty", "edge", "seen"}
    /\ ready \in [Fd -> SUBSET {"IN", "OUT", "ERR"}]
    /\ edge \subseteq Fd
    /\ wait \in [Thread -> Int]
    /\ \A t \in Thread : \A r \in reported[t] : r.fd \in Fd \cup {"pipe"}
=============================================================================
