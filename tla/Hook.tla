-------------------------------- MODULE Hook --------------------------------
(***************************************************************************)
(* hook.cpp and fd_manager.cpp: system calls of a fiber that give the      *)
(* thread to other fibers instead of blocking it, composed with the        *)
(* scheduler and the IOManager into the fiber runtime.                     *)
(*                                                                         *)
(* A setup says which threads run, what every fiber does and which fibers  *)
(* the main thread schedules before it calls stop().  A fiber executes a   *)
(* list of calls, once or (sleep only) for ever.  Reading and writing      *)
(* stand for all calls that go through do_io with READ and with WRITE.     *)
(* The options of a descriptor are set by the fiber that waits on it:      *)
(* do_io reads them once per call, the model at every try.                 *)
(*                                                                         *)
(* Callers give sleep, usleep, nanosleep and setsockopt a time in parts of *)
(* a millisecond (microseconds in the code); timers, connect and the clock *)
(* count milliseconds.                                                     *)
(***************************************************************************)
EXTENDS IOManager

CONSTANTS
    Setups,     \* records [pool, caller, prog, loops, main, stops, bits, full], see MCFibers
    NoTimeout,  \* a time-out of -1
    PartsPerMs  \* the parts of a millisecond a caller can ask for (1000 in the code)

ASSUME PartsAssumption == PartsPerMs \in Nat \ {0}

\* usec / 1000, tv_nsec / 1000 / 1000, tv_usec / 1000: what is left over is dropped.
toMs(time) == time \div PartsPerMs

\* What a call is given: a descriptor, a time, a flag, a callback.  sleep and nanosleep
\* compute milliseconds in 32 bits: longer times (24 days) are left out.
WellFormed(i) ==
    /\ i.op # "sleep" => i.fd \in Fd
    /\ i.op \in {"sleep", "recvTimeout", "sendTimeout"} => i.time \in Nat
    /\ i.op = "sleep" => toMs(i.time) <= INT_MAX
    /\ i.op = "connect" => i.ms \in Nat \cup {NoTimeout}
    /\ i.op \in {"fcntl", "ioctl"} => i.flag \in BOOLEAN
    /\ i.op = "watch" => i.cb \in Fiber

ASSUME SetupAssumption ==
    \A s \in Setups :
        /\ s.main \in Seq([fiber : Fiber, thread : Thread \cup {AnyThread}])
        /\ \A f \in Fiber : \A i \in DOMAIN s.prog[f] : WellFormed(s.prog[f][i])

VARIABLES
    setup,
    toSchedule,     \* what the main thread still has to schedule
    at,             \* the call each fiber is in
    phase,          \* and how far it is in it
    cnacelled,      \* timer_info::cnacelled of that call
    fdCtx,          \* FdCtx of each descriptor, with O_NONBLOCK and the time-outs the kernel has
    waited,         \* history: time since the call began to wait
    result          \* history: outcome of the last call

hookVars == <<setup, toSchedule, at, phase, cnacelled, fdCtx, waited, result>>
vars == <<schedulerVars, ioVars, hookVars>>

Instr(f) == setup.prog[f][at[f]]
TimeoutWork(f) == [kind |-> "timeout", fiber |-> f, call |-> at[f]]
WakeWork(f) == [kind |-> "wake", fiber |-> f, call |-> 0]

\* Thread t is in fiber f, in a call of this kind and at this point of it.
Calls(t, f, ops, ph) ==
    /\ pc[t] = "fiber"
    /\ work[t].fiber = f
    /\ at[f] \in DOMAIN setup.prog[f]
    /\ Instr(f).op \in ops
    /\ phase[f] = ph

\* The scheduler's variables that code running in a fiber leaves alone.
inFiber == UNCHANGED <<pc, work, idleTerm, activeThreadCnt_, idleThreadCnt_, isStopped_, state_, ctxSaved,
                       wait, reported, setup, toSchedule>>

\* The call returns; the next one begins.
Return(f, out) ==
    /\ result' = [result EXCEPT ![f] = out]
    /\ at' = [at EXCEPT ![f] = @ + 1]
    /\ phase' = [phase EXCEPT ![f] = "call"]
    /\ cnacelled' = [cnacelled EXCEPT ![f] = FALSE]
    /\ waited' = [waited EXCEPT ![f] = 0]

\* The call goes on.
Continue(f, ph) ==
    /\ phase' = [phase EXCEPT ![f] = ph]
    /\ UNCHANGED <<at, cnacelled, waited, result>>

-----------------------------------------------------------------------------
(* sleep, usleep, nanosleep: a timer that schedules the fiber, then yield. *)

SleepBegins(t, f) ==
    /\ Calls(t, f, {"sleep"}, "call")
    /\ addTimer(WakeWork(f), toMs(Instr(f).time))
    /\ Continue(f, "yield")
    /\ inFiber
    /\ UNCHANGED <<tasks_, panic, fdContexts_, pendingEventCnt_, ready, edge, fdCtx>>

SleepEnds(t, f) ==
    /\ Calls(t, f, {"sleep"}, "resumed")
    /\ Return(f, "ok")
    /\ inFiber
    /\ UNCHANGED <<tasks_, panic, timers_, tickled_, fdContexts_, pendingEventCnt_, pipe, ready, edge, fdCtx>>

-----------------------------------------------------------------------------
(* do_io and connect_with_timeout.                                         *)

EventOf(op) == IF op = "read" THEN "READ" ELSE "WRITE"

\* FdCtx::getTimeout, or the time-out of connect.
TimeoutOf(f) ==
    CASE Instr(f).op = "read" -> fdCtx[Instr(f).fd].recvTimeout
      [] Instr(f).op = "write" -> fdCtx[Instr(f).fd].sendTimeout
      [] Instr(f).op = "connect" -> Instr(f).ms

\* The system call itself, on a descriptor that does not block: what it returns.
SystemCall(f) ==
    LET fd == Instr(f).fd IN
    IF ~fdCtx[fd].open THEN "badf"
    ELSE IF "ERR" \in ready[fd] THEN "err"
    ELSE IF EPOLL({EventOf(Instr(f).op)}) \subseteq ready[fd] THEN "ok"
    ELSE "again"

\* The call succeeds, fails, or would block and the user asked to be told.  What was
\* there to read is read; writing may fill the buffer.
IoReturns(t, f) ==
    LET out == SystemCall(f)
        fd == Instr(f).fd
    IN
    /\ Calls(t, f, {"read", "write", "connect"}, "call")
    /\ out # "again" \/ fdCtx[fd].userNonblock
    /\ Return(f, out)
    /\ IF out = "ok" /\ Instr(f).op = "read"
       THEN ready' = [ready EXCEPT ![fd] = @ \ {"IN"}]
       ELSE IF out = "ok" /\ Instr(f).op = "write"
       THEN ready' \in {ready, [ready EXCEPT ![fd] = @ \ {"OUT"}]}
       ELSE UNCHANGED ready
    /\ inFiber
    /\ UNCHANGED <<tasks_, panic, timers_, tickled_, fdContexts_, pendingEventCnt_, pipe, edge, fdCtx>>

\* EAGAIN or EINPROGRESS: first the condition timer, if there is a time-out ...
\* (without O_NONBLOCK the call would block the thread instead).
IoWouldBlock(t, f) ==
    /\ Calls(t, f, {"read", "write", "connect"}, "call")
    /\ SystemCall(f) = "again" /\ ~fdCtx[Instr(f).fd].userNonblock
    /\ fdCtx[Instr(f).fd].nonblock
    /\ IF TimeoutOf(f) = NoTimeout
       THEN UNCHANGED <<timers_, tickled_, pipe>>
       ELSE addTimer(TimeoutWork(f), TimeoutOf(f))
    /\ Continue(f, "addEvent")
    /\ inFiber
    /\ UNCHANGED <<tasks_, panic, fdContexts_, pendingEventCnt_, ready, edge, fdCtx>>

\* ... then the event, for which the fiber waits.
IoAddsEvent(t, f) ==
    /\ Calls(t, f, {"read", "write", "connect"}, "addEvent")
    /\ fdCtx[Instr(f).fd].open
    /\ addEvent(Instr(f).fd, EventOf(Instr(f).op), FiberWork(f))
    /\ Continue(f, "yield")
    /\ inFiber
    /\ UNCHANGED <<tasks_, timers_, tickled_, pipe, ready, fdCtx>>

\* epoll_ctl fails for a descriptor that is closed, or when there are too many.
Refused(fd) == ~fdCtx[fd].open \/ setup.full

\* getsockopt(SO_ERROR), by which connect ends.
SocketError(fd) ==
    IF ~fdCtx[fd].open THEN "badf" ELSE IF "ERR" \in ready[fd] THEN "err" ELSE "ok"

\* addEvent returns -1: the timer is cancelled, do_io fails, and connect returns what
\* getsockopt says, although the connection is still being made.
IoAddFails(t, f) ==
    LET i == Instr(f) IN
    /\ Calls(t, f, {"read", "write", "connect"}, "addEvent")
    /\ Refused(i.fd)
    /\ addEventFails(i.fd, EventOf(i.op))
    /\ cancelTimer(TimeoutWork(f))
    /\ Return(f, IF i.op = "connect" THEN SocketError(i.fd) ELSE "err")
    /\ inFiber
    /\ UNCHANGED <<tasks_, tickled_, pipe, ready, fdCtx>>

Yields(t, f) ==
    /\ Calls(t, f, {"sleep", "read", "write", "connect"}, "yield")
    /\ LeaveFiber(t, "READY")
    /\ Continue(f, "resumed")
    /\ UNCHANGED <<ioVars, setup, toSchedule, fdCtx>>

\* Back from yield: the timer is cancelled; a call whose time is over fails, do_io
\* tries again and connect asks for the error of the socket.
IoResumes(t, f) ==
    /\ Calls(t, f, {"read", "write", "connect"}, "resumed")
    /\ cancelTimer(TimeoutWork(f))
    /\ IF cnacelled[f] THEN Return(f, "timeout")
       ELSE IF Instr(f).op = "connect" THEN Return(f, SocketError(Instr(f).fd))
       ELSE Continue(f, "call")
    /\ inFiber
    /\ UNCHANGED <<tasks_, panic, tickled_, fdContexts_, pendingEventCnt_, pipe, ready, edge, fdCtx>>

-----------------------------------------------------------------------------
(* Callbacks of timers, run as tasks.                                      *)

\* The timer of sleep: scheduler(fiber).
RunWake(t) ==
    /\ pc[t] = "resume" /\ work[t].kind = "wake"
    /\ tasks_' = Scheduled(<<FiberWork(work[t].fiber)>>)
    /\ tickle(isNeedTickle(<<FiberWork(work[t].fiber)>>))
    /\ FinishCallback(t)
    /\ UNCHANGED <<idleTerm, idleThreadCnt_, isStopped_, state_, ctxSaved, panic, timers_, tickled_,
                   fdContexts_, pendingEventCnt_, ready, edge, wait, reported, hookVars>>

\* The timer of do_io and connect: nothing when the call is over (the timer_info is
\* gone), otherwise the call is marked and its event cancelled.
RunTimeout(t) ==
    LET f == work[t].fiber IN
    /\ pc[t] = "resume" /\ work[t].kind = "timeout"
    /\ IF at[f] = work[t].call /\ ~cnacelled[f]
       THEN /\ cnacelled' = [cnacelled EXCEPT ![f] = TRUE]
            /\ cancelEvent(Instr(f).fd, EventOf(Instr(f).op))
       ELSE UNCHANGED <<cnacelled, panic, tasks_, pipe, fdContexts_, pendingEventCnt_, edge>>
    /\ FinishCallback(t)
    /\ UNCHANGED <<idleTerm, idleThreadCnt_, isStopped_, state_, ctxSaved, timers_, tickled_, ready,
                   wait, reported, setup, toSchedule, at, phase, fdCtx, waited, result>>

-----------------------------------------------------------------------------
(* Calls that return at once.                                              *)

NewFdCtx == [open |-> TRUE, userNonblock |-> FALSE, nonblock |-> TRUE,
             recvTimeout |-> NoTimeout, sendTimeout |-> NoTimeout,
             SO_RCVTIMEO |-> NoTimeout, SO_SNDTIMEO |-> NoTimeout]

\* addEvent with a callback, which succeeds or fails.
Watch(t, f) ==
    /\ Calls(t, f, {"watch"}, "call")
    /\ fdCtx[Instr(f).fd].open
    /\ addEvent(Instr(f).fd, "READ", CbWork(Instr(f).cb))
    /\ Return(f, "ok")
    /\ inFiber
    /\ UNCHANGED <<tasks_, timers_, tickled_, pipe, ready, fdCtx>>

WatchFails(t, f) ==
    /\ Calls(t, f, {"watch"}, "call")
    /\ Refused(Instr(f).fd)
    /\ addEventFails(Instr(f).fd, "READ")
    /\ Return(f, "err")
    /\ inFiber
    /\ UNCHANGED <<tasks_, timers_, tickled_, pipe, ready, fdCtx>>

\* setsockopt(SO_RCVTIMEO), setsockopt(SO_SNDTIMEO), fcntl(F_SETFL) and ioctl(FIONBIO).
\* The kernel is given the time-out as it is, FdCtx in milliseconds.  A descriptor that
\* is closed has no FdCtx.
\* fcntl keeps O_NONBLOCK for the kernel, whatever the user asks for; ioctl does not.
SetOption(t, f) ==
    LET i == Instr(f) IN
    /\ Calls(t, f, {"recvTimeout", "sendTimeout", "fcntl", "ioctl"}, "call")
    /\ fdCtx' = [fdCtx EXCEPT ![i.fd] =
           IF ~@.open THEN @ ELSE
           CASE i.op = "recvTimeout" -> [@ EXCEPT !.recvTimeout = toMs(i.time), !.SO_RCVTIMEO = i.time]
             [] i.op = "sendTimeout" -> [@ EXCEPT !.sendTimeout = toMs(i.time), !.SO_SNDTIMEO = i.time]
             [] i.op = "fcntl" -> [@ EXCEPT !.userNonblock = i.flag, !.nonblock = TRUE]
             [] i.op = "ioctl" -> [@ EXCEPT !.userNonblock = i.flag, !.nonblock = i.flag]]
    /\ Return(f, IF fdCtx[i.fd].open THEN "ok" ELSE "badf")
    /\ inFiber
    /\ UNCHANGED <<tasks_, panic, timers_, tickled_, fdContexts_, pendingEventCnt_, pipe, ready, edge>>

\* close: whoever waits for the descriptor is woken.
Close(t, f) ==
    /\ Calls(t, f, {"close"}, "call")
    /\ cancelAll(Instr(f).fd)
    /\ fdCtx' = [fdCtx EXCEPT ![Instr(f).fd].open = FALSE]
    /\ Return(f, "ok")
    /\ inFiber
    /\ UNCHANGED <<timers_, tickled_, ready>>

\* socket: the descriptor that was closed is given out again, with a new FdCtx.
Socket(t, f) ==
    /\ Calls(t, f, {"socket"}, "call")
    /\ ~fdCtx[Instr(f).fd].open
    /\ fdCtx' = [fdCtx EXCEPT ![Instr(f).fd] = NewFdCtx]
    /\ ready' = [ready EXCEPT ![Instr(f).fd] = {}]
    /\ Return(f, "ok")
    /\ inFiber
    /\ UNCHANGED <<tasks_, panic, timers_, tickled_, fdContexts_, pendingEventCnt_, pipe, edge>>

\* The last call has returned: MainFunc terminates the fiber, or the loop goes on.
CallbackReturns(t, f) ==
    /\ pc[t] = "fiber" /\ work[t].fiber = f /\ at[f] \notin DOMAIN setup.prog[f]
    /\ IF f \in setup.loops
       THEN /\ at' = [at EXCEPT ![f] = 1]
            /\ UNCHANGED schedulerVars
       ELSE /\ LeaveFiber(t, "TERM")
            /\ UNCHANGED at
    /\ UNCHANGED <<ioVars, setup, toSchedule, phase, cnacelled, fdCtx, waited, result>>

FiberStep(t) ==
    \/ \E f \in Fiber :
        \/ SleepBegins(t, f) \/ SleepEnds(t, f)
        \/ IoReturns(t, f) \/ IoWouldBlock(t, f) \/ IoAddsEvent(t, f) \/ IoAddFails(t, f)
        \/ Yields(t, f) \/ IoResumes(t, f)
        \/ Watch(t, f) \/ WatchFails(t, f) \/ SetOption(t, f) \/ Close(t, f) \/ Socket(t, f)
        \/ CallbackReturns(t, f)
    \/ RunWake(t)
    \/ RunTimeout(t)

-----------------------------------------------------------------------------
(* The main thread, the outside world and the specification.               *)

MainSchedules ==
    /\ toSchedule # <<>>
    /\ Schedule(Head(toSchedule).fiber, Head(toSchedule).thread)
    /\ tickle(tasks_ = <<>>)
    /\ toSchedule' = Tail(toSchedule)
    /\ UNCHANGED <<timers_, tickled_, fdContexts_, pendingEventCnt_, ready, edge, wait, reported,
                   setup, at, phase, cnacelled, fdCtx, waited, result>>

\* stop(), from the destructor of IOManager; its tickles fill the pipe once.
MainStops ==
    /\ setup.stops /\ toSchedule = <<>>
    /\ StopScheduler
    /\ tickle(TRUE)
    /\ UNCHANGED <<timers_, tickled_, fdContexts_, pendingEventCnt_, ready, edge, wait, reported, hookVars>>

\* The longest time a history variable has to tell apart.
CONSTANT MaxWaited

TimePasses ==
    /\ Elapse
    /\ waited' = [f \in Fiber |-> IF phase[f] = "call" THEN waited[f] ELSE Min({waited[f] + 1, MaxWaited})]
    /\ UNCHANGED <<setup, toSchedule, at, phase, cnacelled, fdCtx, result>>

Outside ==
    /\ \E fd \in Fd, bit \in {"IN", "OUT", "ERR"} :
           fdCtx[fd].open /\ bit \in setup.bits /\ BecomesReady(fd, bit)
    /\ UNCHANGED hookVars

ThreadStep(t) ==
    \/ RunStep(t) /\ UNCHANGED hookVars
    \/ IdleStep(t) /\ UNCHANGED hookVars
    \/ FiberStep(t)

Init ==
    /\ setup \in Setups
    /\ SchedulerInit(setup.pool, setup.caller)
    /\ IOManagerInit
    /\ toSchedule = setup.main
    /\ at = [f \in Fiber |-> 1]
    /\ phase = [f \in Fiber |-> "call"]
    /\ cnacelled = [f \in Fiber |-> FALSE]
    /\ fdCtx = [fd \in Fd |-> NewFdCtx]
    /\ waited = [f \in Fiber |-> 0]
    /\ result = [f \in Fiber |-> "none"]

\* A CondPanic ends the process.
Next ==
    /\ ~panic
    /\ \/ \E t \in Thread : ThreadStep(t)
       \/ MainSchedules
       \/ MainStops
       \/ TimePasses
       \/ Outside

\* The operating system runs every thread and time passes; nothing is said of the peers.
Fairness ==
    /\ \A t \in Thread : WF_vars(~panic /\ ThreadStep(t))
    /\ WF_vars(~panic /\ MainSchedules)
    /\ WF_vars(~panic /\ TimePasses)

Spec == Init /\ [][Next]_vars /\ Fairness
=============================================================================
