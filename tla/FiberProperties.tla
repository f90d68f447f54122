-------------------------- MODULE FiberProperties --------------------------
(***************************************************************************)
(* What the fiber runtime promises to the code that runs on it, such as    *)
(* the two tickers of Raft.                                                *)
(***************************************************************************)
EXTENDS Hook

\* Types, and the order of the timers (Timer::Comparator).
TypeOK ==
    /\ SchedulerTypeOK
    /\ IOManagerTypeOK
    /\ at \in [Fiber -> Nat \ {0}]
    /\ phase \in [Fiber -> {"call", "addEvent", "yield", "resumed"}]
    /\ cnacelled \in [Fiber -> BOOLEAN]

\* No CondPanic fails and no context is resumed before it was saved: a fiber that is
\* taken from the list is READY (scheduler.cpp:101), an event is triggered only while
\* it is registered (iomanager.cpp:24) and registered once (iomanager.cpp:85).
NoPanic == ~panic

Suspended(f) == state_[f] = "READY" /\ phase[f] = "resumed" /\ ctxSaved[f]

\* Where the wake-up of a suspended fiber can be: in the list, taken from it, with a
\* descriptor, or with the timer of sleep.
Wakers(f) ==
    LET wakes(w) == w \in {FiberWork(f), WakeWork(f)} IN
    Cardinality({i \in DOMAIN tasks_ : wakes(tasks_[i].work)})
    + Cardinality({t \in Thread : pc[t] = "resume" /\ wakes(work[t])})
    + Cardinality({r \in Fd \X Event : wakes(fdContexts_[r[1]][r[2]])})
    + Cardinality({i \in DOMAIN timers_ : wakes(timers_[i].work)})

\* A suspended fiber has exactly one wake-up: with none it would never run again (and
\* its destructor fail), with two the second would resume it in a later call.  The
\* event, the time-out and close() compete for it (hook.cpp:101-122, iomanager.cpp:151).
OneWaker == \A f \in Fiber : Suspended(f) => Wakers(f) = 1

\* pendingEventCnt_ counts what is registered and idleThreadCnt_ and activeThreadCnt_
\* the threads in idle() and with a task, whatever has been cancelled, closed or
\* triggered: stopping() and tickle() decide by these counters.
CountersExact ==
    /\ pendingEventCnt_ = Cardinality({r \in Fd \X Event : r[2] \in events(r[1])})
    /\ idleThreadCnt_ = Cardinality({t \in Thread : pc[t] \in {"idle", "epoll_wait", "expired", "events"}})
    /\ activeThreadCnt_ = Cardinality({t \in Thread : pc[t] \in {"resume", "fiber", "swap"}})

\* The time-out the caller has asked for, in parts of a millisecond.
Asked(f) ==
    CASE Instr(f).op = "read" -> fdCtx[Instr(f).fd].SO_RCVTIMEO
      [] Instr(f).op = "write" -> fdCtx[Instr(f).fd].SO_SNDTIMEO
      [] Instr(f).op = "connect" -> IF Instr(f).ms = NoTimeout THEN NoTimeout ELSE PartsPerMs * Instr(f).ms

\* The call of f has taken so long that less than a millisecond of the time is left.
AlmostOver(f, time) == time # NoTimeout /\ (waited[f] + 1) * PartsPerMs > time

\* By the clock of the timers, sleep returns and a call fails with ETIMEDOUT less than a
\* millisecond before the time the caller has asked for, which is what the divisions by
\* 1000 drop (hook.cpp:175, 191, 477), and never earlier, although a wait begins again
\* after every event (hook.cpp:130) and the wait of epoll is cut to an int
\* (iomanager.cpp:252).  A call without a time-out never fails so.
NoEarlyReturn ==
    [][\A f \in Fiber :
         /\ at[f] \in DOMAIN setup.prog[f]
         /\ at'[f] # at[f]
         => /\ Instr(f).op = "sleep" => AlmostOver(f, Instr(f).time)
            /\ result'[f] = "timeout" => AlmostOver(f, Asked(f))]_vars

\* Every callback that is scheduled runs to its end, when each of its calls has a
\* time-out.  A task pushed while its thread is on the way to epoll_wait is announced
\* to nobody (tickle sees no idle thread, iomanager.cpp:223) and is found only because
\* the wait is bounded.
TasksFinish ==
    \A f \in Fiber :
        (f \in setup.finite /\ \E i \in DOMAIN tasks_ : tasks_[i].work = CbWork(f)) ~> state_[f] = "TERM"

\* A fiber that sleeps in a loop, like the heartbeat and election tickers of Raft,
\* gets its thread again and again.
TickersRun == \A f \in Fiber : []<>(f \in setup.loops => state_[f] = "RUNNING")

\* stop() returns: every thread leaves run(), although its tickles may wake only one.
StopReturns == isStopped_ ~> \A t \in Thread : pc[t] = "exit"
=============================================================================
