---------------------------- MODULE FiberProofs ----------------------------
(***************************************************************************)
(* Types and counters of the fiber runtime, for any number of threads,     *)
(* fibers and descriptors and for whatever the fibers do.                  *)
(***************************************************************************)
EXTENDS FiberProperties, FiniteSetTheorems, WellFoundedInduction, TLAPS

\* Where a thread is.
Pc == {"run", "resume", "fiber", "swap", "noTask", "idle", "epoll_wait", "expired", "events", "caller", "exit"}

\* Where a thread is in idle(), and where it has a task.
Idling == {"idle", "epoll_wait", "expired", "events"}
Active == {"resume", "fiber", "swap"}

\* The work of a scheduler in which fibers do what `prog' says: a time-out belongs to a
\* call that can wait.
SoundWork(prog) ==
    {w \in Work : w.kind = "timeout" =>
        /\ w.call \in DOMAIN prog[w.fiber]
        /\ prog[w.fiber][w.call].op \in {"read", "write", "connect"}}

\* The work that can be around.
Sound == SoundWork(setup.prog)

\* A place in the list of tasks, and a timer.
Task == [work : Sound, thread : Thread \cup {AnyThread}]
Timer == [work : Sound, due : Nat]

\* FdCtx of a descriptor.
FdState == [open : BOOLEAN, userNonblock : BOOLEAN, nonblock : BOOLEAN,
            recvTimeout : Nat \cup {NoTimeout}, sendTimeout : Nat \cup {NoTimeout},
            SO_RCVTIMEO : Nat \cup {NoTimeout}, SO_SNDTIMEO : Nat \cup {NoTimeout}]

\* Timer::Comparator.
Ordered(s) == \A i \in 1..(Len(s) - 1) : s[i].due <= s[i + 1].due

\* The list of tasks and the tasks the threads have.
TasksTyped ==
    /\ tasks_ \in Seq(Task)
    /\ pc \in [Thread -> Pc]
    /\ work \in [Thread -> Sound \cup {NoWork}]
    /\ \A t \in Thread : pc[t] \in Active => work[t] \in Sound

\* Fibers and flags of the scheduler.
FibersTyped ==
    /\ idleTerm \in [Thread -> BOOLEAN] /\ isStopped_ \in BOOLEAN /\ panic \in BOOLEAN
    /\ state_ \in [Fiber -> {"READY", "RUNNING", "TERM"}] /\ ctxSaved \in [Fiber -> BOOLEAN]

\* The set of timers.
TimersTyped == timers_ \in Seq(Timer) /\ Ordered(timers_)

\* Who waits for the descriptors.
ContextsTyped == fdContexts_ \in [Fd -> [Event -> Sound \cup {NoWork}]] /\ pendingEventCnt_ \in Int

\* What idle() and the kernel know.
KernelTyped ==
    /\ tickled_ \in BOOLEAN /\ pipe \in {"empty", "edge", "seen"}
    /\ ready \in [Fd -> SUBSET {"IN", "OUT", "ERR"}] /\ edge \subseteq Fd
    /\ wait \in [Thread -> Int]
    /\ DOMAIN reported = Thread
    /\ \A t \in Thread : \A r \in reported[t] : r.fd \in Fd \cup {"pipe"}

\* What the fibers do.
CallsTyped ==
    /\ setup \in Setups
    /\ toSchedule \in Seq([fiber : Fiber, thread : Thread \cup {AnyThread}])
    /\ at \in [Fiber -> Nat \ {0}]
    /\ phase \in [Fiber -> {"call", "addEvent", "yield", "resumed"}]
    /\ cnacelled \in [Fiber -> BOOLEAN]
    /\ fdCtx \in [Fd -> FdState]

\* The threads with their program counter in A.
At(A) == {t \in Thread : pc[t] \in A}

\* The events that are registered.
Registered == {r \in Fd \X Event : r[2] \in events(r[1])}

\* The threads are counted.
ThreadsCounted == idleThreadCnt_ = Cardinality(At(Idling)) /\ activeThreadCnt_ = Cardinality(At(Active))

\* The events are counted, until a CondPanic ends the process.
EventsCounted == ~panic => pendingEventCnt_ = Cardinality(Registered)

\* The types.
FiberTypes == TasksTyped /\ FibersTyped /\ TimersTyped /\ ContextsTyped /\ KernelTyped /\ CallsTyped

\* The inductive invariant.
FiberInv == FiberTypes /\ ThreadsCounted /\ EventsCounted

-----------------------------------------------------------------------------
\* There is a least number in a set of natural numbers.
LEMMA MinInSet ==
    ASSUME NEW S \in SUBSET Nat, S # {}
    PROVE  Min(S) \in S
<1> DEFINE less == {p \in Nat \X Nat : p[1] < p[2]}
<1>1. IsWellFoundedOn(less, Nat)
  BY NatLessThanWellFounded, Zenon DEF OpToRel
<1>2. PICK x \in S : \A y \in S : ~(<<y, x>> \in less)
  <2> HIDE DEF less
  <2>1. QED
    BY <1>1, WFMin
<1>3. ASSUME NEW y \in S PROVE x <= y
  <2>1. x \in Nat /\ y \in Nat
    OBVIOUS
  <2>2. y < x => <<y, x>> \in less
    BY <2>1
  <2>3. QED
    BY <1>2, <2>1, <2>2
<1>4. QED
  BY <1>3 DEF Min

\* The least and the greatest of two numbers.
LEMMA MinOfTwo ==
    ASSUME NEW a \in Int, NEW b \in Int
    PROVE  Min({a, b}) = IF a <= b THEN a ELSE b
<1> DEFINE m == IF a <= b THEN a ELSE b
<1>1. m \in {a, b} /\ \A y \in {a, b} : m <= y
  OBVIOUS
<1>2. \A x \in {a, b} : (\A y \in {a, b} : x <= y) => x = m
  OBVIOUS
<1>3. QED
  BY <1>1, <1>2 DEF Min

\* The greatest of two numbers.
LEMMA MaxOfTwo ==
    ASSUME NEW a \in Int, NEW b \in Int
    PROVE  Max({a, b}) = IF a >= b THEN a ELSE b
<1> DEFINE m == IF a >= b THEN a ELSE b
<1>1. m \in {a, b} /\ \A y \in {a, b} : m >= y
  OBVIOUS
<1>2. \A x \in {a, b} : (\A y \in {a, b} : x >= y) => x = m
  OBVIOUS
<1>3. QED
  BY <1>1, <1>2 DEF Max

\* What a sequence with another one behind it is.
LEMMA ConcatMakes ==
    ASSUME NEW S, NEW a \in Seq(S), NEW b \in Seq(S)
    PROVE  /\ a \o b \in Seq(S) /\ Len(a \o b) = Len(a) + Len(b)
           /\ \A j \in 1..(Len(a) + Len(b)) : (a \o b)[j] = IF j <= Len(a) THEN a[j] ELSE b[j - Len(a)]
OBVIOUS

\* What InsertAt makes of a sequence.
LEMMA InsertMakes ==
    ASSUME NEW S, NEW s \in Seq(S), NEW i \in 1..(Len(s) + 1), NEW e \in S
    PROVE  /\ InsertAt(s, i, e) \in Seq(S) /\ Len(InsertAt(s, i, e)) = Len(s) + 1
           /\ \A j \in 1..(Len(s) + 1) :
                 InsertAt(s, i, e)[j] = IF j < i THEN s[j] ELSE IF j = i THEN e ELSE s[j - 1]
<1> DEFINE a == SubSeq(s, 1, i - 1)
           b == SubSeq(s, i, Len(s))
           ae == a \o <<e>>
<1>0. Len(s) \in Nat /\ i \in Nat
  OBVIOUS
<1>1. a \in Seq(S) /\ Len(a) = i - 1 /\ \A j \in 1..(i - 1) : a[j] = s[j]
  BY <1>0
<1>2. b \in Seq(S) /\ Len(b) = Len(s) - i + 1 /\ \A j \in 1..(Len(s) - i + 1) : b[j] = s[i + j - 1]
  BY <1>0
<1> HIDE DEF a, b
<1>3. /\ ae \in Seq(S) /\ Len(ae) = i
      /\ \A j \in 1..i : ae[j] = IF j < i THEN a[j] ELSE e
  BY <1>0, <1>1
<1> HIDE DEF ae
<1>4. /\ ae \o b \in Seq(S) /\ Len(ae \o b) = Len(s) + 1
      /\ \A j \in 1..(Len(s) + 1) : (ae \o b)[j] = IF j <= i THEN ae[j] ELSE b[j - i]
  <2>1. /\ ae \o b \in Seq(S) /\ Len(ae \o b) = Len(ae) + Len(b)
        /\ \A j \in 1..(Len(ae) + Len(b)) : (ae \o b)[j] = IF j <= Len(ae) THEN ae[j] ELSE b[j - Len(ae)]
    BY <1>2, <1>3, ConcatMakes
  <2>2. Len(ae) + Len(b) = Len(s) + 1
    BY <1>0, <1>2, <1>3
  <2>3. QED
    BY <1>3, <2>1, <2>2
<1>5. InsertAt(s, i, e) = ae \o b
  BY DEF InsertAt, ae, a, b
<1>6. ASSUME NEW j \in 1..(Len(s) + 1)
      PROVE  (ae \o b)[j] = IF j < i THEN s[j] ELSE IF j = i THEN e ELSE s[j - 1]
  <2>1. CASE j < i
    BY <1>0, <1>1, <1>3, <1>4, <2>1
  <2>2. CASE j = i
    BY <1>0, <1>3, <1>4, <2>2
  <2>3. CASE j > i
    <3>1. j - i \in 1..(Len(s) - i + 1) /\ i + (j - i) - 1 = j - 1
      BY <1>0, <2>3
    <3>2. b[j - i] = s[j - 1]
      BY <1>2, <3>1
    <3>3. QED
      BY <1>0, <1>4, <2>3, <3>2
  <2>4. j < i \/ j = i \/ j > i
    BY <1>0
  <2>5. QED
    BY <2>1, <2>2, <2>3, <2>4
<1>7. QED
  BY <1>4, <1>5, <1>6

\* What RemoveAt makes of a sequence.
LEMMA RemoveMakes ==
    ASSUME NEW S, NEW s \in Seq(S), NEW i \in 1..Len(s)
    PROVE  /\ RemoveAt(s, i) \in Seq(S) /\ Len(RemoveAt(s, i)) = Len(s) - 1
           /\ \A j \in 1..(Len(s) - 1) : RemoveAt(s, i)[j] = IF j < i THEN s[j] ELSE s[j + 1]
<1> DEFINE a == SubSeq(s, 1, i - 1)
           b == SubSeq(s, i + 1, Len(s))
<1>0. Len(s) \in Nat /\ i \in Nat
  OBVIOUS
<1>1. a \in Seq(S) /\ Len(a) = i - 1 /\ \A j \in 1..(i - 1) : a[j] = s[j]
  BY <1>0
<1>2. b \in Seq(S) /\ Len(b) = Len(s) - i /\ \A j \in 1..(Len(s) - i) : b[j] = s[i + j]
  BY <1>0
<1> HIDE DEF a, b
<1>3. /\ a \o b \in Seq(S) /\ Len(a \o b) = Len(s) - 1
      /\ \A j \in 1..(Len(s) - 1) : (a \o b)[j] = IF j < i THEN a[j] ELSE b[j - (i - 1)]
  <2>1. /\ a \o b \in Seq(S) /\ Len(a \o b) = Len(a) + Len(b)
        /\ \A j \in 1..(Len(a) + Len(b)) : (a \o b)[j] = IF j <= Len(a) THEN a[j] ELSE b[j - Len(a)]
    BY <1>1, <1>2, ConcatMakes
  <2>2. Len(a) + Len(b) = Len(s) - 1
    BY <1>0, <1>1, <1>2
  <2>3. QED
    BY <1>0, <1>1, <2>1, <2>2
<1>4. RemoveAt(s, i) = a \o b
  BY DEF RemoveAt, a, b
<1>5. ASSUME NEW j \in 1..(Len(s) - 1)
      PROVE  (a \o b)[j] = IF j < i THEN s[j] ELSE s[j + 1]
  <2>1. CASE j < i
    BY <1>0, <1>1, <1>3, <2>1
  <2>2. CASE j >= i
    <3>1. j - (i - 1) \in 1..(Len(s) - i) /\ i + (j - (i - 1)) = j + 1
      BY <1>0, <2>2
    <3>2. b[j - (i - 1)] = s[j + 1]
      BY <1>2, <3>1
    <3>3. QED
      BY <1>0, <1>3, <2>2, <3>2
  <2>3. j < i \/ j >= i
    BY <1>0
  <2>4. QED
    BY <2>1, <2>2, <2>3
<1>6. QED
  BY <1>3, <1>4, <1>5

\* The first element of a sequence and what is behind it.
LEMMA HeadAndTail ==
    ASSUME NEW S, NEW s \in Seq(S), s # <<>>
    PROVE  Head(s) \in S /\ Tail(s) \in Seq(S)
OBVIOUS

\* Sequences over a set are sequences over a larger one.
LEMMA SeqGrows ==
    ASSUME NEW S, NEW T, S \subseteq T, NEW s \in Seq(S)
    PROVE  s \in Seq(T)
<1>1. Len(s) \in Nat /\ s \in [1..Len(s) -> S]
  OBVIOUS
<1>2. s \in [1..Len(s) -> T]
  BY <1>1
<1>3. QED
  BY <1>1, <1>2

-----------------------------------------------------------------------------
\* The work of fibers and callbacks is sound; there is none in a NoWork.
LEMMA FiberWorkSound ==
    /\ \A f \in Fiber : CbWork(f) \in Sound /\ FiberWork(f) \in Sound /\ WakeWork(f) \in Sound
    /\ \A w \in Sound : w \in Work /\ w # NoWork /\ w.fiber \in Fiber
<1>1. \A f \in Fiber : /\ CbWork(f) \in Work /\ CbWork(f).kind # "timeout"
                       /\ FiberWork(f) \in Work /\ FiberWork(f).kind # "timeout"
                       /\ WakeWork(f) \in Work /\ WakeWork(f).kind # "timeout"
  BY DEF Work, CbWork, FiberWork, WakeWork
<1>2. \A w \in Work : w # NoWork /\ w.fiber \in Fiber
  BY WorkAssumption DEF Work
<1>3. QED
  BY <1>1, <1>2 DEF Sound, SoundWork

\* The call a fiber is in is given what it needs.
LEMMA CallGiven ==
    ASSUME CallsTyped, NEW t, NEW f \in Fiber, NEW ops, NEW ph, Calls(t, f, ops, ph)
    PROVE  /\ Instr(f).op \in ops /\ WellFormed(Instr(f)) /\ at[f] \in Nat \ {0}
           /\ at[f] \in DOMAIN setup.prog[f] /\ EventOf(Instr(f).op) \in Event
<1>1. at[f] \in DOMAIN setup.prog[f] /\ Instr(f).op \in ops
  BY DEF Calls
<1>2. WellFormed(Instr(f))
  BY <1>1, SetupAssumption DEF CallsTyped, Instr
<1>3. QED
  BY <1>1, <1>2 DEF CallsTyped, EventOf, Event

\* A time-out that is still valid belongs to the call its fiber is in.
LEMMA TimeoutGiven ==
    ASSUME FiberTypes, NEW t \in Thread, pc[t] = "resume", work[t].kind = "timeout",
           at[work[t].fiber] = work[t].call
    PROVE  /\ work[t].fiber \in Fiber /\ Instr(work[t].fiber).fd \in Fd
           /\ EventOf(Instr(work[t].fiber).op) \in Event
<1>0. TasksTyped /\ CallsTyped
  BY DEF FiberTypes
<1>1. work[t] \in Sound
  BY <1>0 DEF TasksTyped, Active
<1>2. work[t].fiber \in Fiber
  BY <1>1, FiberWorkSound
<1>3. /\ work[t].call \in DOMAIN setup.prog[work[t].fiber]
      /\ setup.prog[work[t].fiber][work[t].call].op \in {"read", "write", "connect"}
  BY <1>1 DEF Sound, SoundWork
<1>4. WellFormed(Instr(work[t].fiber)) /\ Instr(work[t].fiber).op \in {"read", "write", "connect"}
  BY <1>0, <1>2, <1>3, SetupAssumption DEF CallsTyped, Instr
<1>5. Instr(work[t].fiber).fd \in Fd
  BY <1>4 DEF WellFormed
<1>6. QED
  BY <1>2, <1>5 DEF EventOf, Event

\* Nobody changes what the fibers are to do.
LEMMA SetupKept ==
    ASSUME Next
    PROVE  setup' = setup
<1>1. ASSUME NEW t \in Thread, NEW f \in Fiber,
             \/ SleepBegins(t, f) \/ SleepEnds(t, f)
             \/ IoReturns(t, f) \/ IoWouldBlock(t, f) \/ IoAddsEvent(t, f) \/ IoAddFails(t, f) \/ Yields(t, f) \/ IoResumes(t, f)
             \/ Watch(t, f) \/ WatchFails(t, f) \/ SetOption(t, f) \/ Close(t, f) \/ Socket(t, f)
             \/ CallbackReturns(t, f)
      PROVE  setup' = setup
  BY <1>1 DEF SleepBegins, SleepEnds, IoReturns, IoWouldBlock, IoAddsEvent, IoAddFails, Yields, IoResumes, Watch, WatchFails, SetOption,
              Close, Socket, CallbackReturns, inFiber
<1>2. ASSUME NEW t \in Thread, RunWake(t) \/ RunTimeout(t) PROVE setup' = setup
  BY <1>2 DEF RunWake, RunTimeout, hookVars
<1>3. ASSUME NEW t \in Thread, ThreadStep(t) PROVE setup' = setup
  BY <1>1, <1>2, <1>3 DEF ThreadStep, FiberStep, hookVars
<1>4. CASE MainSchedules \/ MainStops \/ TimePasses \/ Outside
  BY <1>4 DEF MainSchedules, MainStops, TimePasses, Outside, hookVars
<1>5. QED
  BY <1>3, <1>4 DEF Next

\* An event is registered, and events are triggered.
Adds == \E fd \in Fd, e \in Event, w \in Sound : addEvent(fd, e, w) /\ UNCHANGED tasks_
Triggers == \E fd \in Fd, evs \in SUBSET Event : triggerEvents(fd, evs)

\* What HandleReport, close and the time-out of a call do with events.
Untouched == UNCHANGED <<panic, tasks_, fdContexts_, pendingEventCnt_, edge>>

\* idle() triggers events of a descriptor.
LEMMA ReportTriggers ==
    ASSUME KernelTyped, NEW t \in Thread, HandleReport(t)
    PROVE  Untouched \/ Triggers
<1>1. PICK r \in reported[t] : Untouched \/ (r.fd # "pipe" /\ triggerEvents(r.fd, real_events(r)))
  BY DEF HandleReport, Untouched
<1>2. r.fd \in Fd \/ r.fd = "pipe"
  BY DEF KernelTyped
<1>3. real_events(r) \in SUBSET Event
  BY DEF real_events
<1>4. QED
  BY <1>1, <1>2, <1>3 DEF Triggers

\* close triggers all events of its descriptor.
LEMMA CloseTriggers ==
    ASSUME CallsTyped, NEW t \in Thread, NEW f \in Fiber, Close(t, f)
    PROVE  Untouched \/ Triggers
<1>1. Calls(t, f, {"close"}, "call") /\ cancelAll(Instr(f).fd)
  BY DEF Close
<1>2. Instr(f).fd \in Fd
  BY <1>1, CallGiven DEF WellFormed
<1>3. events(Instr(f).fd) \in SUBSET Event
  BY DEF events
<1>4. QED
  BY <1>1, <1>2, <1>3 DEF cancelAll, Triggers, Untouched

\* A time-out triggers the event its call waits for.
LEMMA TimeoutTriggers ==
    ASSUME FiberTypes, NEW t \in Thread, RunTimeout(t)
    PROVE  Untouched \/ Triggers
<1>1. PICK f : f = work[t].fiber
  OBVIOUS
<1>2. \/ Untouched
      \/ /\ pc[t] = "resume" /\ work[t].kind = "timeout" /\ at[f] = work[t].call
         /\ cancelEvent(Instr(f).fd, EventOf(Instr(f).op))
  BY <1>1 DEF RunTimeout, Untouched
<1>3. CASE cancelEvent(Instr(f).fd, EventOf(Instr(f).op)) /\ pc[t] = "resume" /\ work[t].kind = "timeout" /\ at[f] = work[t].call
  <2>1. Instr(f).fd \in Fd /\ EventOf(Instr(f).op) \in Event
    BY <1>1, <1>3, TimeoutGiven
  <2>2. {EventOf(Instr(f).op)} \in SUBSET Event
    BY <2>1
  <2>3. QED
    BY <1>3, <2>1, <2>2 DEF cancelEvent, Triggers, Untouched
<1>4. QED
  BY <1>2, <1>3

\* Only these two change what is registered.
LEMMA EventSteps ==
    ASSUME FiberTypes, Next
    PROVE  UNCHANGED <<fdContexts_, pendingEventCnt_>> \/ Adds \/ Triggers
<1>0. TasksTyped /\ CallsTyped /\ KernelTyped
  BY DEF FiberTypes
<1>1. ASSUME NEW t \in Thread, RunStep(t) PROVE UNCHANGED <<fdContexts_, pendingEventCnt_>>
  BY <1>1 DEF RunStep, ioVars
<1>2. ASSUME NEW t \in Thread, IdleStep(t) PROVE UNCHANGED <<fdContexts_, pendingEventCnt_>> \/ Triggers
  <2>1. CASE HandleReport(t)
    BY <1>0, <2>1, ReportTriggers DEF Untouched
  <2>2. CASE IdleChecks(t) \/ WakeUp(t) \/ ScheduleExpired(t) \/ IdleYields(t)
    BY <2>2 DEF IdleChecks, WakeUp, ScheduleExpired, IdleYields, ioVars
  <2>3. QED
    BY <1>2, <2>1, <2>2 DEF IdleStep
<1>3. ASSUME NEW t \in Thread, NEW f \in Fiber, IoAddsEvent(t, f) PROVE Adds
  <2>1. Calls(t, f, {"read", "write", "connect"}, "addEvent")
        /\ addEvent(Instr(f).fd, EventOf(Instr(f).op), FiberWork(f)) /\ UNCHANGED tasks_
    BY <1>3 DEF IoAddsEvent
  <2>2. Instr(f).fd \in Fd /\ EventOf(Instr(f).op) \in Event /\ FiberWork(f) \in Sound
    BY <1>0, <2>1, CallGiven, FiberWorkSound DEF WellFormed
  <2>3. QED
    BY <2>1, <2>2 DEF Adds
<1>4. ASSUME NEW t \in Thread, NEW f \in Fiber, Watch(t, f) PROVE Adds
  <2>1. Calls(t, f, {"watch"}, "call")
        /\ addEvent(Instr(f).fd, "READ", CbWork(Instr(f).cb)) /\ UNCHANGED tasks_
    BY <1>4 DEF Watch
  <2>2. Instr(f).fd \in Fd /\ "READ" \in Event /\ Instr(f).cb \in Fiber
    BY <1>0, <2>1, CallGiven DEF WellFormed, Event
  <2>3. CbWork(Instr(f).cb) \in Sound
    BY <2>2, FiberWorkSound
  <2>4. QED
    BY <2>1, <2>2, <2>3 DEF Adds
<1>5. ASSUME NEW t \in Thread, NEW f \in Fiber, Close(t, f)
      PROVE UNCHANGED <<fdContexts_, pendingEventCnt_>> \/ Triggers
  BY <1>0, <1>5, CloseTriggers DEF Untouched
<1>6. ASSUME NEW t \in Thread, RunTimeout(t)
      PROVE UNCHANGED <<fdContexts_, pendingEventCnt_>> \/ Triggers
  BY <1>6, TimeoutTriggers DEF Untouched
<1>7. ASSUME NEW t \in Thread, NEW f \in Fiber,
             \/ SleepBegins(t, f) \/ SleepEnds(t, f)
             \/ IoReturns(t, f) \/ IoWouldBlock(t, f) \/ IoAddFails(t, f) \/ Yields(t, f) \/ IoResumes(t, f)
             \/ WatchFails(t, f) \/ SetOption(t, f) \/ Socket(t, f) \/ CallbackReturns(t, f)
      PROVE  UNCHANGED <<fdContexts_, pendingEventCnt_>>
  BY <1>7 DEF SleepBegins, SleepEnds, IoReturns, IoWouldBlock, IoAddFails, WatchFails, addEventFails, Yields, IoResumes, SetOption, Socket,
              CallbackReturns, ioVars
<1>8. ASSUME NEW t \in Thread, RunWake(t) PROVE UNCHANGED <<fdContexts_, pendingEventCnt_>>
  BY <1>8 DEF RunWake
<1>9. CASE MainSchedules \/ MainStops \/ TimePasses \/ Outside
  BY <1>9 DEF MainSchedules, MainStops, TimePasses, Elapse, Outside, BecomesReady
<1>10. ASSUME NEW t \in Thread, FiberStep(t) PROVE UNCHANGED <<fdContexts_, pendingEventCnt_>> \/ Adds \/ Triggers
  BY <1>3, <1>4, <1>5, <1>6, <1>7, <1>8, <1>10 DEF FiberStep
<1>11. QED
  BY <1>1, <1>2, <1>9, <1>10 DEF Next, ThreadStep

\* The work around is the same after a step.
LEMMA SoundKept ==
    ASSUME Next
    PROVE  Sound' = Sound /\ Task' = Task /\ Timer' = Timer
BY SetupKept DEF Sound, Task, Timer

\* Sets of events are finite, and there are finitely many that can be registered.
LEMMA EventsFinite ==
    /\ \A evs \in SUBSET Event : IsFiniteSet(evs) /\ Cardinality(evs) \in Nat
    /\ IsFiniteSet(Fd \X Event) /\ IsFiniteSet(Registered) /\ Cardinality(Registered) \in Nat
<1>1. IsFiniteSet(Event)
  <2>1. IsFiniteSet({"READ"}) /\ {"READ"} \cup {"WRITE"} = Event
    BY FS_Singleton DEF Event
  <2>2. IsFiniteSet({"READ"} \cup {"WRITE"})
    BY <2>1, FS_AddElement
  <2>3. QED
    BY <2>1, <2>2
<1>2. ASSUME NEW evs \in SUBSET Event PROVE IsFiniteSet(evs) /\ Cardinality(evs) \in Nat
  BY <1>1, FS_Subset, FS_CardinalityType
<1>3. IsFiniteSet(Fd \X Event)
  BY <1>1, FdAssumption, FS_Product
<1>4. Registered \in SUBSET (Fd \X Event)
  BY DEF Registered
<1>5. IsFiniteSet(Registered) /\ Cardinality(Registered) \in Nat
  BY <1>3, <1>4, FS_Subset, FS_CardinalityType
<1>6. QED
  BY <1>2, <1>3, <1>5

\* Every step preserves ContextsTyped.
LEMMA ContextsStep ==
    ASSUME FiberTypes, Next
    PROVE  ContextsTyped'
<1> DEFINE ctxs == [Event -> Sound \cup {NoWork}]
<1>0. fdContexts_ \in [Fd -> ctxs] /\ pendingEventCnt_ \in Int
  BY DEF FiberTypes, ContextsTyped
<1>1. SUFFICES fdContexts_' \in [Fd -> ctxs] /\ pendingEventCnt_' \in Int
  BY SoundKept DEF ContextsTyped
<1>2. CASE UNCHANGED <<fdContexts_, pendingEventCnt_>>
  BY <1>0, <1>2
<1>3. ASSUME NEW fd \in Fd, NEW e \in Event, NEW w \in Sound, addEvent(fd, e, w)
      PROVE  fdContexts_' \in [Fd -> ctxs] /\ pendingEventCnt_' \in Int
  BY <1>0, <1>3 DEF addEvent
<1>4. ASSUME NEW fd \in Fd, NEW evs \in SUBSET Event, triggerEvents(fd, evs)
      PROVE  fdContexts_' \in [Fd -> ctxs] /\ pendingEventCnt_' \in Int
  <2>1. Cardinality(evs) \in Nat
    BY EventsFinite
  <2>2. [e \in Event |-> IF e \in evs THEN NoWork ELSE fdContexts_[fd][e]] \in ctxs
    BY <1>0
  <2>3. QED
    BY <1>0, <1>4, <2>1, <2>2 DEF triggerEvents
<1>5. QED
  BY <1>2, <1>3, <1>4, EventSteps DEF Adds, Triggers

\* Every step preserves EventsCounted: an event is registered while it is not, and
\* triggered while it is, or a CondPanic fails.
LEMMA EventsCountedStep ==
    ASSUME FiberTypes, EventsCounted, Next
    PROVE  EventsCounted'
<1> DEFINE ctxs == [Event -> Sound \cup {NoWork}]
<1>0. /\ fdContexts_ \in [Fd -> ctxs] /\ pendingEventCnt_ \in Int
      /\ pendingEventCnt_ = Cardinality(Registered) /\ ~panic
  BY DEF FiberTypes, ContextsTyped, EventsCounted, Next
<1>1. SUFFICES ASSUME ~panic' PROVE pendingEventCnt_' = Cardinality(Registered')
  BY DEF EventsCounted
<1>2. IsFiniteSet(Registered) /\ Cardinality(Registered) \in Nat
  BY EventsFinite
<1>3. CASE UNCHANGED <<fdContexts_, pendingEventCnt_>>
  BY <1>0, <1>3 DEF Registered, events
<1>4. ASSUME NEW fd \in Fd, NEW e \in Event, NEW w \in Sound, addEvent(fd, e, w)
      PROVE  pendingEventCnt_' = Cardinality(Registered')
  <2>1. e \notin events(fd) /\ pendingEventCnt_' = pendingEventCnt_ + 1
    BY <1>0, <1>1, <1>4 DEF addEvent
  <2>2. w # NoWork
    BY FiberWorkSound
  <2>3. \A g \in Fd, d \in Event : fdContexts_'[g][d] = IF g = fd /\ d = e THEN w ELSE fdContexts_[g][d]
    BY <1>0, <1>4 DEF addEvent
  <2>4. Registered' = Registered \cup {<<fd, e>>}
    BY <2>2, <2>3 DEF Registered, events
  <2>5. <<fd, e>> \notin Registered
    BY <2>1 DEF Registered
  <2>6. Cardinality(Registered \cup {<<fd, e>>}) = Cardinality(Registered) + 1
    BY <1>2, <2>5, FS_AddElement
  <2>7. QED
    BY <1>0, <2>1, <2>4, <2>6
<1>5. ASSUME NEW fd \in Fd, NEW evs \in SUBSET Event, triggerEvents(fd, evs)
      PROVE  pendingEventCnt_' = Cardinality(Registered')
  <2>1. evs \subseteq events(fd) /\ pendingEventCnt_' = pendingEventCnt_ - Cardinality(evs)
    BY <1>0, <1>1, <1>5 DEF triggerEvents
  <2>2. \A g \in Fd, d \in Event : fdContexts_'[g][d] = IF g = fd /\ d \in evs THEN NoWork ELSE fdContexts_[g][d]
    BY <1>0, <1>5 DEF triggerEvents
  <2> DEFINE gone == {fd} \X evs
  <2>3. gone \subseteq Registered
    BY <2>1 DEF Registered
  <2>4. Registered' = Registered \ gone
    BY <2>2 DEF Registered, events
  <2>5. Cardinality(gone) = Cardinality(evs)
    <3>1. IsFiniteSet(evs) /\ Cardinality(evs) \in Nat /\ IsFiniteSet({fd}) /\ Cardinality({fd}) = 1
      BY EventsFinite, FS_Singleton
    <3>2. Cardinality(gone) = Cardinality({fd}) * Cardinality(evs)
      BY <3>1, FS_Product
    <3>3. QED
      BY <3>1, <3>2
  <2> HIDE DEF gone
  <2>6. Registered \cap gone = gone
    BY <2>3
  <2>7. Cardinality(Registered \ gone) = Cardinality(Registered) - Cardinality(gone)
    BY <1>2, <2>6, FS_Difference
  <2>8. QED
    BY <1>0, <2>1, <2>4, <2>5, <2>7
<1>6. QED
  BY <1>3, <1>4, <1>5, EventSteps DEF Adds, Triggers

-----------------------------------------------------------------------------
\* Thread t goes from one place to another and the counters follow.
In(p, A) == IF p \in A THEN 1 ELSE 0
Goes(t, p) ==
    /\ pc' = [pc EXCEPT ![t] = p]
    /\ idleThreadCnt_' = idleThreadCnt_ + In(p, Idling) - In(pc[t], Idling)
    /\ activeThreadCnt_' = activeThreadCnt_ + In(p, Active) - In(pc[t], Active)

\* The threads at a place, when one of them moves.
LEMMA OneGoes ==
    ASSUME pc \in [Thread -> Pc], NEW t \in Thread, NEW p, pc' = [pc EXCEPT ![t] = p], NEW A
    PROVE  /\ Cardinality(At(A)) \in Nat
           /\ Cardinality(At(A)') = Cardinality(At(A)) + In(p, A) - In(pc[t], A)
<1>1. At(A) \in SUBSET Thread
  BY DEF At
<1>2. IsFiniteSet(At(A)) /\ Cardinality(At(A)) \in Nat
  BY <1>1, ThreadAssumption, FS_Subset, FS_CardinalityType
<1>3. CASE p \in A /\ pc[t] \in A
  <2>1. At(A)' = At(A)
    BY <1>3 DEF At
  <2>2. In(p, A) = 1 /\ In(pc[t], A) = 1
    BY <1>3 DEF In
  <2>3. QED
    BY <1>2, <2>1, <2>2
<1>4. CASE p \in A /\ pc[t] \notin A
  <2>1. At(A)' = At(A) \cup {t} /\ t \notin At(A)
    BY <1>4 DEF At
  <2>2. In(p, A) = 1 /\ In(pc[t], A) = 0
    BY <1>4 DEF In
  <2>3. Cardinality(At(A) \cup {t}) = Cardinality(At(A)) + 1
    BY <1>2, <2>1, FS_AddElement
  <2>4. QED
    BY <1>2, <2>1, <2>2, <2>3
<1>5. CASE p \notin A /\ pc[t] \in A
  <2>1. At(A)' = At(A) \ {t} /\ t \in At(A)
    BY <1>5 DEF At
  <2>2. In(p, A) = 0 /\ In(pc[t], A) = 1
    BY <1>5 DEF In
  <2>3. Cardinality(At(A) \ {t}) = Cardinality(At(A)) - 1
    BY <1>2, <2>1, FS_RemoveElement
  <2>4. QED
    BY <1>2, <2>1, <2>2, <2>3
<1>6. CASE p \notin A /\ pc[t] \notin A
  <2>1. At(A)' = At(A)
    BY <1>6 DEF At
  <2>2. In(p, A) = 0 /\ In(pc[t], A) = 0
    BY <1>6 DEF In
  <2>3. QED
    BY <1>2, <2>1, <2>2
<1>7. QED
  BY <1>2, <1>3, <1>4, <1>5, <1>6

\* The task a thread takes is in the list.
LEMMA TaskTaken ==
    ASSUME TasksTyped, NEW t \in Thread, TakeTask(t)
    PROVE  /\ tasks_' \in Seq(Task)
           /\ \E w \in Sound : work' = [work EXCEPT ![t] = w]
<1> DEFINE i == Min(Runnable(t))
<1>0. tasks_ \in Seq(Task) /\ Runnable(t) # {} /\ tasks_' = RemoveAt(tasks_, i)
      /\ work' = [work EXCEPT ![t] = tasks_[i].work]
  BY DEF TasksTyped, TakeTask
<1>1. Runnable(t) \in SUBSET Nat /\ DOMAIN tasks_ = 1..Len(tasks_)
  BY <1>0 DEF Runnable
<1>2. i \in Runnable(t)
  BY <1>0, <1>1, MinInSet
<1> HIDE DEF i
<1>3. i \in 1..Len(tasks_)
  BY <1>1, <1>2 DEF Runnable
<1>4. tasks_' \in Seq(Task)
  BY <1>0, <1>3, RemoveMakes
<1>5. tasks_[i] \in Task
  BY <1>0, <1>3
<1>6. tasks_[i].work \in Sound
  BY <1>5 DEF Task
<1>7. QED
  BY <1>0, <1>4, <1>6

\* Thread t keeps its task, takes one or drops it, on the way to p.
Keeps(t, p) == work' = work /\ (p \in Active => pc[t] \in Active)
Takes(t) == \E w \in Sound : work' = [work EXCEPT ![t] = w]
Drops(t, p) == work' = [work EXCEPT ![t] = NoWork] /\ p \notin Active

\* A step leaves the threads where they are, begins to stop, or moves one thread.
LEMMA ThreadSteps ==
    ASSUME FiberTypes, idleThreadCnt_ \in Nat, activeThreadCnt_ \in Nat, Next
    PROVE  \/ UNCHANGED <<pc, work, idleThreadCnt_, activeThreadCnt_>>
           \/ StopScheduler
           \/ \E t \in Thread, p \in Pc : Goes(t, p) /\ (Keeps(t, p) \/ Takes(t) \/ Drops(t, p))
<1> DEFINE Moves(t) == \E p \in Pc : Goes(t, p) /\ (Keeps(t, p) \/ Takes(t) \/ Drops(t, p))
           Stays == UNCHANGED <<pc, work, idleThreadCnt_, activeThreadCnt_>>
<1>0. TasksTyped /\ pc \in [Thread -> Pc]
  BY DEF FiberTypes, TasksTyped
<1>1. ASSUME NEW t \in Thread, RunStep(t) PROVE Moves(t)
  <2>1. CASE TakeTask(t)
    <3>1. Goes(t, "resume")
      BY <2>1 DEF TakeTask, Goes, In, Idling, Active
    <3>2. Takes(t)
      BY <1>0, <2>1, TaskTaken DEF Takes
    <3>3. QED
      BY <3>1, <3>2 DEF Pc
  <2>2. CASE FindNothing(t)
    <3>1. Goes(t, "noTask") /\ Keeps(t, "noTask")
      BY <2>2 DEF FindNothing, Goes, Keeps, In, Idling, Active
    <3>2. QED
      BY <3>1 DEF Pc
  <2>3. CASE GoIdle(t)
    <3>1. \/ Goes(t, "exit") /\ Keeps(t, "exit")
          \/ Goes(t, "idle") /\ Keeps(t, "idle")
      BY <2>3 DEF GoIdle, Goes, Keeps, In, Idling, Active
    <3>2. QED
      BY <3>1 DEF Pc
  <2>4. CASE Resume(t)
    <3>1. Goes(t, "fiber") /\ Keeps(t, "fiber")
      BY <2>4 DEF Resume, Goes, Keeps, In, Idling, Active
    <3>2. QED
      BY <3>1 DEF Pc
  <2>5. CASE SwapBack(t)
    <3>1. Goes(t, "run") /\ Drops(t, "run")
      BY <2>5 DEF SwapBack, FinishCallback, Goes, Drops, In, Idling, Active
    <3>2. QED
      BY <3>1 DEF Pc
  <2>6. QED
    BY <1>1, <2>1, <2>2, <2>3, <2>4, <2>5 DEF RunStep
<1>2. ASSUME NEW t \in Thread, IdleStep(t) PROVE Moves(t) \/ Stays
  <2>1. CASE IdleChecks(t)
    <3>1. \/ Goes(t, "run") /\ Keeps(t, "run")
          \/ Goes(t, "epoll_wait") /\ Keeps(t, "epoll_wait")
      BY <2>1 DEF IdleChecks, LeaveIdle, Goes, Keeps, In, Idling, Active
    <3>2. QED
      BY <3>1 DEF Pc
  <2>2. CASE WakeUp(t)
    <3>1. Goes(t, "expired") /\ Keeps(t, "expired")
      BY <2>2 DEF WakeUp, Goes, Keeps, In, Idling, Active
    <3>2. QED
      BY <3>1 DEF Pc
  <2>3. CASE ScheduleExpired(t)
    <3>1. Goes(t, "events") /\ Keeps(t, "events")
      BY <2>3 DEF ScheduleExpired, Goes, Keeps, In, Idling, Active
    <3>2. QED
      BY <3>1 DEF Pc
  <2>4. CASE HandleReport(t)
    BY <2>4 DEF HandleReport
  <2>5. CASE IdleYields(t)
    <3>1. Goes(t, "run") /\ Keeps(t, "run")
      BY <2>5 DEF IdleYields, LeaveIdle, Goes, Keeps, In, Idling, Active
    <3>2. QED
      BY <3>1 DEF Pc
  <2>6. QED
    BY <1>2, <2>1, <2>2, <2>3, <2>4, <2>5 DEF IdleStep
<1>3. ASSUME NEW t \in Thread, NEW f \in Fiber,
             \/ SleepBegins(t, f) \/ SleepEnds(t, f)
             \/ IoReturns(t, f) \/ IoWouldBlock(t, f) \/ IoAddsEvent(t, f) \/ IoAddFails(t, f) \/ IoResumes(t, f)
             \/ Watch(t, f) \/ WatchFails(t, f) \/ SetOption(t, f) \/ Close(t, f) \/ Socket(t, f)
      PROVE  Stays
  BY <1>3 DEF SleepBegins, SleepEnds, IoReturns, IoWouldBlock, IoAddsEvent, IoAddFails, IoResumes, Watch, WatchFails, SetOption,
              Close, Socket, inFiber
<1>4. ASSUME NEW t \in Thread, NEW s, pc[t] = "fiber", LeaveFiber(t, s) PROVE Moves(t)
  <2>1. Goes(t, "swap") /\ Keeps(t, "swap")
    BY <1>4 DEF LeaveFiber, Goes, Keeps, In, Idling, Active
  <2>2. QED
    BY <2>1 DEF Pc
<1>5. ASSUME NEW t \in Thread, NEW f \in Fiber, Yields(t, f) \/ CallbackReturns(t, f) PROVE Moves(t) \/ Stays
  <2>1. pc[t] = "fiber" /\ (LeaveFiber(t, "READY") \/ LeaveFiber(t, "TERM") \/ Stays)
    BY <1>5 DEF Yields, CallbackReturns, Calls, schedulerVars
  <2>2. QED
    BY <1>4, <2>1
<1>6. ASSUME NEW t \in Thread, RunWake(t) \/ RunTimeout(t) PROVE Moves(t)
  <2>1. pc[t] = "resume" /\ FinishCallback(t) /\ UNCHANGED idleThreadCnt_
    BY <1>6 DEF RunWake, RunTimeout
  <2>2. Goes(t, "run") /\ Drops(t, "run")
    BY <2>1 DEF FinishCallback, Goes, Drops, In, Idling, Active
  <2>3. QED
    BY <2>2 DEF Pc
<1>7. CASE MainSchedules \/ TimePasses \/ Outside
  BY <1>7 DEF MainSchedules, Schedule, TimePasses, Elapse, Outside, BecomesReady, schedulerVars
<1>8. CASE MainStops
  BY <1>8 DEF MainStops
<1> HIDE DEF Moves, Stays
<1>9. ASSUME NEW t \in Thread, ThreadStep(t) PROVE Moves(t) \/ Stays
  BY <1>1, <1>2, <1>3, <1>5, <1>6, <1>9 DEF ThreadStep, FiberStep
<1>10. QED
  BY <1>7, <1>8, <1>9 DEF Next, Moves, Stays

\* There are finitely many threads to count.
LEMMA CountsNatural ==
    ASSUME ThreadsCounted
    PROVE  idleThreadCnt_ \in Nat /\ activeThreadCnt_ \in Nat
<1>1. At(Idling) \in SUBSET Thread /\ At(Active) \in SUBSET Thread
  BY DEF At
<1>2. QED
  BY <1>1, ThreadAssumption, FS_Subset, FS_CardinalityType DEF ThreadsCounted

\* Every step preserves ThreadsCounted.
LEMMA ThreadsCountedStep ==
    ASSUME FiberTypes, ThreadsCounted, Next
    PROVE  ThreadsCounted'
<1>0. /\ pc \in [Thread -> Pc]
      /\ idleThreadCnt_ = Cardinality(At(Idling)) /\ activeThreadCnt_ = Cardinality(At(Active))
  BY DEF FiberTypes, TasksTyped, ThreadsCounted
<1>1. idleThreadCnt_ \in Nat /\ activeThreadCnt_ \in Nat
  BY CountsNatural
<1>2. CASE UNCHANGED <<pc, idleThreadCnt_, activeThreadCnt_>>
  BY <1>0, <1>2 DEF ThreadsCounted, At
<1>3. CASE StopScheduler
  <2>1. At(Idling)' = At(Idling) /\ At(Active)' = At(Active)
    BY <1>3 DEF StopScheduler, At, Idling, Active
  <2>2. QED
    BY <1>0, <1>3, <2>1 DEF StopScheduler, ThreadsCounted
<1>4. ASSUME NEW t \in Thread, NEW p \in Pc, Goes(t, p) PROVE ThreadsCounted'
  <2>1. /\ Cardinality(At(Idling)') = Cardinality(At(Idling)) + In(p, Idling) - In(pc[t], Idling)
        /\ Cardinality(At(Active)') = Cardinality(At(Active)) + In(p, Active) - In(pc[t], Active)
    BY <1>0, <1>4, OneGoes DEF Goes
  <2>2. QED
    BY <1>0, <1>4, <2>1 DEF Goes, ThreadsCounted
<1>5. QED
  BY <1>1, <1>2, <1>3, <1>4, ThreadSteps

\* The tasks of the threads stay sound.
LEMMA WorkStep ==
    ASSUME FiberTypes, ThreadsCounted, Next
    PROVE  /\ pc' \in [Thread -> Pc] /\ work' \in [Thread -> Sound \cup {NoWork}]
           /\ \A t \in Thread : pc'[t] \in Active => work'[t] \in Sound
<1>0. /\ pc \in [Thread -> Pc] /\ work \in [Thread -> Sound \cup {NoWork}]
      /\ \A t \in Thread : pc[t] \in Active => work[t] \in Sound
  BY DEF FiberTypes, TasksTyped
<1>1. idleThreadCnt_ \in Nat /\ activeThreadCnt_ \in Nat
  BY CountsNatural
<1>2. CASE UNCHANGED <<pc, work>>
  BY <1>0, <1>2
<1>3. CASE StopScheduler
  BY <1>0, <1>3 DEF StopScheduler, Active, Pc
<1>4. ASSUME NEW t \in Thread, NEW p \in Pc, pc' = [pc EXCEPT ![t] = p], Keeps(t, p) \/ Takes(t) \/ Drops(t, p)
      PROVE  /\ pc' \in [Thread -> Pc] /\ work' \in [Thread -> Sound \cup {NoWork}]
             /\ \A u \in Thread : pc'[u] \in Active => work'[u] \in Sound
  <2>1. CASE Keeps(t, p)
    BY <1>0, <1>4, <2>1 DEF Keeps
  <2>2. CASE Takes(t)
    BY <1>0, <1>4, <2>2 DEF Takes
  <2>3. CASE Drops(t, p)
    BY <1>0, <1>4, <2>3 DEF Drops
  <2>4. QED
    BY <1>4, <2>1, <2>2, <2>3
<1>5. QED
  BY <1>1, <1>2, <1>3, <1>4, ThreadSteps DEF Goes

-----------------------------------------------------------------------------
\* Scheduling sound work leaves sound tasks.
LEMMA ScheduledMakes ==
    ASSUME tasks_ \in Seq(Task), NEW works \in Seq(Sound)
    PROVE  Scheduled(works) \in Seq(Task)
<1> DEFINE new == [i \in DOMAIN works |-> [work |-> works[i], thread |-> AnyThread]]
<1>1. DOMAIN works = 1..Len(works) /\ Len(works) \in Nat /\ \A i \in 1..Len(works) : works[i] \in Sound
  OBVIOUS
<1>2. \A i \in 1..Len(works) : [work |-> works[i], thread |-> AnyThread] \in Task
  BY <1>1 DEF Task
<1>3. new \in Seq(Task)
  BY <1>1, <1>2
<1> HIDE DEF new
<1>4. tasks_ \o new \in Seq(Task)
  BY <1>3
<1>5. QED
  BY <1>4 DEF Scheduled, new

\* What waits for the events of a descriptor is sound.
LEMMA TriggeredSound ==
    ASSUME ContextsTyped, NEW fd \in Fd, NEW evs
    PROVE  triggered(fd, evs) \in Seq(Sound)
<1> DEFINE ctx(e) == IF e \in evs \cap events(fd) THEN <<fdContexts_[fd][e]>> ELSE <<>>
<1>1. ASSUME NEW e \in Event PROVE ctx(e) \in Seq(Sound)
  <2>1. CASE e \in evs \cap events(fd)
    <3>1. fdContexts_[fd][e] \in Sound
      BY <1>1, <2>1 DEF ContextsTyped, events
    <3>2. QED
      BY <2>1, <3>1
  <2>2. CASE e \notin evs \cap events(fd)
    BY <2>2
  <2>3. QED
    BY <2>1, <2>2
<1>2. ctx("READ") \in Seq(Sound) /\ ctx("WRITE") \in Seq(Sound)
  BY <1>1 DEF Event
<1>3. triggered(fd, evs) = ctx("READ") \o ctx("WRITE")
  BY DEF triggered
<1> HIDE DEF ctx
<1>4. QED
  BY <1>2, <1>3

\* The timers that have expired are the first ones.
LEMMA ExpiredTimers ==
    ASSUME timers_ \in Seq(Timer)
    PROVE  Cardinality(dueIn(0)) \in 0..Len(timers_)
<1>1. DOMAIN timers_ = 1..Len(timers_) /\ Len(timers_) \in Nat
  OBVIOUS
<1>2. dueIn(0) \in SUBSET (1..Len(timers_))
  BY <1>1 DEF dueIn
<1>3. IsFiniteSet(1..Len(timers_)) /\ Cardinality(1..Len(timers_)) = Len(timers_)
  BY <1>1, FS_Interval
<1>4. IsFiniteSet(dueIn(0)) /\ Cardinality(dueIn(0)) <= Len(timers_)
  BY <1>2, <1>3, FS_Subset
<1>5. Cardinality(dueIn(0)) \in Nat
  BY <1>4, FS_CardinalityType
<1>6. QED
  BY <1>1, <1>4, <1>5

\* Their work is sound, and the others stay in their order.
LEMMA ExpiredMakes ==
    ASSUME TimersTyped
    PROVE  /\ [i \in DOMAIN expired |-> expired[i].work] \in Seq(Sound)
           /\ unexpired \in Seq(Timer) /\ Ordered(unexpired)
<1> DEFINE n == Cardinality(dueIn(0))
           m == Len(timers_)
<1>0. timers_ \in Seq(Timer) /\ Ordered(timers_) /\ m \in Nat
  BY DEF TimersTyped
<1>1. n \in 0..m
  BY <1>0, ExpiredTimers
<1> HIDE DEF n
<1>2. n \in Nat /\ n <= m
  BY <1>0, <1>1
<1>3. SubSeq(timers_, 1, n) \in Seq(Timer) /\ Len(SubSeq(timers_, 1, n)) = n
  BY <1>0, <1>2
<1>4. expired = SubSeq(timers_, 1, n)
  BY DEF expired, n
<1>5. expired \in Seq(Timer) /\ Len(expired) = n
  BY <1>3, <1>4
<1>6. [i \in DOMAIN expired |-> expired[i].work] \in Seq(Sound)
  <2>1. DOMAIN expired = 1..n /\ \A i \in 1..n : expired[i] \in Timer
    BY <1>5
  <2>2. \A i \in 1..n : expired[i].work \in Sound
    BY <2>1 DEF Timer
  <2>3. QED
    BY <1>2, <2>1, <2>2
<1> DEFINE u == SubSeq(timers_, n + 1, m)
<1>7. u \in Seq(Timer) /\ Len(u) = m - n /\ \A i \in 1..(m - n) : u[i] = timers_[n + i]
  BY <1>0, <1>2
<1>8. unexpired = u
  BY <1>5 DEF unexpired
<1> HIDE DEF u
<1>9. Ordered(u)
  <2>1. ASSUME NEW i \in 1..(m - n - 1) PROVE u[i].due <= u[i + 1].due
    <3>1. i \in 1..(m - n) /\ i + 1 \in 1..(m - n) /\ n + i \in 1..(m - 1) /\ n + (i + 1) = (n + i) + 1
      BY <1>0, <1>2
    <3>2. u[i] = timers_[n + i] /\ u[i + 1] = timers_[(n + i) + 1]
      BY <1>7, <3>1
    <3>3. timers_[n + i].due <= timers_[(n + i) + 1].due
      BY <1>0, <3>1 DEF Ordered
    <3>4. QED
      BY <3>2, <3>3
  <2>2. Len(u) - 1 = m - n - 1
    BY <1>0, <1>2, <1>7
  <2>3. QED
    BY <2>1, <2>2 DEF Ordered
<1>10. QED
  BY <1>6, <1>7, <1>8, <1>9

\* Every step preserves the type of the list of tasks.
LEMMA TasksStep ==
    ASSUME FiberTypes, Next
    PROVE  tasks_' \in Seq(Task)
<1>0. /\ TasksTyped /\ TimersTyped /\ ContextsTyped /\ KernelTyped /\ CallsTyped
      /\ tasks_ \in Seq(Task)
  BY DEF FiberTypes, TasksTyped
<1>1. CASE UNCHANGED tasks_
  BY <1>0, <1>1
<1>2. CASE Triggers
  <2>1. PICK fd \in Fd, evs \in SUBSET Event : triggerEvents(fd, evs)
    BY <1>2 DEF Triggers
  <2>2. tasks_' = Scheduled(triggered(fd, evs))
    BY <2>1 DEF triggerEvents
  <2>3. triggered(fd, evs) \in Seq(Sound)
    BY <1>0, TriggeredSound
  <2>4. QED
    BY <1>0, <2>2, <2>3, ScheduledMakes
<1>3. ASSUME NEW t \in Thread, RunStep(t) PROVE tasks_' \in Seq(Task)
  <2>1. CASE TakeTask(t)
    BY <1>0, <2>1, TaskTaken
  <2>2. CASE FindNothing(t) \/ GoIdle(t) \/ Resume(t) \/ SwapBack(t)
    BY <1>1, <2>2 DEF FindNothing, GoIdle, Resume, SwapBack
  <2>3. QED
    BY <1>3, <2>1, <2>2 DEF RunStep
<1>4. ASSUME NEW t \in Thread, IdleStep(t) PROVE tasks_' \in Seq(Task)
  <2>1. CASE ScheduleExpired(t)
    BY <1>0, <2>1, ExpiredMakes, ScheduledMakes DEF ScheduleExpired
  <2>2. CASE HandleReport(t)
    BY <1>0, <1>1, <1>2, <2>2, ReportTriggers DEF Untouched
  <2>3. CASE IdleChecks(t) \/ WakeUp(t) \/ IdleYields(t)
    BY <1>1, <2>3 DEF IdleChecks, WakeUp, IdleYields
  <2>4. QED
    BY <1>4, <2>1, <2>2, <2>3 DEF IdleStep
<1>5. ASSUME NEW t \in Thread, FiberStep(t) PROVE tasks_' \in Seq(Task)
  <2>1. ASSUME NEW f \in Fiber, Close(t, f) PROVE tasks_' \in Seq(Task)
    BY <1>0, <1>1, <1>2, <2>1, CloseTriggers DEF Untouched
  <2>2. CASE RunTimeout(t)
    BY <1>1, <1>2, <2>2, TimeoutTriggers DEF Untouched
  <2>3. CASE RunWake(t)
    <3>1. work[t] \in Sound /\ tasks_' = Scheduled(<<FiberWork(work[t].fiber)>>)
      BY <1>0, <2>3 DEF RunWake, TasksTyped, Active
    <3>2. FiberWork(work[t].fiber) \in Sound
      BY <3>1, FiberWorkSound
    <3>3. <<FiberWork(work[t].fiber)>> \in Seq(Sound)
      BY <3>2
    <3>4. QED
      BY <1>0, <3>1, <3>3, ScheduledMakes
  <2>4. ASSUME NEW f \in Fiber,
               \/ SleepBegins(t, f) \/ SleepEnds(t, f)
               \/ IoReturns(t, f) \/ IoWouldBlock(t, f) \/ IoAddsEvent(t, f) \/ IoAddFails(t, f) \/ Yields(t, f) \/ IoResumes(t, f)
               \/ Watch(t, f) \/ WatchFails(t, f) \/ SetOption(t, f) \/ Socket(t, f) \/ CallbackReturns(t, f)
        PROVE  UNCHANGED tasks_
    BY <2>4 DEF SleepBegins, SleepEnds, IoReturns, IoWouldBlock, IoAddsEvent, IoAddFails, Yields, LeaveFiber, IoResumes, Watch, WatchFails,
                SetOption, Socket, CallbackReturns, schedulerVars
  <2>5. QED
    BY <1>1, <1>5, <2>1, <2>2, <2>3, <2>4 DEF FiberStep
<1>6. CASE MainSchedules
  <2>1. toSchedule \in Seq([fiber : Fiber, thread : Thread \cup {AnyThread}]) /\ toSchedule # <<>>
    BY <1>0, <1>6 DEF CallsTyped, MainSchedules
  <2>2. PICK h : h = Head(toSchedule)
    OBVIOUS
  <2>3. h \in [fiber : Fiber, thread : Thread \cup {AnyThread}]
    BY <2>1, <2>2, HeadAndTail
  <2>4. CbWork(h.fiber) \in Sound /\ h.thread \in Thread \cup {AnyThread}
    BY <2>3, FiberWorkSound
  <2>5. [work |-> CbWork(h.fiber), thread |-> h.thread] \in Task
    BY <2>4 DEF Task
  <2>6. tasks_' = Append(tasks_, [work |-> CbWork(h.fiber), thread |-> h.thread])
    BY <1>6, <2>2 DEF MainSchedules, Schedule
  <2>7. QED
    BY <1>0, <2>5, <2>6
<1>7. CASE MainStops \/ TimePasses \/ Outside
  BY <1>1, <1>7 DEF MainStops, StopScheduler, TimePasses, Elapse, Outside, BecomesReady, schedulerVars
<1>8. QED
  BY <1>3, <1>4, <1>5, <1>6, <1>7 DEF Next, ThreadStep

-----------------------------------------------------------------------------
\* The timers of a sequence.
LEMMA TimerFields ==
    ASSUME NEW s \in Seq(Timer)
    PROVE  /\ DOMAIN s = 1..Len(s) /\ Len(s) \in Nat
           /\ \A j \in 1..Len(s) : s[j] \in Timer /\ s[j].due \in Nat
<1>1. DOMAIN s = 1..Len(s) /\ Len(s) \in Nat /\ \A j \in 1..Len(s) : s[j] \in Timer
  OBVIOUS
<1>2. \A x \in Timer : x.due \in Nat
  BY DEF Timer
<1>3. QED
  BY <1>1, <1>2

\* A new timer goes where its time belongs.
LEMMA AddTimerMakes ==
    ASSUME TimersTyped, NEW w \in Sound, NEW ms \in Nat, addTimer(w, ms)
    PROVE  timers_' \in Seq(Timer) /\ Ordered(timers_')
<1> DEFINE new == [work |-> w, due |-> ms]
           n == Len(timers_)
<1>0. timers_ \in Seq(Timer) /\ Ordered(timers_) /\ n \in Nat /\ DOMAIN timers_ = 1..n
  BY DEF TimersTyped
<1>1. new \in Timer /\ new.due = ms
  BY DEF Timer
<1>2. \A j \in 1..n : timers_[j].due \in Nat
  BY <1>0, TimerFields
<1> HIDE DEF new
<1>3. PICK i \in 1..(n + 1) :
        /\ \A j \in DOMAIN timers_ : IF j < i THEN timers_[j].due <= ms ELSE timers_[j].due >= ms
        /\ timers_' = InsertAt(timers_, i, new)
  BY DEF addTimer, new
<1>4. \A j \in 1..n : (j < i => timers_[j].due <= ms) /\ (~(j < i) => timers_[j].due >= ms)
  BY <1>0, <1>3
<1>5. /\ timers_' \in Seq(Timer) /\ Len(timers_') = n + 1
      /\ \A j \in 1..(n + 1) :
            timers_'[j] = IF j < i THEN timers_[j] ELSE IF j = i THEN new ELSE timers_[j - 1]
  <2>1. /\ InsertAt(timers_, i, new) \in Seq(Timer) /\ Len(InsertAt(timers_, i, new)) = n + 1
        /\ \A j \in 1..(n + 1) :
              InsertAt(timers_, i, new)[j] = IF j < i THEN timers_[j] ELSE IF j = i THEN new ELSE timers_[j - 1]
    BY <1>0, <1>1, InsertMakes, SMTT(40)
  <2>2. QED
    BY <1>3, <2>1
<1> HIDE DEF n
<1>6. ASSUME NEW j \in 1..n PROVE timers_'[j].due <= timers_'[j + 1].due
  <2>0. /\ i \in Nat /\ j \in Nat /\ j \in 1..(n + 1) /\ j + 1 \in 1..(n + 1) /\ (j + 1) - 1 = j
        /\ (j > 1 => j - 1 \in 1..(n - 1) /\ (j - 1) + 1 = j)
    BY <1>0
  <2>1. CASE j + 1 < i
    <3>1. j < i /\ j \in 1..(n - 1)
      BY <1>0, <1>3, <2>0, <2>1
    <3>2. timers_'[j] = timers_[j] /\ timers_'[j + 1] = timers_[j + 1]
      BY <1>5, <2>0, <2>1, <3>1
    <3>3. QED
      BY <1>0, <3>1, <3>2 DEF Ordered, n
  <2>2. CASE j + 1 = i
    <3>1. j < i
      BY <2>0, <2>2
    <3>2. timers_'[j] = timers_[j] /\ timers_'[j + 1] = new
      BY <1>5, <2>0, <2>2, <3>1
    <3>3. QED
      BY <1>1, <1>4, <3>1, <3>2
  <2>3. CASE j = i
    <3>1. ~(j + 1 < i) /\ j + 1 # i /\ ~(j < i)
      BY <2>0, <2>3
    <3>2. timers_'[j] = new /\ timers_'[j + 1] = timers_[j]
      BY <1>5, <2>0, <2>3, <3>1
    <3>3. QED
      BY <1>1, <1>2, <1>4, <3>1, <3>2
  <2>4. CASE j > i
    <3>1. ~(j + 1 < i) /\ j + 1 # i /\ ~(j < i) /\ j # i /\ j > 1
      BY <1>3, <2>0, <2>4
    <3>2. timers_'[j] = timers_[j - 1] /\ timers_'[j + 1] = timers_[j]
      BY <1>5, <2>0, <3>1
    <3>3. QED
      BY <1>0, <2>0, <3>1, <3>2 DEF Ordered, n
  <2>5. j + 1 < i \/ j + 1 = i \/ j = i \/ j > i
    BY <2>0
  <2>6. QED
    BY <2>1, <2>2, <2>3, <2>4, <2>5
<1>7. Len(timers_') - 1 = n
  BY <1>0, <1>5
<1>8. QED
  BY <1>5, <1>6, <1>7 DEF Ordered

\* A timer that is cancelled leaves the others in their order.
LEMMA CancelTimerMakes ==
    ASSUME TimersTyped, NEW w, cancelTimer(w)
    PROVE  timers_' \in Seq(Timer) /\ Ordered(timers_')
<1> DEFINE n == Len(timers_)
<1>0. timers_ \in Seq(Timer) /\ Ordered(timers_) /\ n \in Nat /\ DOMAIN timers_ = 1..n
  BY DEF TimersTyped
<1>1. CASE timers_' = timers_
  BY <1>0, <1>1
<1>2. ASSUME NEW i \in 1..n, timers_' = RemoveAt(timers_, i) PROVE timers_' \in Seq(Timer) /\ Ordered(timers_')
  <2>1. /\ timers_' \in Seq(Timer) /\ Len(timers_') = n - 1
        /\ \A j \in 1..(n - 1) : timers_'[j] = IF j < i THEN timers_[j] ELSE timers_[j + 1]
    BY <1>0, <1>2, RemoveMakes
  <2> HIDE DEF n
  <2>2. \A j \in 1..n : timers_[j].due \in Nat
    BY <1>0, TimerFields DEF n
  <2>3. ASSUME NEW j \in 1..(n - 2) PROVE timers_'[j].due <= timers_'[j + 1].due
    <3>1. /\ j \in Nat /\ i \in Nat /\ j \in 1..(n - 1) /\ j + 1 \in 1..(n - 1)
          /\ j \in 1..n /\ j + 1 \in 1..n /\ (j + 1) + 1 \in 1..n
      BY <1>0
    <3>2. timers_[j].due <= timers_[j + 1].due /\ timers_[j + 1].due <= timers_[(j + 1) + 1].due
      BY <1>0, <3>1 DEF Ordered, n
    <3>3. timers_[j].due <= timers_[(j + 1) + 1].due
      BY <2>2, <3>1, <3>2
    <3>4. CASE j < i
      <4>1. timers_'[j] = timers_[j]
            /\ (timers_'[j + 1] = timers_[j + 1] \/ timers_'[j + 1] = timers_[(j + 1) + 1])
        BY <2>1, <3>1, <3>4
      <4>2. QED
        BY <3>2, <3>3, <4>1
    <3>5. CASE ~(j < i)
      <4>1. ~(j + 1 < i)
        BY <3>1, <3>5
      <4>2. timers_'[j] = timers_[j + 1] /\ timers_'[j + 1] = timers_[(j + 1) + 1]
        BY <2>1, <3>1, <3>5, <4>1
      <4>3. QED
        BY <3>2, <4>2
    <3>6. QED
      BY <3>4, <3>5
  <2>4. Len(timers_') - 1 = n - 2
    BY <1>0, <2>1
  <2>5. QED
    BY <2>1, <2>3, <2>4 DEF Ordered
<1>3. QED
  BY <1>0, <1>1, <1>2 DEF cancelTimer

\* Time passes for all timers alike.
LEMMA ElapseMakes ==
    ASSUME TimersTyped, Elapse
    PROVE  timers_' \in Seq(Timer) /\ Ordered(timers_')
<1> DEFINE n == Len(timers_)
           less(k) == Max({k - 1, 0})
<1>0. timers_ \in Seq(Timer) /\ Ordered(timers_) /\ n \in Nat /\ DOMAIN timers_ = 1..n
  BY DEF TimersTyped
<1>1. \A j \in 1..n : timers_[j] \in Timer /\ timers_[j].due \in Nat
  BY <1>0, TimerFields
<1>2. ASSUME NEW k \in Nat PROVE less(k) = IF k = 0 THEN 0 ELSE k - 1
  BY MaxOfTwo
<1> HIDE DEF less
<1>3. timers_' = [j \in 1..n |-> [timers_[j] EXCEPT !.due = less(timers_[j].due)]]
  BY <1>0 DEF Elapse, less
<1>4. \A j \in 1..n : less(timers_[j].due) \in Nat
  BY <1>1, <1>2
<1>5. \A j \in 1..n : [timers_[j] EXCEPT !.due = less(timers_[j].due)] \in Timer
  BY <1>1, <1>4 DEF Timer
<1>6. \A j \in 1..n : timers_'[j].due = less(timers_[j].due)
  BY <1>1, <1>3 DEF Timer
<1> HIDE DEF n
<1>7. timers_' \in Seq(Timer) /\ Len(timers_') = n
  BY <1>0, <1>3, <1>5
<1>8. ASSUME NEW j \in 1..(n - 1) PROVE timers_'[j].due <= timers_'[j + 1].due
  <2>1. j \in 1..n /\ j + 1 \in 1..n
    BY <1>0
  <2>2. timers_[j].due <= timers_[j + 1].due
    BY <1>0 DEF Ordered, n
  <2>3. less(timers_[j].due) <= less(timers_[j + 1].due)
    BY <1>1, <1>2, <2>1, <2>2
  <2>4. QED
    BY <1>6, <2>1, <2>3
<1>9. QED
  BY <1>7, <1>8 DEF Ordered

\* A time in milliseconds.
LEMMA MsNatural ==
    ASSUME NEW time \in Nat
    PROVE  toMs(time) \in Nat
  BY PartsAssumption DEF toMs

\* The time-out of a call is a number or none.
LEMMA TimeoutNumber ==
    ASSUME CallsTyped, NEW t, NEW f \in Fiber, NEW ph, Calls(t, f, {"read", "write", "connect"}, ph)
    PROVE  TimeoutOf(f) \in Nat \cup {NoTimeout} /\ TimeoutWork(f) \in Sound
<1>1. /\ Instr(f).op \in {"read", "write", "connect"} /\ WellFormed(Instr(f)) /\ at[f] \in Nat \ {0}
      /\ at[f] \in DOMAIN setup.prog[f]
  BY CallGiven
<1>2. TimeoutWork(f) \in Sound
  BY <1>1 DEF TimeoutWork, Sound, SoundWork, Work, Instr
<1>3. Instr(f).fd \in Fd
  BY <1>1 DEF WellFormed
<1>4. fdCtx[Instr(f).fd] \in FdState
  BY <1>3 DEF CallsTyped
<1>5. /\ fdCtx[Instr(f).fd].recvTimeout \in Nat \cup {NoTimeout}
      /\ fdCtx[Instr(f).fd].sendTimeout \in Nat \cup {NoTimeout}
  BY <1>4 DEF FdState
<1>6. Instr(f).op = "connect" => Instr(f).ms \in Nat \cup {NoTimeout}
  BY <1>1 DEF WellFormed
<1>7. QED
  BY <1>1, <1>2, <1>5, <1>6 DEF TimeoutOf

\* Every step preserves TimersTyped.
LEMMA TimersStep ==
    ASSUME FiberTypes, Next
    PROVE  TimersTyped'
<1> DEFINE kept == timers_' \in Seq(Timer) /\ Ordered(timers_')
<1>0. TimersTyped /\ CallsTyped /\ timers_ \in Seq(Timer) /\ Ordered(timers_)
  BY DEF FiberTypes, TimersTyped
<1>1. ASSUME UNCHANGED timers_ PROVE kept
  BY <1>0, <1>1
<1>2. ASSUME NEW t \in Thread, NEW f \in Fiber, SleepBegins(t, f) PROVE kept
  <2>1. Calls(t, f, {"sleep"}, "call") /\ addTimer(WakeWork(f), toMs(Instr(f).time))
    BY <1>2 DEF SleepBegins
  <2>2. Instr(f).time \in Nat /\ WakeWork(f) \in Sound
    BY <1>0, <2>1, CallGiven, FiberWorkSound DEF WellFormed
  <2>3. QED
    BY <1>0, <2>1, <2>2, MsNatural, AddTimerMakes
<1>3. ASSUME NEW t \in Thread, NEW f \in Fiber, IoWouldBlock(t, f) PROVE kept
  <2>1. /\ Calls(t, f, {"read", "write", "connect"}, "call")
        /\ (TimeoutOf(f) = NoTimeout /\ UNCHANGED timers_)
           \/ (TimeoutOf(f) # NoTimeout /\ addTimer(TimeoutWork(f), TimeoutOf(f)))
    BY <1>3 DEF IoWouldBlock
  <2>2. TimeoutOf(f) \in Nat \cup {NoTimeout} /\ TimeoutWork(f) \in Sound
    BY <1>0, <2>1, TimeoutNumber
  <2>3. QED
    BY <1>0, <1>1, <2>1, <2>2, AddTimerMakes
<1>4. ASSUME NEW t \in Thread, NEW f \in Fiber, IoResumes(t, f) \/ IoAddFails(t, f) PROVE kept
  BY <1>0, <1>4, CancelTimerMakes DEF IoResumes, IoAddFails
<1>5. ASSUME NEW t \in Thread, ScheduleExpired(t) PROVE kept
  BY <1>0, <1>5, ExpiredMakes DEF ScheduleExpired
<1>6. ASSUME NEW t \in Thread, RunStep(t) \/ IdleChecks(t) \/ WakeUp(t) \/ HandleReport(t) \/ IdleYields(t)
      PROVE  UNCHANGED timers_
  BY <1>6 DEF RunStep, IdleChecks, WakeUp, HandleReport, IdleYields, ioVars
<1>7. ASSUME NEW t \in Thread, NEW f \in Fiber,
             \/ SleepEnds(t, f) \/ IoReturns(t, f) \/ IoAddsEvent(t, f) \/ Yields(t, f)
             \/ Watch(t, f) \/ WatchFails(t, f) \/ SetOption(t, f) \/ Close(t, f) \/ Socket(t, f) \/ CallbackReturns(t, f)
      PROVE  UNCHANGED timers_
  BY <1>7 DEF SleepEnds, IoReturns, IoAddsEvent, Yields, Watch, WatchFails, SetOption, Close, Socket, CallbackReturns, ioVars
<1>8. ASSUME NEW t \in Thread, RunWake(t) \/ RunTimeout(t) PROVE UNCHANGED timers_
  BY <1>8 DEF RunWake, RunTimeout
<1>9. ASSUME NEW t \in Thread, ThreadStep(t) PROVE kept
  BY <1>1, <1>2, <1>3, <1>4, <1>5, <1>6, <1>7, <1>8, <1>9 DEF ThreadStep, IdleStep, FiberStep
<1>10. ASSUME MainSchedules \/ MainStops \/ Outside PROVE kept
  BY <1>1, <1>10 DEF MainSchedules, MainStops, Outside, BecomesReady
<1>11. ASSUME TimePasses PROVE kept
  BY <1>0, <1>11, ElapseMakes DEF TimePasses
<1>12. QED
  <2>1. kept
    BY <1>9, <1>10, <1>11 DEF Next
  <2>2. Timer' = Timer
    BY SoundKept
  <2>3. QED
    BY <2>1, <2>2 DEF TimersTyped, Ordered

-----------------------------------------------------------------------------
\* What the pipe can be in.
PipeState == {"empty", "edge", "seen"}

\* A tickle fills the pipe or leaves it.
LEMMA TickleKeeps ==
    ASSUME pipe \in PipeState, NEW needed, tickle(needed)
    PROVE  pipe' \in PipeState
BY DEF tickle, PipeState

\* What HandleReport, close and the time-out of a call do to the pipe and to what the
\* kernel has to report.
LEMMA CancelKeeps ==
    ASSUME pipe \in PipeState, edge \subseteq Fd, NEW fd \in Fd, NEW evs, triggerEvents(fd, evs)
    PROVE  pipe' \in PipeState /\ edge' \subseteq Fd
BY TickleKeeps DEF triggerEvents, epoll_ctl

\* A new timer may fill the pipe.
LEMMA AddTimerKeeps ==
    ASSUME pipe \in PipeState, tickled_ \in BOOLEAN, NEW w, NEW ms, addTimer(w, ms)
    PROVE  pipe' \in PipeState /\ tickled_' \in BOOLEAN
<1>1. PICK i \in 1..(Len(timers_) + 1) : tickled_' = (tickled_ \/ i = 1) /\ tickle(i = 1 /\ ~tickled_)
  BY DEF addTimer
<1>2. pipe' \in PipeState
  BY <1>1, TickleKeeps
<1>3. QED
  BY <1>1, <1>2

\* Every step preserves the types of tickled_, the pipe and the kernel's list.
LEMMA PipeStep ==
    ASSUME FiberTypes, Next
    PROVE  tickled_' \in BOOLEAN /\ pipe' \in PipeState /\ edge' \subseteq Fd
<1> DEFINE kept == tickled_' \in BOOLEAN /\ pipe' \in PipeState /\ edge' \subseteq Fd
<1>0. CallsTyped /\ KernelTyped /\ TasksTyped /\ tickled_ \in BOOLEAN /\ pipe \in PipeState /\ edge \subseteq Fd
  BY DEF FiberTypes, KernelTyped, PipeState
<1>1. ASSUME NEW t \in Thread, RunStep(t) PROVE kept
  BY <1>0, <1>1, TickleKeeps DEF RunStep, ioVars
<1>2. ASSUME NEW t \in Thread, IdleStep(t) PROVE kept
  <2>1. CASE IdleChecks(t) \/ IdleYields(t)
    BY <1>0, <2>1 DEF IdleChecks, IdleYields, ioVars
  <2>2. CASE WakeUp(t)
    BY <1>0, <2>2 DEF WakeUp, PipeState
  <2>3. CASE ScheduleExpired(t)
    BY <1>0, <2>3, TickleKeeps DEF ScheduleExpired
  <2>4. CASE HandleReport(t)
    <3>1. PICK r \in reported[t] :
            \/ r.fd = "pipe" /\ pipe' = "empty" /\ UNCHANGED edge
            \/ UNCHANGED <<pipe, edge>>
            \/ r.fd # "pipe" /\ triggerEvents(r.fd, real_events(r))
      BY <2>4 DEF HandleReport
    <3>2. r.fd \in Fd \/ r.fd = "pipe"
      BY <1>0 DEF KernelTyped
    <3>3. UNCHANGED tickled_
      BY <2>4 DEF HandleReport
    <3>4. pipe' \in PipeState /\ edge' \subseteq Fd
      BY <1>0, <3>1, <3>2, CancelKeeps DEF PipeState
    <3>5. QED
      BY <1>0, <3>3, <3>4
  <2>5. QED
    BY <1>2, <2>1, <2>2, <2>3, <2>4 DEF IdleStep
<1>3. ASSUME NEW t \in Thread, NEW f \in Fiber, SleepBegins(t, f) PROVE kept
  BY <1>0, <1>3, AddTimerKeeps DEF SleepBegins
<1>4. ASSUME NEW t \in Thread, NEW f \in Fiber, IoWouldBlock(t, f) PROVE kept
  BY <1>0, <1>4, AddTimerKeeps DEF IoWouldBlock
<1>5. ASSUME NEW t \in Thread, NEW f \in Fiber, IoAddsEvent(t, f) \/ Watch(t, f) PROVE kept
  <2>1. /\ UNCHANGED <<tickled_, pipe>>
        /\ \E ops, ph, e, w : /\ Calls(t, f, ops, ph) /\ "sleep" \notin ops
                              /\ addEvent(Instr(f).fd, e, w)
    BY <1>5 DEF IoAddsEvent, Watch
  <2>2. PICK ops, ph, e, w : /\ Calls(t, f, ops, ph) /\ "sleep" \notin ops
                             /\ addEvent(Instr(f).fd, e, w)
    BY <2>1
  <2>3. Instr(f).fd \in Fd
    BY <1>0, <2>2, CallGiven DEF WellFormed
  <2>4. edge' \subseteq Fd
    BY <1>0, <2>2, <2>3 DEF addEvent, epoll_ctl
  <2>5. QED
    BY <1>0, <2>1, <2>4
<1>6. ASSUME NEW t \in Thread, NEW f \in Fiber, Close(t, f) PROVE kept
  <2>1. Calls(t, f, {"close"}, "call") /\ cancelAll(Instr(f).fd) /\ UNCHANGED tickled_
    BY <1>6 DEF Close
  <2>2. Instr(f).fd \in Fd
    BY <1>0, <2>1, CallGiven DEF WellFormed
  <2>3. UNCHANGED <<pipe, edge>> \/ triggerEvents(Instr(f).fd, events(Instr(f).fd))
    BY <2>1 DEF cancelAll
  <2>4. QED
    BY <1>0, <2>1, <2>2, <2>3, CancelKeeps
<1>7. ASSUME NEW t \in Thread, NEW f \in Fiber,
             \/ SleepEnds(t, f) \/ IoReturns(t, f) \/ IoAddFails(t, f) \/ Yields(t, f) \/ IoResumes(t, f)
             \/ WatchFails(t, f) \/ SetOption(t, f) \/ Socket(t, f) \/ CallbackReturns(t, f)
      PROVE  UNCHANGED <<tickled_, pipe, edge>>
  BY <1>7 DEF SleepEnds, IoReturns, IoAddFails, WatchFails, addEventFails, Yields, IoResumes, SetOption, Socket, CallbackReturns, ioVars
<1>8. ASSUME NEW t \in Thread, RunWake(t) PROVE kept
  BY <1>0, <1>8, TickleKeeps DEF RunWake
<1>9. ASSUME NEW t \in Thread, RunTimeout(t) PROVE kept
  <2>0. UNCHANGED tickled_
    BY <1>9 DEF RunTimeout
  <2>1. PICK f : f = work[t].fiber
    OBVIOUS
  <2>2. \/ UNCHANGED <<pipe, edge>>
        \/ /\ pc[t] = "resume" /\ work[t].kind = "timeout" /\ at[f] = work[t].call
           /\ cancelEvent(Instr(f).fd, EventOf(Instr(f).op))
    BY <1>9, <2>1 DEF RunTimeout
  <2>3. \/ UNCHANGED <<pipe, edge>>
        \/ Instr(f).fd \in Fd /\ triggerEvents(Instr(f).fd, {EventOf(Instr(f).op)})
    BY <2>1, <2>2, TimeoutGiven DEF cancelEvent
  <2>4. QED
    BY <1>0, <2>0, <2>3, CancelKeeps
<1>10. ASSUME NEW t \in Thread, FiberStep(t) PROVE kept
  BY <1>0, <1>3, <1>4, <1>5, <1>6, <1>7, <1>8, <1>9, <1>10 DEF FiberStep
<1>11. CASE MainSchedules \/ MainStops
  BY <1>0, <1>11, TickleKeeps DEF MainSchedules, MainStops
<1>12. CASE TimePasses
  BY <1>0, <1>12 DEF TimePasses, Elapse
<1>13. CASE Outside
  <2>1. PICK fd \in Fd, bit \in {"IN", "OUT", "ERR"} : BecomesReady(fd, bit)
    BY <1>13 DEF Outside
  <2>2. QED
    BY <1>0, <2>1 DEF BecomesReady
<1>14. QED
  BY <1>1, <1>2, <1>10, <1>11, <1>12, <1>13 DEF Next, ThreadStep

\* What a descriptor can be ready for.
Readiness == SUBSET {"IN", "OUT", "ERR"}

\* Every step preserves the type of what the descriptors are ready for.
LEMMA ReadyStep ==
    ASSUME FiberTypes, Next
    PROVE  ready' \in [Fd -> Readiness]
<1>0. ready \in [Fd -> Readiness]
  BY DEF FiberTypes, KernelTyped, Readiness
<1>1. ASSUME NEW t \in Thread, RunStep(t) \/ IdleStep(t) PROVE UNCHANGED ready
  BY <1>1 DEF RunStep, IdleStep, IdleChecks, WakeUp, ScheduleExpired, HandleReport, IdleYields, ioVars
<1>2. ASSUME NEW t \in Thread, NEW f \in Fiber, IoReturns(t, f) \/ Socket(t, f) PROVE ready' \in [Fd -> Readiness]
  <2>1. PICK fd : fd = Instr(f).fd
    OBVIOUS
  <2>2. \/ UNCHANGED ready \/ ready' = [ready EXCEPT ![fd] = ready[fd] \ {"IN"}]
        \/ ready' = [ready EXCEPT ![fd] = ready[fd] \ {"OUT"}] \/ ready' = [ready EXCEPT ![fd] = {}]
    BY <1>2, <2>1 DEF IoReturns, Socket
  <2>3. QED
    BY <1>0, <2>2 DEF Readiness
<1>3. ASSUME NEW t \in Thread, NEW f \in Fiber,
             \/ SleepBegins(t, f) \/ SleepEnds(t, f)
             \/ IoWouldBlock(t, f) \/ IoAddsEvent(t, f) \/ IoAddFails(t, f) \/ Yields(t, f) \/ IoResumes(t, f)
             \/ Watch(t, f) \/ WatchFails(t, f) \/ SetOption(t, f) \/ Close(t, f) \/ CallbackReturns(t, f)
      PROVE  UNCHANGED ready
  BY <1>3 DEF SleepBegins, SleepEnds, IoWouldBlock, IoAddsEvent, IoAddFails, Yields, IoResumes, Watch, WatchFails, SetOption, Close,
              CallbackReturns, ioVars
<1>4. ASSUME NEW t \in Thread, RunWake(t) \/ RunTimeout(t) PROVE UNCHANGED ready
  BY <1>4 DEF RunWake, RunTimeout
<1>5. ASSUME NEW t \in Thread, ThreadStep(t) PROVE ready' \in [Fd -> Readiness]
  BY <1>0, <1>1, <1>2, <1>3, <1>4, <1>5 DEF ThreadStep, FiberStep
<1>6. CASE MainSchedules \/ MainStops \/ TimePasses
  BY <1>0, <1>6 DEF MainSchedules, MainStops, TimePasses, Elapse
<1>7. CASE Outside
  <2>1. PICK fd \in Fd, bit \in {"IN", "OUT", "ERR"} : ready' = [ready EXCEPT ![fd] = ready[fd] \cup {bit}]
    BY <1>7 DEF Outside, BecomesReady
  <2>2. QED
    BY <1>0, <2>1 DEF Readiness
<1>8. QED
  BY <1>5, <1>6, <1>7 DEF Next

-----------------------------------------------------------------------------
\* The threads that wait do so for a number of units.
LEMMA WaitStep ==
    ASSUME FiberTypes, Next
    PROVE  wait' \in [Thread -> Int]
<1>0. wait \in [Thread -> Int] /\ timers_ \in Seq(Timer)
  BY DEF FiberTypes, KernelTyped, TimersTyped
<1>1. ASSUME NEW t \in Thread, IdleStep(t) PROVE wait' \in [Thread -> Int]
  <2>1. nextTimeout \in Int
    <3>1. CASE timers_ = <<>>
      BY <3>1, TimeoutAssumption DEF nextTimeout
    <3>2. CASE timers_ # <<>>
      <4>1. 1 \in 1..Len(timers_)
        BY <1>0, <3>2
      <4>2. timers_[1].due \in Nat
        BY <1>0, <4>1, TimerFields
      <4>3. toInt(timers_[1].due) \in Int
        <5>1. /\ 2 * (INT_MAX + 1) \in Nat \ {0}
              /\ timers_[1].due % (2 * (INT_MAX + 1)) \in Int
          BY <4>2, TimeoutAssumption
        <5> QED BY <5>1, TimeoutAssumption DEF toInt
      <4>4. Min({toInt(timers_[1].due), MAX_TIMEOUT}) \in Int
        BY <4>3, MinOfTwo, TimeoutAssumption
      <4>5. QED
        BY <3>2, <4>4 DEF nextTimeout
    <3>3. QED
      BY <3>1, <3>2
  <2>2. UNCHANGED wait \/ wait' = [wait EXCEPT ![t] = nextTimeout] \/ wait' = [wait EXCEPT ![t] = 0]
    BY <1>1 DEF IdleStep, IdleChecks, WakeUp, ScheduleExpired, HandleReport, IdleYields, ioVars
  <2>3. QED
    BY <1>0, <2>1, <2>2
<1>2. ASSUME NEW t \in Thread, RunStep(t) \/ FiberStep(t) PROVE UNCHANGED wait
  <2>1. CASE RunStep(t)
    BY <2>1 DEF RunStep, ioVars
  <2>2. ASSUME NEW f \in Fiber,
               \/ SleepBegins(t, f) \/ SleepEnds(t, f)
               \/ IoReturns(t, f) \/ IoWouldBlock(t, f) \/ IoAddsEvent(t, f) \/ IoAddFails(t, f) \/ Yields(t, f) \/ IoResumes(t, f)
               \/ Watch(t, f) \/ WatchFails(t, f) \/ SetOption(t, f) \/ Close(t, f) \/ Socket(t, f) \/ CallbackReturns(t, f)
        PROVE  UNCHANGED wait
    BY <2>2 DEF SleepBegins, SleepEnds, IoReturns, IoWouldBlock, IoAddsEvent, IoAddFails, Yields, IoResumes, Watch, WatchFails, SetOption,
                Close, Socket, CallbackReturns, inFiber, ioVars
  <2>3. CASE RunWake(t) \/ RunTimeout(t)
    BY <2>3 DEF RunWake, RunTimeout
  <2>4. QED
    BY <1>2, <2>1, <2>2, <2>3 DEF FiberStep
<1>3. CASE MainSchedules \/ MainStops \/ Outside
  BY <1>0, <1>3 DEF MainSchedules, MainStops, Outside, BecomesReady
<1>4. CASE TimePasses
  <2>1. wait' = [t \in Thread |-> IF wait[t] > 0 THEN wait[t] - 1 ELSE wait[t]]
    BY <1>4 DEF TimePasses, Elapse
  <2>2. QED
    BY <1>0, <2>1
<1>5. QED
  BY <1>0, <1>1, <1>2, <1>3, <1>4 DEF Next, ThreadStep

\* epoll_wait reports descriptors and the pipe.
LEMMA ReportStep ==
    ASSUME FiberTypes, Next
    PROVE  DOMAIN reported' = Thread /\ \A t \in Thread : \A r \in reported'[t] : r.fd \in Fd \cup {"pipe"}
<1> DEFINE typed(rep) == DOMAIN rep = Thread /\ \A t \in Thread : \A r \in rep[t] : r.fd \in Fd \cup {"pipe"}
<1>0. typed(reported) /\ edge \subseteq Fd
  BY DEF FiberTypes, KernelTyped
<1>1. ASSUME UNCHANGED reported PROVE typed(reported')
  BY <1>0, <1>1
<1>2. ASSUME NEW t \in Thread, WakeUp(t) PROVE typed(reported')
  <2>1. PICK new : new = reports \cup (IF pipe = "edge" THEN {[fd |-> "pipe", mask |-> {"IN"}]} ELSE {})
    OBVIOUS
  <2>2. \A r \in new : r.fd \in Fd \cup {"pipe"}
    BY <1>0, <2>1 DEF reports
  <2>3. reported' = [reported EXCEPT ![t] = new]
    BY <1>2, <2>1 DEF WakeUp
  <2>4. QED
    BY <1>0, <2>2, <2>3
<1>3. ASSUME NEW t \in Thread, HandleReport(t) PROVE typed(reported')
  <2>1. PICK r : reported' = [reported EXCEPT ![t] = reported[t] \ {r}]
    BY <1>3 DEF HandleReport
  <2>2. QED
    BY <1>0, <2>1
<1>4. ASSUME NEW t \in Thread, RunStep(t) \/ IdleChecks(t) \/ ScheduleExpired(t) \/ IdleYields(t)
      PROVE  UNCHANGED reported
  BY <1>4 DEF RunStep, IdleChecks, ScheduleExpired, IdleYields, ioVars
<1>5. ASSUME NEW t \in Thread, NEW f \in Fiber,
             \/ SleepBegins(t, f) \/ SleepEnds(t, f)
             \/ IoReturns(t, f) \/ IoWouldBlock(t, f) \/ IoAddsEvent(t, f) \/ IoAddFails(t, f) \/ Yields(t, f) \/ IoResumes(t, f)
             \/ Watch(t, f) \/ WatchFails(t, f) \/ SetOption(t, f) \/ Close(t, f) \/ Socket(t, f) \/ CallbackReturns(t, f)
      PROVE  UNCHANGED reported
  BY <1>5 DEF SleepBegins, SleepEnds, IoReturns, IoWouldBlock, IoAddsEvent, IoAddFails, Yields, IoResumes, Watch, WatchFails, SetOption,
              Close, Socket, CallbackReturns, inFiber, ioVars
<1>6. ASSUME NEW t \in Thread, RunWake(t) \/ RunTimeout(t) PROVE UNCHANGED reported
  BY <1>6 DEF RunWake, RunTimeout
<1>7. ASSUME MainSchedules \/ MainStops \/ TimePasses \/ Outside PROVE UNCHANGED reported
  BY <1>7 DEF MainSchedules, MainStops, TimePasses, Elapse, Outside, BecomesReady
<1>8. typed(reported')
  <2> HIDE DEF typed
  <2>1. QED
    BY <1>1, <1>2, <1>3, <1>4, <1>5, <1>6, <1>7 DEF Next, ThreadStep, IdleStep, FiberStep
<1>9. QED
  BY <1>8

\* Every step preserves KernelTyped.
LEMMA KernelStep ==
    ASSUME FiberTypes, Next
    PROVE  KernelTyped'
<1>1. tickled_' \in BOOLEAN /\ pipe' \in {"empty", "edge", "seen"} /\ edge' \subseteq Fd
  BY PipeStep DEF PipeState
<1>2. ready' \in [Fd -> SUBSET {"IN", "OUT", "ERR"}]
  BY ReadyStep DEF Readiness
<1>3. QED
  BY <1>1, <1>2, WaitStep, ReportStep DEF KernelTyped

-----------------------------------------------------------------------------
\* The states of a fiber.
FiberState == {"READY", "RUNNING", "TERM"}

\* A thread in a fiber is in one of the fibers.
LEMMA FiberOfThread ==
    ASSUME TasksTyped, NEW t \in Thread, pc[t] \in Active
    PROVE  work[t].fiber \in Fiber
BY FiberWorkSound DEF TasksTyped

\* What the events do to panic.
LEMMA PanicKeeps ==
    ASSUME panic \in BOOLEAN, Untouched \/ Triggers \/ Adds
    PROVE  panic' \in BOOLEAN
BY DEF Untouched, Triggers, Adds, triggerEvents, addEvent

\* Every step of Scheduler::run preserves FibersTyped.
LEMMA RunFibersStep ==
    ASSUME FiberTypes, NEW t \in Thread, RunStep(t)
    PROVE  FibersTyped'
<1>0. /\ TasksTyped
      /\ idleTerm \in [Thread -> BOOLEAN] /\ isStopped_ \in BOOLEAN /\ panic \in BOOLEAN
      /\ state_ \in [Fiber -> FiberState] /\ ctxSaved \in [Fiber -> BOOLEAN]
  BY DEF FiberTypes, FibersTyped, FiberState
<1>1. CASE TakeTask(t)
  BY <1>0, <1>1 DEF TakeTask, FibersTyped, FiberState
<1>2. CASE FindNothing(t) \/ GoIdle(t)
  BY <1>0, <1>2 DEF FindNothing, GoIdle, FibersTyped, FiberState
<1>3. CASE Resume(t)
  <2>1. PICK f : f = work[t].fiber
    OBVIOUS
  <2>2. /\ panic' = (panic \/ state_[f] \in {"TERM", "RUNNING"} \/ ~ctxSaved[f])
        /\ state_' = [state_ EXCEPT ![f] = "RUNNING"] /\ ctxSaved' = [ctxSaved EXCEPT ![f] = FALSE]
        /\ UNCHANGED <<idleTerm, isStopped_>>
    BY <1>3, <2>1 DEF Resume
  <2>3. panic' \in BOOLEAN
    BY <2>2
  <2>4. state_' \in [Fiber -> FiberState] /\ ctxSaved' \in [Fiber -> BOOLEAN]
    BY <1>0, <2>2 DEF FiberState
  <2>5. QED
    BY <1>0, <2>2, <2>3, <2>4 DEF FibersTyped, FiberState
<1>4. CASE SwapBack(t)
  <2>1. ctxSaved' = [ctxSaved EXCEPT ![work[t].fiber] = TRUE] /\ UNCHANGED <<idleTerm, isStopped_, state_, panic>>
    BY <1>4 DEF SwapBack
  <2>2. ctxSaved' \in [Fiber -> BOOLEAN]
    BY <1>0, <2>1
  <2>3. QED
    BY <1>0, <2>1, <2>2 DEF FibersTyped, FiberState
<1>5. QED
  BY <1>1, <1>2, <1>3, <1>4 DEF RunStep

\* Every step of a fiber preserves FibersTyped.
LEMMA FiberFibersStep ==
    ASSUME FiberTypes, NEW t \in Thread, FiberStep(t)
    PROVE  FibersTyped'
<1>0. /\ CallsTyped /\ TasksTyped
      /\ idleTerm \in [Thread -> BOOLEAN] /\ isStopped_ \in BOOLEAN /\ panic \in BOOLEAN
      /\ state_ \in [Fiber -> FiberState] /\ ctxSaved \in [Fiber -> BOOLEAN]
  BY DEF FiberTypes, FibersTyped, FiberState
<1> DEFINE rest == UNCHANGED <<idleTerm, isStopped_, state_, ctxSaved>>
<1>1. ASSUME NEW f \in Fiber,
             \/ SleepBegins(t, f) \/ SleepEnds(t, f)
             \/ IoReturns(t, f) \/ IoWouldBlock(t, f) \/ IoResumes(t, f)
             \/ SetOption(t, f) \/ Socket(t, f)
      PROVE  rest /\ UNCHANGED panic
  BY <1>1 DEF SleepBegins, SleepEnds, IoReturns, IoWouldBlock, IoResumes, SetOption, Socket, inFiber
<1>2. ASSUME NEW f \in Fiber, IoAddsEvent(t, f) \/ IoAddFails(t, f) \/ Watch(t, f) \/ WatchFails(t, f)
      PROVE  rest /\ panic' \in BOOLEAN
  BY <1>2 DEF IoAddsEvent, IoAddFails, Watch, WatchFails, addEvent, addEventFails, inFiber
<1>3. ASSUME NEW f \in Fiber, Close(t, f) PROVE rest /\ panic' \in BOOLEAN
  <2>1. panic' \in BOOLEAN
    BY <1>0, <1>3, CloseTriggers, PanicKeeps
  <2>2. QED
    BY <1>3, <2>1 DEF Close, inFiber
<1>4. ASSUME RunTimeout(t) PROVE rest /\ panic' \in BOOLEAN
  <2>1. panic' \in BOOLEAN
    BY <1>0, <1>4, TimeoutTriggers, PanicKeeps
  <2>2. QED
    BY <1>4, <2>1 DEF RunTimeout
<1>5. ASSUME RunWake(t) PROVE rest /\ UNCHANGED panic
  BY <1>5 DEF RunWake
<1>6. ASSUME NEW f \in Fiber, Yields(t, f) \/ CallbackReturns(t, f)
      PROVE  FibersTyped'
  <2>1. \/ UNCHANGED <<idleTerm, isStopped_, ctxSaved, panic, state_>>
        \/ /\ UNCHANGED <<idleTerm, isStopped_, ctxSaved, panic>>
           /\ \E s \in FiberState : state_' = [state_ EXCEPT ![work[t].fiber] = s]
    BY <1>6 DEF Yields, CallbackReturns, LeaveFiber, schedulerVars, FiberState
  <2>2. state_' \in [Fiber -> FiberState]
    BY <1>0, <2>1
  <2>3. QED
    BY <1>0, <2>1, <2>2 DEF FibersTyped, FiberState
<1>7. ASSUME rest, panic' \in BOOLEAN PROVE FibersTyped'
  BY <1>0, <1>7 DEF FibersTyped, FiberState
<1>8. QED
  BY <1>0, <1>1, <1>2, <1>3, <1>4, <1>5, <1>6, <1>7 DEF FiberStep

\* Every step preserves FibersTyped.
LEMMA FibersStep ==
    ASSUME FiberTypes, Next
    PROVE  FibersTyped'
<1>0. /\ KernelTyped
      /\ idleTerm \in [Thread -> BOOLEAN] /\ isStopped_ \in BOOLEAN /\ panic \in BOOLEAN
      /\ state_ \in [Fiber -> FiberState] /\ ctxSaved \in [Fiber -> BOOLEAN]
  BY DEF FiberTypes, FibersTyped, FiberState
<1>1. ASSUME NEW t \in Thread, IdleStep(t) PROVE FibersTyped'
  <2>1. UNCHANGED <<isStopped_, state_, ctxSaved>>
    BY <1>1 DEF IdleStep, IdleChecks, WakeUp, ScheduleExpired, HandleReport, IdleYields
  <2>2. UNCHANGED idleTerm \/ \E b \in BOOLEAN : idleTerm' = [idleTerm EXCEPT ![t] = b]
    BY <1>1 DEF IdleStep, IdleChecks, WakeUp, ScheduleExpired, HandleReport, IdleYields, LeaveIdle
  <2>3. CASE HandleReport(t)
    <3>1. panic' \in BOOLEAN
      BY <1>0, <2>3, ReportTriggers, PanicKeeps
    <3>2. QED
      BY <1>0, <2>1, <2>2, <3>1 DEF FibersTyped, FiberState
  <2>4. CASE ~HandleReport(t)
    <3>1. UNCHANGED panic
      BY <1>1, <2>4 DEF IdleStep, IdleChecks, WakeUp, ScheduleExpired, IdleYields
    <3>2. QED
      BY <1>0, <2>1, <2>2, <3>1 DEF FibersTyped, FiberState
  <2>5. QED
    BY <2>3, <2>4
<1>2. CASE MainSchedules \/ MainStops \/ TimePasses \/ Outside
  <2>1. UNCHANGED <<idleTerm, state_, ctxSaved, panic>> /\ (UNCHANGED isStopped_ \/ isStopped_' = TRUE)
    BY <1>2 DEF MainSchedules, Schedule, MainStops, StopScheduler, TimePasses, Elapse, Outside, BecomesReady,
                schedulerVars
  <2>2. QED
    BY <1>0, <2>1 DEF FibersTyped, FiberState
<1>3. QED
  BY <1>1, <1>2, RunFibersStep, FiberFibersStep DEF Next, ThreadStep

-----------------------------------------------------------------------------
\* What a fiber can be in the middle of.
Phase == {"call", "addEvent", "yield", "resumed"}

\* The options of a descriptor stay options.
LEMMA OptionStep ==
    ASSUME CallsTyped, NEW t, NEW f \in Fiber, SetOption(t, f) \/ Close(t, f) \/ Socket(t, f)
    PROVE  fdCtx' \in [Fd -> FdState]
<1>0. fdCtx \in [Fd -> FdState]
  BY DEF CallsTyped
<1>1. PICK ops : Calls(t, f, ops, "call") /\ "sleep" \notin ops
                 /\ (SetOption(t, f) => ops = {"recvTimeout", "sendTimeout", "fcntl", "ioctl"})
  BY DEF SetOption, Close, Socket
<1>2. Instr(f).op \in ops /\ WellFormed(Instr(f)) /\ Instr(f).fd \in Fd
  BY <1>1, CallGiven DEF WellFormed
<1>3. PICK i : i = Instr(f)
  OBVIOUS
<1>4. PICK x : x = fdCtx[i.fd]
  OBVIOUS
<1>5. x \in FdState /\ i.fd \in Fd
  BY <1>0, <1>2, <1>3, <1>4
<1>6. CASE SetOption(t, f)
  <2>1. /\ i.op \in {"recvTimeout", "sendTimeout", "fcntl", "ioctl"}
        /\ i.op \in {"recvTimeout", "sendTimeout"} => i.time \in Nat
        /\ i.op \in {"fcntl", "ioctl"} => i.flag \in BOOLEAN
    BY <1>1, <1>2, <1>3, <1>6 DEF WellFormed
  <2>0. PICK ms : ms = toMs(i.time) /\ (i.time \in Nat => ms \in Nat)
    BY MsNatural
  <2>2. \/ fdCtx' = [fdCtx EXCEPT ![i.fd] = x]
        \/ i.op = "recvTimeout" /\ fdCtx' = [fdCtx EXCEPT ![i.fd] = [x EXCEPT !.recvTimeout = ms, !.SO_RCVTIMEO = i.time]]
        \/ i.op = "sendTimeout" /\ fdCtx' = [fdCtx EXCEPT ![i.fd] = [x EXCEPT !.sendTimeout = ms, !.SO_SNDTIMEO = i.time]]
        \/ i.op = "fcntl" /\ fdCtx' = [fdCtx EXCEPT ![i.fd] = [x EXCEPT !.userNonblock = i.flag, !.nonblock = TRUE]]
        \/ i.op = "ioctl" /\ fdCtx' = [fdCtx EXCEPT ![i.fd] = [x EXCEPT !.userNonblock = i.flag, !.nonblock = i.flag]]
    BY <1>3, <1>4, <1>6, <2>0, <2>1 DEF SetOption
  <2>3. /\ i.op = "recvTimeout" => [x EXCEPT !.recvTimeout = ms, !.SO_RCVTIMEO = i.time] \in FdState
        /\ i.op = "sendTimeout" => [x EXCEPT !.sendTimeout = ms, !.SO_SNDTIMEO = i.time] \in FdState
    BY <1>5, <2>0, <2>1 DEF FdState
  <2>4. /\ i.op = "fcntl" => [x EXCEPT !.userNonblock = i.flag, !.nonblock = TRUE] \in FdState
        /\ i.op = "ioctl" => [x EXCEPT !.userNonblock = i.flag, !.nonblock = i.flag] \in FdState
    BY <1>5, <2>1 DEF FdState
  <2>5. PICK y \in FdState : fdCtx' = [fdCtx EXCEPT ![i.fd] = y]
    BY <1>5, <2>2, <2>3, <2>4
  <2>6. QED
    BY <1>0, <2>5
<1>7. CASE Close(t, f)
  <2>1. fdCtx' = [fdCtx EXCEPT ![i.fd] = [x EXCEPT !.open = FALSE]]
    BY <1>3, <1>4, <1>7 DEF Close
  <2>2. [x EXCEPT !.open = FALSE] \in FdState
    BY <1>5 DEF FdState
  <2>3. QED
    BY <1>0, <2>1, <2>2
<1>8. CASE Socket(t, f)
  <2>1. fdCtx' = [fdCtx EXCEPT ![i.fd] = NewFdCtx]
    BY <1>3, <1>8 DEF Socket
  <2>2. NewFdCtx \in FdState
    BY DEF NewFdCtx, FdState
  <2>3. QED
    BY <1>0, <2>1, <2>2
<1>9. QED
  BY <1>6, <1>7, <1>8

\* A call that returns or goes on leaves the fibers in calls.
LEMMA CallMoves ==
    ASSUME at \in [Fiber -> Nat \ {0}], phase \in [Fiber -> Phase], cnacelled \in [Fiber -> BOOLEAN],
           NEW f \in Fiber, (\E out : Return(f, out)) \/ (\E ph \in Phase : Continue(f, ph))
    PROVE  at' \in [Fiber -> Nat \ {0}] /\ phase' \in [Fiber -> Phase] /\ cnacelled' \in [Fiber -> BOOLEAN]
<1>1. CASE \E out : Return(f, out)
  <2>1. /\ at' = [at EXCEPT ![f] = at[f] + 1] /\ phase' = [phase EXCEPT ![f] = "call"]
        /\ cnacelled' = [cnacelled EXCEPT ![f] = FALSE]
    BY <1>1 DEF Return
  <2>2. at[f] + 1 \in Nat \ {0}
    OBVIOUS
  <2>3. QED
    BY <2>1, <2>2 DEF Phase
<1>2. CASE \E ph \in Phase : Continue(f, ph)
  BY <1>2 DEF Continue
<1>3. QED
  BY <1>1, <1>2

\* Every step preserves CallsTyped.
LEMMA CallsStep ==
    ASSUME FiberTypes, Next
    PROVE  CallsTyped'
<1> DEFINE moved == at' \in [Fiber -> Nat \ {0}] /\ phase' \in [Fiber -> Phase] /\ cnacelled' \in [Fiber -> BOOLEAN]
<1>0. /\ CallsTyped /\ setup \in Setups
      /\ toSchedule \in Seq([fiber : Fiber, thread : Thread \cup {AnyThread}])
      /\ at \in [Fiber -> Nat \ {0}] /\ phase \in [Fiber -> Phase] /\ cnacelled \in [Fiber -> BOOLEAN]
      /\ fdCtx \in [Fd -> FdState]
  BY DEF FiberTypes, CallsTyped, Phase
<1>1. ASSUME NEW t \in Thread, (RunStep(t) \/ IdleStep(t)) /\ UNCHANGED hookVars
      PROVE  moved /\ UNCHANGED <<toSchedule, fdCtx>>
  BY <1>0, <1>1 DEF hookVars
<1>2. ASSUME NEW t \in Thread, NEW f \in Fiber, SetOption(t, f) \/ Close(t, f) \/ Socket(t, f)
      PROVE  moved /\ UNCHANGED toSchedule /\ fdCtx' \in [Fd -> FdState]
  <2>1. (\E out : Return(f, out)) /\ UNCHANGED toSchedule
    BY <1>2 DEF SetOption, Close, Socket, inFiber
  <2>2. QED
    BY <1>0, <1>2, <2>1, CallMoves, OptionStep
<1>3. ASSUME NEW t \in Thread, NEW f \in Fiber,
             \/ SleepBegins(t, f) \/ SleepEnds(t, f)
             \/ IoReturns(t, f) \/ IoWouldBlock(t, f) \/ IoAddsEvent(t, f) \/ IoAddFails(t, f) \/ Yields(t, f) \/ IoResumes(t, f)
             \/ Watch(t, f) \/ WatchFails(t, f)
      PROVE  moved /\ UNCHANGED <<toSchedule, fdCtx>>
  <2>1. UNCHANGED <<toSchedule, fdCtx>>
    BY <1>3 DEF SleepBegins, SleepEnds, IoReturns, IoWouldBlock, IoAddsEvent, IoAddFails, Yields, IoResumes, Watch, WatchFails, inFiber
  <2>2. (\E out : Return(f, out)) \/ (\E ph \in Phase : Continue(f, ph))
    BY <1>3 DEF SleepBegins, SleepEnds, IoReturns, IoWouldBlock, IoAddsEvent, IoAddFails, Yields, IoResumes, Watch, WatchFails, Phase
  <2>3. QED
    BY <1>0, <2>1, <2>2, CallMoves
<1>4. ASSUME NEW t \in Thread, NEW f \in Fiber, CallbackReturns(t, f)
      PROVE  moved /\ UNCHANGED <<toSchedule, fdCtx>>
  <2>1. /\ UNCHANGED <<toSchedule, phase, cnacelled, fdCtx>>
        /\ \/ at' = at
           \/ at' = [at EXCEPT ![f] = 1]
    BY <1>4 DEF CallbackReturns
  <2>2. at' \in [Fiber -> Nat \ {0}]
    <3>1. 1 \in Nat \ {0}
      OBVIOUS
    <3>2. QED
      BY <1>0, <2>1, <3>1
  <2>3. QED
    BY <1>0, <2>1, <2>2
<1>5. ASSUME NEW t \in Thread, RunWake(t) PROVE moved /\ UNCHANGED <<toSchedule, fdCtx>>
  BY <1>0, <1>5 DEF RunWake, hookVars
<1>6. ASSUME NEW t \in Thread, RunTimeout(t) PROVE moved /\ UNCHANGED <<toSchedule, fdCtx>>
  BY <1>0, <1>6 DEF RunTimeout
<1>7. ASSUME NEW t \in Thread, ThreadStep(t)
      PROVE  moved /\ UNCHANGED toSchedule /\ fdCtx' \in [Fd -> FdState]
  BY <1>0, <1>1, <1>2, <1>3, <1>4, <1>5, <1>6, <1>7 DEF ThreadStep, FiberStep
<1>8. ASSUME MainSchedules
      PROVE  moved /\ UNCHANGED fdCtx /\ toSchedule' \in Seq([fiber : Fiber, thread : Thread \cup {AnyThread}])
  <2>1. toSchedule # <<>> /\ toSchedule' = Tail(toSchedule) /\ UNCHANGED <<at, phase, cnacelled, fdCtx>>
    BY <1>8 DEF MainSchedules
  <2>2. Tail(toSchedule) \in Seq([fiber : Fiber, thread : Thread \cup {AnyThread}])
    BY <1>0, <2>1, HeadAndTail
  <2>3. QED
    BY <1>0, <2>1, <2>2
<1>9. ASSUME MainStops \/ TimePasses \/ Outside PROVE moved /\ UNCHANGED <<toSchedule, fdCtx>>
  BY <1>0, <1>9 DEF MainStops, TimePasses, Outside, hookVars
<1>10. /\ moved /\ fdCtx' \in [Fd -> FdState]
       /\ toSchedule' \in Seq([fiber : Fiber, thread : Thread \cup {AnyThread}])
  BY <1>0, <1>7, <1>8, <1>9 DEF Next
<1>11. QED
  BY <1>0, <1>10, SetupKept DEF CallsTyped, Phase

-----------------------------------------------------------------------------
\* The invariant holds initially.
LEMMA FiberInitial ==
    ASSUME Init
    PROVE  FiberInv
<1>1. TasksTyped
  BY DEF Init, SchedulerInit, TasksTyped, Active, Pc
<1>2. FibersTyped
  BY DEF Init, SchedulerInit, FibersTyped
<1>3. TimersTyped
  <2>1. timers_ = <<>>
    BY DEF Init, IOManagerInit
  <2>2. timers_ \in Seq(Timer) /\ Len(timers_) = 0
    BY <2>1
  <2>3. QED
    BY <2>2 DEF TimersTyped, Ordered
<1>4. ContextsTyped
  BY DEF Init, IOManagerInit, ContextsTyped
<1>5. KernelTyped
  <2>1. tickled_ = FALSE /\ pipe = "empty" /\ ready = [fd \in Fd |-> {"OUT"}] /\ edge = {}
    BY DEF Init, IOManagerInit
  <2>2. wait = [t \in Thread |-> 0] /\ reported = [t \in Thread |-> {}]
    BY DEF Init, IOManagerInit
  <2>3. ready \in [Fd -> SUBSET {"IN", "OUT", "ERR"}]
    BY <2>1
  <2>4. wait \in [Thread -> Int]
    BY <2>2
  <2>5. DOMAIN reported = Thread /\ \A t \in Thread : \A r \in reported[t] : r.fd \in Fd \cup {"pipe"}
    BY <2>2
  <2>6. QED
    BY <2>1, <2>3, <2>4, <2>5 DEF KernelTyped
<1>6. CallsTyped
  <2>1. setup \in Setups /\ toSchedule = setup.main
    BY DEF Init
  <2>2. toSchedule \in Seq([fiber : Fiber, thread : Thread \cup {AnyThread}])
    BY <2>1, SetupAssumption
  <2>3. fdCtx \in [Fd -> FdState]
    BY DEF Init, NewFdCtx, FdState
  <2>4. /\ at \in [Fiber -> Nat \ {0}] /\ phase \in [Fiber -> {"call", "addEvent", "yield", "resumed"}]
        /\ cnacelled \in [Fiber -> BOOLEAN]
    BY DEF Init
  <2>5. QED
    BY <2>1, <2>2, <2>3, <2>4 DEF CallsTyped
<1>7. ThreadsCounted
  <2>1. At(Idling) = {} /\ At(Active) = {}
    BY DEF Init, SchedulerInit, At, Idling, Active
  <2>2. idleThreadCnt_ = 0 /\ activeThreadCnt_ = 0
    BY DEF Init, SchedulerInit
  <2>3. QED
    BY <2>1, <2>2, FS_EmptySet DEF ThreadsCounted
<1>8. EventsCounted
  <2>1. Registered = {}
    BY DEF Init, IOManagerInit, Registered, events
  <2>2. pendingEventCnt_ = 0
    BY DEF Init, IOManagerInit
  <2>3. QED
    BY <2>1, <2>2, FS_EmptySet DEF EventsCounted
<1>9. QED
  BY <1>1, <1>2, <1>3, <1>4, <1>5, <1>6, <1>7, <1>8 DEF FiberInv, FiberTypes

\* Every step preserves the invariant.
LEMMA FiberInvariantStep ==
    ASSUME FiberInv, Next
    PROVE  FiberInv'
<1>0. FiberTypes /\ ThreadsCounted /\ EventsCounted
  BY DEF FiberInv
<1>1. TasksTyped'
  <2>1. tasks_' \in Seq(Task)
    BY <1>0, TasksStep
  <2>2. /\ pc' \in [Thread -> Pc] /\ work' \in [Thread -> Sound \cup {NoWork}]
        /\ \A t \in Thread : pc'[t] \in Active => work'[t] \in Sound
    BY <1>0, WorkStep
  <2>3. Sound' = Sound /\ Task' = Task
    BY SoundKept
  <2>4. QED
    BY <2>1, <2>2, <2>3 DEF TasksTyped
<1>2. FibersTyped' /\ TimersTyped' /\ ContextsTyped' /\ KernelTyped' /\ CallsTyped'
  BY <1>0, FibersStep, TimersStep, ContextsStep, KernelStep, CallsStep
<1>3. ThreadsCounted' /\ EventsCounted'
  BY <1>0, ThreadsCountedStep, EventsCountedStep
<1>4. QED
  BY <1>1, <1>2, <1>3 DEF FiberInv, FiberTypes

\* So does a step that changes nothing.
LEMMA FiberStutter ==
    ASSUME FiberInv, UNCHANGED vars
    PROVE  FiberInv'
<1>1. UNCHANGED <<tasks_, pc, work, idleTerm, activeThreadCnt_, idleThreadCnt_, isStopped_, state_, ctxSaved, panic>>
  BY DEF vars, schedulerVars
<1>2. UNCHANGED <<timers_, tickled_, fdContexts_, pendingEventCnt_, pipe, ready, edge, wait, reported>>
  BY DEF vars, ioVars
<1>3. UNCHANGED <<setup, toSchedule, at, phase, cnacelled, fdCtx>>
  BY DEF vars, hookVars
<1>4. Sound' = Sound /\ Task' = Task /\ Timer' = Timer
  BY <1>3 DEF Sound, Task, Timer
<1>5. TasksTyped' /\ FibersTyped' /\ TimersTyped'
  BY <1>1, <1>2, <1>4 DEF FiberInv, FiberTypes, TasksTyped, FibersTyped, TimersTyped
<1>6. ContextsTyped' /\ KernelTyped' /\ CallsTyped'
  BY <1>2, <1>3, <1>4 DEF FiberInv, FiberTypes, ContextsTyped, KernelTyped, CallsTyped
<1>7. ThreadsCounted' /\ EventsCounted'
  BY <1>1, <1>2 DEF FiberInv, ThreadsCounted, EventsCounted, At, Registered, events
<1>8. QED
  BY <1>5, <1>6, <1>7 DEF FiberInv, FiberTypes

\* The invariant holds always.
LEMMA FiberInvariant == Spec => []FiberInv
<1>1. Init => FiberInv
  BY FiberInitial
<1>2. FiberInv /\ [Next]_vars => FiberInv'
  BY FiberInvariantStep, FiberStutter
<1>3. QED
  BY <1>1, <1>2, PTL DEF Spec

\* The types of scheduler.cpp, iomanager.cpp and hook.cpp are kept by every step:
\* the counters never fall below zero, a thread with a task has one, and the set of
\* timers stays in the order of Timer::Comparator whatever is added, cancelled or
\* taken from it.
THEOREM FiberTypeCorrect == Spec => []TypeOK
<1>1. FiberInv => TypeOK
  <2> SUFFICES ASSUME FiberInv PROVE TypeOK
    OBVIOUS
  <2>0. FiberTypes /\ ThreadsCounted
    BY DEF FiberInv
  <2>1. Sound \subseteq Work
    BY FiberWorkSound
  <2>2. tasks_ \in Seq([work : Work, thread : Thread \cup {AnyThread}])
    <3>1. Task \subseteq [work : Work, thread : Thread \cup {AnyThread}]
      BY <2>1 DEF Task
    <3>2. QED
      BY <2>0, <3>1, SeqGrows DEF FiberTypes, TasksTyped
  <2>3. timers_ \in Seq([work : Work, due : Nat])
    <3>1. Timer \subseteq [work : Work, due : Nat]
      BY <2>1 DEF Timer
    <3>2. QED
      BY <2>0, <3>1, SeqGrows DEF FiberTypes, TimersTyped
  <2>4. work \in [Thread -> Work \cup {NoWork}]
    BY <2>0, <2>1 DEF FiberTypes, TasksTyped
  <2>5. fdContexts_ \in [Fd -> [Event -> Work \cup {NoWork}]]
    <3>1. [Event -> Sound \cup {NoWork}] \subseteq [Event -> Work \cup {NoWork}]
      BY <2>1
    <3>2. QED
      BY <2>0, <3>1 DEF FiberTypes, ContextsTyped
  <2>6. SchedulerTypeOK
    BY <2>0, <2>2, <2>4, CountsNatural DEF FiberTypes, TasksTyped, FibersTyped, SchedulerTypeOK, Pc
  <2>7. IOManagerTypeOK
    BY <2>0, <2>3, <2>5 DEF FiberTypes, TimersTyped, Ordered, ContextsTyped, KernelTyped, IOManagerTypeOK
  <2>8. QED
    BY <2>0, <2>6, <2>7 DEF FiberTypes, CallsTyped, TypeOK
<1>2. QED
  BY <1>1, FiberInvariant, PTL

\* As long as no CondPanic has failed, idleThreadCnt_ and activeThreadCnt_ are the
\* numbers of threads in idle() and with a task, and pendingEventCnt_ that of the
\* registered events, however registrations, time-outs, close() and reports of
\* epoll_wait interleave: what IOManager::stopping and tickle decide by is right.
THEOREM CountersAreExact == Spec => [](NoPanic => CountersExact)
<1>1. FiberInv => (NoPanic => CountersExact)
  BY DEF FiberInv, ThreadsCounted, EventsCounted, At, Idling, Active, Registered, NoPanic, CountersExact
<1>2. QED
  BY <1>1, FiberInvariant, PTL
=============================================================================
