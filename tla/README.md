# RaftStorage in TLA+

A model of `rpc-storage-cpp` (RaftStorage): a key-value store replicated with
Raft, on top of its own RPC layer and a fiber library.  Paths below are relative
to the repository; `raft.cpp` is `src/raftCore/raft.cpp`.

## Inventory

| Component | State it keeps | Operations | Talks to | What is hard about it |
|---|---|---|---|---|
| Raft (`raftCore/raft.cpp`) | term, vote, status, log after the snapshot, snapshot index and term, commit and applied index, next/match index per peer | tickers (`electionTimeOutTicker`, `leaderHearBeatTicker`, `applierTicker`), RPC handlers (`RequestVote`, `AppendEntries1`, `InstallSnapshot`), callers on detached threads (`sendRequestVote`, `sendAppendEntries`, `leaderSendSnapShot`), `Start`, `Snapshot`, `init` | peers by RPC; KvServer through `applyChan`, `Start`, `Snapshot`; Persister | the lock is released during every RPC; answers come late, in any order, or not at all; indexes are relative to a moving snapshot; assertions end the process |
| Persister (`raftCore/Persister.cpp`) | two files and their streams, a size | `Save`, `SaveRaftState`, `ReadSnapshot`, `ReadRaftState`, constructor | Raft, KvServer | what is on disk when a process starts again |
| KvServer (`raftCore/kvServer.cpp`) | skip list, `m_lastRequestId`, `waitApplyCh`, last snapshot index | `Get`, `PutAppend`, `ReadRaftApplyCommandLoop` and what it calls | Raft, Clerk | a request is in three hands at once: its handler, the log, the apply loop; time-outs and retries |
| Clerk (`raftClerk/clerk.cpp`) | client id, request id, last leader | `Get`, `Put`, `Append` | KvServer by RPC | retries at the next server while the old call is still served |
| SkipList (`skipList/include/skipList.h`) | nodes with forward pointers on several levels, level, count | `insert_element`, `delete_element`, `insert_set_element`, `search_element`, `dump_file`, `load_file` | KvServer | pointer surgery on several levels |
| LockQueue, util (`common`) | a queue, a mutex, a condition variable | `Push`, `Pop`, `timeOutPop`; `myAssert` | KvServer, Raft | time-out against a late push |
| RPC (`rpc/mprpcchannel.cpp`, `rpc/rpcprovider.cpp`) | one socket per peer | `CallMethod`, `OnMessage`, `SendRpcResponse` | everything remote | one socket for many threads, no pairing of answers with requests, framing by luck |
| MprpcConfig | key/value pairs of a file | `LoadConfigFile`, `Load` | start-up | nothing over time |
| Fiber, Scheduler (`fiber/`) | fibers' states, the task queue, idle and active counts | `scheduler`, `run`, `tickle`, `idle`, `yield` | Raft's two tickers run on it | lost wake-ups, stopping |
| IOManager, timers, hooks (`fiber/`) | events per descriptor, the timer set | `addEvent`, `delEvent`, `cancelEvent`, `idle`, `addTimer`, `addConditionTimer` | hooked system calls | a time-out racing the event it guards |
| message classes (`*.pb.cc`, generated) | the fields of a message | `Clear`, `_InternalSerialize`, `_InternalParse`, `MergeFrom`; the services' `CallMethod` and prototypes | RPC | answers carry neither type nor length: what is read depends on what arrives together |
| examples | - | - | - | workloads only |

What makes each component correct:

- **Raft**: one leader per term; a leader is not disturbed within its term; what
  is counted as committed is on a majority; a leader has everything committed;
  snapshot, applied, committed and last index stay in this order and none goes
  back; no assertion fails; what was promised (term, vote, log) survives a
  restart.
- **KvServer and Clerk**: a request is executed once however often it is retried;
  OK means executed; replicas hold the same; a read is not older than the own
  writes.
- **SkipList**: it is a map; what is dumped is what is loaded.
- **RPC**: a call gets its own answer, whole, or an error.
- **Persister**: what is saved is what is read.
- **Fibers**: a task that was scheduled runs; a timer fires once, and either the
  event or its time-out wins.

## Modules

| Module | Models | Theorems |
|---|---|---|
| `Raft` | `raft.cpp` with the messages of `raftRPC.proto`; restart with `Persister.cpp` | - |
| `RaftProperties` | the properties of `Raft` | - |
| `MCRaft` | bounds, constraints and symmetry for TLC | - |
| `RaftProofs` | - | types, numbering of the log, order and monotonicity of the indexes |
| `RaftElectionProofs` | - | one leader per term |
| `RaftLogProofs` | - | index and term tell the command; what a leader believes of its peers |
| `RaftSafetyProofs` | - | no assertion fails, a leader is undisturbed (without snapshots) |
| `RaftCommitProofs` | - | what is committed is on a majority (without snapshots) |
| `KvServer` | `kvServer.cpp`, `clerk.cpp`, the wait channels of `util.h`; consensus reduced to what the service sees of `raft.cpp` | - |
| `KvServerProperties`, `MCKvServer` | its properties, its instances | - |
| `KvServerProofs` | - | writes executed once, replicas agree, OK means executed, a lone clerk reads its last write |
| `SkipList` | `skipList.h`, pointer by pointer | - |
| `SkipListCalls` | the list with a history of the operation called last | - |
| `KvMap` | the abstract specification of the store | - |
| `KvSnapshot` | how a snapshot travels: the apply loop of `kvServer.cpp`, the snapshot file of `Persister.cpp`, the applier and the detached thread of `raft.cpp` | - |
| `Scheduler` | `scheduler.cpp`, `fiber.cpp` | - |
| `IOManager` | `iomanager.cpp`, `timer.cpp`; extends `Scheduler` | - |
| `Hook` | `hook.cpp`, `fd_manager.cpp`; composes the three into the fiber runtime | - |
| `FiberProperties`, `MCFibers` | its properties, its instances | - |
| `FiberProofs` | - | types of the fiber runtime, exact counters |
| `Messages` | the message classes and services protoc has generated | - |
| `Rpc` | `mprpcchannel.cpp`, `rpcprovider.cpp`, `mprpccontroller.cpp` | - |
| `RpcCalls` | the abstract specification of a remote call | - |
| `RpcProperties`, `MCRpc` | the properties of `Rpc` and `Messages`, the instances | - |
| `RpcProofs` | - | nothing left on a connection between calls, own answers, `Rpc` implements `RpcCalls` |

### Raft

The variables have the names of the members of class `Raft`, as functions of the
server.  All members are protected by `m_mtx`, so an action is one critical
section.  The three functions that send an RPC release the lock for the call;
each is three actions:

| Call | Request | Execution | Answer |
|---|---|---|---|
| vote | `electionTimeOutTicker` / `doElection` | `RequestVote` | `sendRequestVote` |
| append | `leaderHearBeatTicker` / `doHeartBeat` | `AppendEntries1` | `sendAppendEntries` |
| snapshot | `doHeartBeat` (starts the thread), `SendSnapShot` (takes the lock) | `InstallSnapshot` | `leaderSendSnapShot` |

`CallFails` is a call with `ok == false`, which may or may not have been executed;
`ConnectionClosed` is the empty answer that the channel makes of a connection
closed by a server that has exited.  The remaining actions are `Start`,
`applierTicker` (with `getApplyLogs`) and `Snapshot`, called by KvServer for an
index it has been given.  A failed `myAssert` sets `exited` to the place of the
assertion.  `votedNum` and `appendNums` are the shared counters of an election and
of a heartbeat round; they are kept as the sets of servers counted, since a server
answers one call once.  `elected` is a history variable.

The loop of `AppendEntries1` (`Merged`) keeps the code's rule: a conflicting entry
is replaced in place and what follows it stays.  The search for the next index
(`BacksUpTo`) is a relation over the results of the code's loop.

Abstractions and assumptions:

- Timers are left out.  An election or a heartbeat may begin whenever the function
  allows it; the tickers read their conditions without the lock, so no property of
  safety may depend on them.
- A call gets its own answer, an empty one, or fails.  The channel guarantees this
  as long as one thread uses it at a time and messages arrive whole (run `rpc`), and not
  otherwise (run `rpc_shared`, and the known limitations below).
- `persist()` is left out, because the constructor of `Persister` empties both files
  before `init` reads them.  `Restart` therefore begins with the state of `Init`.
- When `doHeartBeat` exits in the middle of its loop, the calls for the peers before
  that one are taken as not sent.
- At least two servers: with one, no vote is ever counted and no leader elected.
- `leaderUpdateCommitIndex` is never called by the program and is not an action.

### KvServer

A handler (`Get` or `PutAppend`) is a record with a program counter whose steps
lie between two releases of a lock: `Start`, `MakeChannel`, `PopChannel` or
`TimeOut`, then for a time-out `GetState` and `CheckDuplicate`, for a read
`ExecuteGetOpOnKVDB`, and `EraseChannel`.  The apply loop is `PopMessage` (with the
look for duplicates), `ExecuteOnKVDB`, `SendMessageToWaitChan`.  A clerk has one
request at a time (`Request`, `Retry`, `CallFails`, `Return`); a call it gives up
goes on at the server.  Put and Append have the same effect in the code
(`ExecuteAppendOpOnKVDB` replaces the value), hence one action.

A failed call (`CallFails`) is one with `ok == false`, after which the clerk goes on to the
next server, or one whose connection was closed: the channel makes an empty answer of it, its
`err` is none of the three the clerk knows, and the loop tries the same server again.

Consensus is three actions (`Elect`, `Depose`, `Commit`) and `Delivered`, each reduced from the
part of `raft.cpp` that the service can see, with what `Raft` shows or assumes: agreement on
what is committed, logs that never become shorter (theorem `IndexesAdvance`), and leaders
that have what is committed.  The last does not hold of the code in all cases, see the run
`raft_completeness`; here the service is examined on top of a consensus that works.  Several
servers may believe to be leader.  The store is a single key, which is enough for what the
properties tell apart.  A value is the request that wrote it.

`ExecuteGetOpOnKVDB` writes the id of its request into `m_lastRequestId` whatever is there
(kvServer.cpp:33).  The Get of a call its clerk has given up can come after later requests
of the clerk and take the id back; another copy of a later write is then executed again, and
the server may differ from the others.  The model does this, and the history variable `lowered`
has the servers it has happened to.  `AppliedOnce` and `ReplicasAgree` are about the other
servers, `ReadYourWrites` about their answers; `OkMeansApplied` is about all.

### SkipList

A list is a record: the nodes allocated (address to key, value and pointers), the
level and the count.  All operations are translated as operators on such records, so
that a deleted node is really gone and a pointer to it dangles.  The random level
is any of `1..MaxLevel`.  `SkipListCalls` adds the operation called last, its arguments and
what it returned.  `KvMap` has the same variable, so that `ImplementsMap` (under the mapping
that reads the lowest level) compares an operation with its counterpart: an insert must
insert this key with this value, and do nothing but report it when the key is there.  What
`load_file` brings is stated in `KvMap` as it is: every key comes back with itself as its
value (skipList.h:228).

### KvSnapshot

One leader, any number of followers and no change of term; what is in the logs is
external.  The steps are those between which another thread may run: `getApplyLogs`
under Raft's lock and `applierPushes` after it, `leaderSendSnapShot`,
`InstallSnapshot`, the detached thread's `pushMsgToKvServer`, and one turn of the apply
loop, `GetCommandFromRaft` (which may take a snapshot) or `GetSnapShotFromRaft`.  The
snapshot file is a sequence of words, because `ReadSnapshot` reads one word and empties
the file when it opens it again.  Whether the state is large enough for a snapshot is a
free choice.  An archive that ends too early throws in the constructor of
`text_iarchive`, which nobody catches: `alive` becomes FALSE.

### Fiber runtime: Scheduler, IOManager, Hook

A thread is at one point of `run()` or `idle()` (`pc`); taking a task, looking in
vain, going idle, resuming, leaving a fiber and saving its context are steps of their
own, because other threads and the kernel act between them.  `Scheduler` has the task
list, the counters and the states of the fibers, `IOManager` adds `idle()`, the events of
each descriptor, the timer set and the pipe of `tickle`, `Hook` what the fibers do.
A hooked call is a sequence of phases: `call` (the system call), `addEvent` (the
condition timer is set), `yield`, `resumed`.  `do_io` and `connect_with_timeout` share
their actions; they differ in what follows the wake-up.  A failed `CondPanic`, and a
context resumed before it was saved, set `panic`.

Time is relative: timers and `epoll_wait` carry the time left, `TimePasses` lets one
millisecond go by.  Callers give `usleep`, `nanosleep` and `setsockopt` a time in parts of a
millisecond (`PartsPerMs`), which `toMs` truncates as the code does (hook.cpp:175, 191, 477).
The time to the next timer is cut to an int (`toInt`, iomanager.cpp:252), and a negative one
makes `epoll_wait` wait without end.  The products `seconds * 1000` and `tv_sec * 1000` of
the sleeps are computed in 32 bits; sleeps that overflow them (24 days) are left out
(`WellFormed`).  `epoll_ctl` may refuse an event, because the descriptor is closed or the
kernel has no room (`full`): the call then fails (`IoAddFails`, `WatchFails`).  The kernel
(`epoll_ctl`, `reports`, `BecomesReady`) is external and edge-triggered, as the code asks for.
A setup of `MCFibers` says which threads there are and what each fiber does.

### Messages, Rpc and RpcCalls

A generated class is a schema; `Clear`, `Serialize`, `Parse` and `MergeFrom` are
written once and take the schema.  On the wire a message is a sequence of
units (a varint field, the head of a field with a length, a piece of text), cut anywhere
between two of them.  Fields with default values are not written, unknown ones skipped.

`Rpc` takes `CallMethod` apart at its system calls, since `m_clientFd` is read anew for
each: `CallMethod`, `Connect` or `ConnectFails`, `Send` or `SendFails`, `RecvBegins`,
`Recv` or `RecvFails`.  One `recv` takes at most `RecvSize` units of what has been sent, or
fewer if the network splits answers (`Received`); what it does not take stays on the
connection.  `OnMessage` takes all that has arrived out of the buffer and
serves the first request in it as far as it is there: nobody looks whether the header is
complete (rpcprovider.cpp:130), so that one that is cut before `args_size` is read as a
request without arguments.  `SendRpcResponse` is the end of the handler; an answer without
bytes sends nothing.  TCP and muduo are external: connections are up, closed (FIN) or reset
(RST) by the server, `split` says whether requests and answers may arrive in parts, and
`maxAnswer` how long answers get.

`RpcCalls` is what Raft and the clerks rely on: a request is executed at most once, by the
method it names, and, where calls are `reliable`, a call returns the answer to it, the empty
message, or a failure.  `ImplementsCalls` is the refinement, with `made` mapped to the calls
begun so far and `reliable` to `Reliable`: the channel has one thread, nothing is split and
an answer fits into one recv.  Nothing in the code sees to any of these; run `rpc_shared` and
the known limitations show what happens without them.

## Runs

All runs are complete searches of their instance; none stops at a depth.
`CHECK_DEADLOCK FALSE` because the bounds let every instance come to an end.

| Run | Result | Question |
|---|---|---|
| `raft_elections` | pass | contested elections of two terms with five calls in flight; then logs that differ by three terms |
| `raft_replication` | pass | two leaders, two commands for one index, overlapping rounds |
| `raft_snapshots` | pass | snapshots cut before, at and after the end of the log, sent twice, by two leaders, to a follower that exits |
| `raft_exit` | violation | a call older than the follower's snapshot |
| `raft_restart` | violation | a server that is started again |
| `raft_completeness` | violation | elections after an entry was replaced in place |
| `kv_service` | pass | repeated and failed writes and reads, with a late read that takes an id back; reads beside the apply loop over a change of leader; two writes competing for one index |
| `skiplist` | pass | all levels after any sequence of operations; each operation against its counterpart in the map |
| `fibers` | pass | seven programs: tickers, reader and close, reader and writer, client, watcher, pinned tasks, a calling thread that takes part |
| `rpc` | pass | clerks, a peer of Raft, split requests and answers, long answers, a shared channel; servers that close and come back; the message classes |
| `rpc_shared` | violation | two heartbeats to one peer on one socket |
| `snapshot_install` | violation | a snapshot that is sent in two rounds |

Bounds.  Three servers are the smallest cluster with a majority that is not
everybody.  Two terms are enough for two candidates or two leaders to meet, three
for a log with two foreign terms in it.  `MaxInFlight` bounds the calls under way:
with two or three, calls of two rounds or of two leaders overtake each other, and
every answer can still be lost; before the first command `raft_elections` affords
five.  `ElectionsInFull` and `SnapshotsInFull` narrow the bounds as a behaviour gets
longer: in `raft_elections` to two calls once there are entries or heartbeats, in
`raft_snapshots` from three rounds and calls to two once there is a second
leader or a second entry.  `UncontestedElections` keeps two servers from campaigning
in the same term where a run is about replication; `raft_elections` is about that case,
and the theorems about replication hold with contested elections, too.  `AlmostSequential` narrows the
search for the long counterexample of `raft_completeness`; it restricts a violation, not
a claim.  Servers and commands are symmetric: no definition orders them.

For `KvServer`, two servers suffice to change the leader, three log entries to have
a write twice and another one behind it, and two calls at a time to have one that
was given up beside its repetition.  Four situations are explored in one run, with reads and
writes mixed in the first three: one clerk with a failing call under one leader
(`Failing`); the same with a log of four and a first request that is a Get (`Late`), which is what
it takes for a late read to take an id back and for a copy of a write to be executed again;
one clerk over a change of leader (`Electing`); two clerks with one write each (`Competing`).
For `SkipList`, three keys give
a node a neighbour on both sides, and levels 0 to 2 a node that is higher and one
that is lower than another; a loaded value differs from the one that is written, so
one writable value is enough.

For the fibers, one descriptor and two fibers suffice to let event, time-out and
close compete; times of one to six half milliseconds, some of which truncation
shortens, and `MAX_TIMEOUT` = 2 (5000 ms in the code) with a sleep of three cover waits that are shorter, equal and longer than one
`epoll_wait`.  Fibers that wait run on one thread, as in the program
(`FIBER_THREAD_NUM` = 1); two threads are used with tasks that do not wait.  For `Rpc`,
two connections can be lost and replaced, two callers and up to three calls in a
row meet what an earlier call has left.  `RecvSize` is 8 units, more than one answer and
less than the long ones.  `TwoAnswersMerge` and `OtherAnswerIsNoAppend` are about the message classes
and evaluated in the initial states, for every class with the default and one or
two other values in each field.  `KvSnapshot` has two servers and three commands.

### Fairness

The runs of Raft, the key-value service and the skip list check safety only; their
timers are left out.

- `Hook`: weak fairness of each thread, of the main thread while it schedules, and of time.
  The operating system runs every thread, the clock does not stop.  Nothing is assumed of
  peers: a descriptor may never become ready.  `TasksFinish`, `TickersRun` and
  `StopReturns` therefore rest on time-outs, on the bounded `epoll_wait` and on `tickle`.
- `Rpc`: weak fairness of a caller that is not blocked in `recv`, of the event loop of a
  connection and of handlers.  It is stated on the part of each step that decides
  whether it is possible (`CallerMoves`, `EventLoopReads`, `HandlerReturns`), which is
  equivalent and spares TLC the parsing of messages.  That a handler returns is true of
  Raft's (they hold a lock for a few statements) and of the service's (they wait with a
  time-out).

### Findings

1. `raft_exit`, raft.cpp:43.  A follower that has taken its own snapshot gets a call
   from before it.  The branch for this case fills in an answer but does not return,
   the assertion of `matchLog` fails and the process exits.
2. `raft_restart`, Persister.cpp:64.  The state is erased before it is read.  A
   restarted server votes again in the same term, and the term gets two leaders.
3. `raft_completeness`, raft.cpp:77.  Entries after a replaced one are kept.  The
   log may end in an entry older than one before it, elections compare the
   last entry only, and a server without a committed entry is elected.
4. `rpc_shared`, mprpcchannel.cpp:91.  Several threads of a leader call one peer over one
   channel.  Two of them wait in `recv` on the same socket, and either may get the first
   answer; if both answers arrive together, one call gets both merged into one message and
   the other waits for ever.
5. `snapshot_install`, Persister.cpp:18.  The snapshot is read up to its first white space
   and the file emptied thereby.  A follower gets "22", on which its process ends, or
   nothing, after which it counts as installed what it does not have.

Known limitations that TLC shows on the same modules with other constants or
stronger properties, kept as hazards and not as runs of their own:

- A Get given up by its clerk may take `m_lastRequestId` back (kvServer.cpp:33), after which a
  copy of a later write is executed twice.  `kv_service` reaches it: without `lowered`, TLC
  refutes `AppliedOnce` on its instance.  With a third request and a second failed call the
  copy replaces a later value and `ReplicasAgree` without `lowered` is refuted, too.
- Client ids come from an unseeded `rand()` (clerk.h:22); with two clerks of the same id
  `OkMeansApplied` fails.
- `load_file` loses the values (skipList.h:228); `KvMap.Load` says so.
- One `recv` of 1024 bytes is taken for the whole answer (mprpcchannel.cpp:91).  A longer answer
  fails its call, the connection is kept, and the next call gets the rest: `OwnAnswer` is
  refuted with `Setups <- Long`, too, where one clerk reads long values.
- The first part of a split request, cut before `args_size`, parses as a request without
  arguments and is served (rpcprovider.cpp:130).  Run `rpc` reaches it; `ArgumentsIntact` is about
  requests that are not split.
- With two threads and fibers that wait, `NoPanic` is refuted (`Setups <- TwoThreads`): a
  fiber registers its wake-up before it yields (hook.cpp:114, 156), and the other thread takes
  it from the list while it is still running.  The program uses one thread.
- With split requests a call may wait for ever, since `OnMessage` drops the parts and `recv`
  has no time-out; so does one whose answer has no bytes, as that of `InstallSnapshot` to an
  old snapshot (raft.cpp:392).  `CallsReturn` says it of neither.

## Proofs

### Raft

Proved with TLAPS for every set of servers with more than one member, every set of
commands and all bounds (`ServerAssumption`, `NoVoteAssumption`,
`BoundsAssumption`), with lost calls and exits, without `Restart`.  The first three
groups hold with snapshots as well.

- **`TypeCorrect`, `LogsContiguous`** (`RaftProofs`).  `TypeOK` is not inductive: that
  indexes stay natural numbers depends on where they come from, a slot of a log or an
  argument of a call.  `TypeInv` adds `LogContiguous` (slot k holds index snapshot + k)
  and `CallsContiguous` (the entries of a call are numbered from its `prevlogindex`).
  `Merged` keeps the numbering because a call is only accepted if `prevlogindex` lies
  within the log, cutting keeps it because the rest is renumbered by the new snapshot
  index.  One lemma per action.
- **`OneLeaderPerTerm`** (`RaftElectionProofs`).  `VoteInv` has four parts: a granted
  vote in flight, counted or part of a won election is remembered by its voter, unless
  it has gone on to a later term (`VotesRemembered`); two granted votes of one server and
  term are for the same candidate (`VotesUnique`); a server
  whose calls for votes are under way has voted for itself if it still is in their term
  (`CallsOfCandidates`); a winner has a majority
  of such votes (`WonByMajority`).  Two majorities share a voter, by cardinality of
  finite sets.
- **`IndexesOrdered`, `IndexesAdvance`** (`RaftProofs`).  `IndexOrder` is inductive
  on top of `TypeInv`, and every action leaves each index or raises it.
- **`EntriesAgree`** (`RaftLogProofs`).  `LogInv` traces every entry in a log or in a call
  to the winner of its term, whose log has been at least as long ever since
  (`WrittenByWinner`, `LeadersElected`).  `Start` therefore never gives an index of a term
  a second time, although the log below a leader may be replaced after it is deposed:
  lengths do not shrink (`IndexesAdvance`) and the term has one winner
  (`OneLeaderPerTerm`).
- **`MatchesHeld`** (`RaftLogProofs`).  `MatchInv` says it of the answers on their way, too:
  of a positive answer to AppendEntries, and of the answer to a snapshot unless the callee
  was in a later term or has exited.  Again lengths do not shrink, so a late answer is
  still true.

The following have the hypothesis `MaxSnapshotIndex = 0`, that is, KvServer never calls
`Snapshot` (`m_maxRaftState` is -1, or never reached).  It is needed: `NeverExits` is false
otherwise (run `raft_exit`), and so is `LeaderUndisturbed`, because
the thread of a deposed leader reads the term anew when it gets the lock (`SendSnapShot`)
and the leader of that term becomes its follower.

- **`NoServerExits`, `LeadersUndisturbed`** (`RaftSafetyProofs`).  `CountInv` keeps the
  books of the elections (a candidate calls a peer once in a term, no counted or winning
  vote is still in flight), so that a leader never collects a second majority in its
  term, which `sendRequestVote` asserts.  `SafeInv` bounds the calls, the answers and
  `m_nextIndex`, `m_matchIndex` by the caller's own log (`CallWithin`, `RefusalUsable`,
  `PeersWithin`) and says that the winner of a term leads as long as it stays in it
  (`WinnersLead`).  Every assertion follows from one of these, the one in the loop of
  `AppendEntries1` from `LogInv`.
- **`CommitsOnMajority`** (`RaftCommitProofs`).  An answer is counted for a round without a
  look at its entries, so the invariant has to say what a positive answer implies.
  `CommitInv`: nobody has an entry of a term it has not reached (`TermsReached`); a leader
  has all entries of its term and nothing else behind the first of them (`LeaderHasOwn`); a
  call has those of its term wherever its range meets them, and `prevlogterm` shows whether
  they begin before it (`CallsHaveOwn`); a follower has no gap among the entries of its
  term (`NoGapInTerm`), although it keeps what follows a replaced entry; the calls of a
  round end at one index (`RoundsAgree`); who is counted has all entries of the term up to
  there (`CountedHold`) and loses none of them before it leaves the term.  This
  is weaker than log matching, which the code does not keep (run `raft_completeness`).

### KvServer and Clerk

Proved for any number of servers and clerks, any mixture of operations and all bounds
(`SizeAssumption`, `IdAssumption`, `OperationAssumption`, `BoundsAssumption`), on the
consensus that `KvServer` assumes, with the hypothesis `Separate`: clerks have different
ids.  Without it `OkMeansApplied` is false.  Reads and failing calls may be mixed; the
servers in `lowered` are excepted in the properties themselves (see above).

- **`WritesOnce`, `StoresAgree`, `AcknowledgedKept`** (`KvServerProofs`).  `ifRequestDuplicate`
  compares a request with the last id executed for its client only, and copies of a write
  may be committed late and after later requests.  `KvInv` shows that this is enough.
  A clerk begins another request only when its write is committed (`PriorCommitted`,
  from `AnsweredCommitted` and `TakenCommitted`: what a wait channel holds is what is
  committed at its index).  Hence a write committed behind a later request of its client
  was committed before it, too (`InOrder`).  Then `m_lastRequestId` is not below any write
  done with and the id of some request done with (`LastIds`), and a server executes
  exactly the writes that are `Fresh`: later than everything of the client before them.
  That determines what it has executed (`ExecutedWrites`) and its store (`StoresFollow`),
as a function of how far it has got, as long as it is not in `lowered`.  A read executed by
its handler may write `m_lastRequestId` beside the apply loop; `ReadsDone` shows that this is
harmless unless it lowers the id.  `OkMeansApplied` holds on lowered servers, too: a lower id
makes a server execute more.  `KvBase` has the types and who waits for
whom: each busy handler has an index and a channel of its own (`ChannelsOwned`).
- **`LastWriteRead`** (`KvServerProofs`).  `ReadYourWrites` with the further hypothesis
  `OneClerk`; with other writers it is false.  `ReadInv` adds to `KvInv` that a write its
  clerk no longer waits for is acknowledged (`WritesAcked`), and that an answered read and a
  read that has returned hold the latest acknowledged value (`ReadsAnswered`,
  `ReadsReturned`).  A handler reads the store after its own request has been applied
  there; the store is then the last `Fresh` write, and with one clerk everything
  acknowledged lies before the read.  What is committed between the read's entry and the
  moment it is executed can only be copies of older requests, which are not `Fresh`.

### Rpc

Proved for any number of callers, channels, calls, connections and closes by the server, for
shared channels, split messages and answers of any length.  Parsing is a fold over the wire,
which cannot be reasoned about here, so what the proofs need of it are assumptions on the
constants that TLC evaluates: of a header that is cut, a name is read whole or not at all
(`RequestAssumption`); a reply is read as it was written (`ReplyAssumption`, which says nothing
about its length); `SetupAssumption` says that setups name existing channels and methods.
What is false without `Reliable` (run `rpc_shared`, known limitations) has it as a condition in
the property.

- **`ChannelsImplementCalls`** (`RpcProofs`).  The refinement `ImplementsCalls`, step by step:
  `CallMethod` begins a call, `SendRpcResponse` executes it, a failed connect or recv
  and a recv that returns end it, all other steps stutter.  At most once needs the first part
  of the invariant, `BaseInv`, which holds of every channel: a request is in one place, whole
  on the wire or with one handler, and then it has not been answered (`OnWire`, `Handlers`,
  `OneCopy`), although `send` is tried again and what is left of a request that was served in
  part stays on the wire.  The rest is no beginning of another request, since
  only the unit with the size of a header is one.
- **`NothingIsLeftBehind`, `AnswersAreOwn`** (`RpcProofs`).  Nothing on the wire pairs an
  answer with its request, so the second part, `RelInv`, which holds where `Reliable` does, is
  about who owns a connection: one on which a request is under way or a handler runs belongs
  to a caller that waits for the answer to just that request, which has no answer yet
  (`Owned`); what can be received on a caller's connection is the whole answer to its current
  call (`AnswerOnTheWay`); two channels never have the same connection (`Descriptors`), and
  nothing is under way on one that is closed (`DownIsQuiet`).  A failed recv may therefore
  drop the connection.

### Fiber runtime

Proved for any finite sets of threads and descriptors (`ThreadAssumption`,
`FdAssumption`), any fibers and any programs whose calls are given what they need
(`SetupAssumption`: a descriptor, a time, a flag, a callback).

- **`FiberTypeCorrect`** (`FiberProofs`).  `FiberInv` needs more than the types.  A timer and
  a task for the time-out of a call carry the number of the call, and `RunTimeout` looks up
  the descriptor under it: all such work belongs to a call that can wait (`Sound`).  A thread
  between taking a task and leaving its fiber has one (`TasksTyped`).  The set of timers
  stays ordered when one is inserted, cancelled or the first ones taken, and when time
  passes (`AddTimerMakes`, `CancelTimerMakes`, `ExpiredMakes`, `ElapseMakes`).
- **`CountersAreExact`** (`FiberProofs`).  Every step of a thread is a move between two
  places, with the counters following it (`Goes`, `ThreadSteps`), and only `addEvent` and
  `triggerEvent` change what is registered (`EventSteps`).  `ThreadsCounted` holds always,
  `EventsCounted` as long as no `CondPanic` has failed: the count is only right because an
  event that is registered twice, or triggered without being registered, ends the process.
  Hence the statement `NoPanic => CountersExact`.

### Only model-checked

- `NoPanic`, `OneWaker` and `NoEarlyReturn` of the fiber runtime depend on what the fibers
  do, which the instances fix: two fibers that read one descriptor do panic.
- `LevelsConsistent`, `SearchExact`, `ImplementsMap`: the walks of `SkipList` and what
  they compute are recursive, and so is `Parse`, on which `TwoAnswersMerge`,
  `OtherAnswerIsNoAppend` and `ArgumentsIntact` rest.  Induction over data is out of the prover's reach.
- Liveness (`TasksFinish`, `TickersRun`, `StopReturns`, `CallsReturn`), which needs fairness and
  is out of the prover's reach, too.

## Plan

Done: Raft, the service above it, the store, the path of a snapshot, the RPC layer with
its messages, the fiber runtime; the theorems about Raft, KvServer, Rpc and the fiber
runtime.  Left, should the project be continued:

1. `NoPanic` and `OneWaker` for one thread and any programs in which no two fibers
   wait for the same event of a descriptor.
2. `CommitsOnMajority` with snapshots, once a call older than the snapshot is refused
   (finding 1).

## Not modelled

- The start of `KvServer`: its RPC service answers before `Raft::init` has set the members
  the handlers use (kvServer.cpp:336).  What they would read is indeterminate memory.
- Progress of Raft as a whole.  It depends on randomised time-outs; an entry that reaches the
  majority through a call without entries stays uncommitted until the next command
  (raft.cpp:833, five servers).  A single server never elects itself (raft.cpp:168).
- `delEvent`, `Timer::refresh`, `Timer::reset`, recurring timers: nothing calls them.  The
  rollover of a clock that is monotonic.  `thread.cpp` and the mutex wrappers.
- Of the generated code: arenas, reflection, descriptors and accessors.
- The content of the file with Raft's state, which is emptied before it is read;
  `MprpcConfig` (parsing at start-up); `RpcProvider::Run` (set-up of muduo); logging; the
  example programs, except as workloads.
