------------------------------ MODULE KvServer ------------------------------
(***************************************************************************)
(* The replicated key-value service: the request handlers and the apply    *)
(* loop of src/raftCore/kvServer.cpp with the clerks that call them,       *)
(* src/raftClerk/clerk.cpp.                                                *)
(*                                                                         *)
(* Handlers run on the threads of the RPC server, the apply loop on one of *)
(* its own.  They share m_skipList, m_lastRequestId and waitApplyCh under  *)
(* m_mtx, which is taken and released several times in one function: an    *)
(* action is what happens between two releases.                            *)
(*                                                                         *)
(* Consensus, raft.cpp, is reduced to what the service sees of it: a       *)
(* leader appends, what is committed is the same for all, a log never      *)
(* becomes shorter, and a new leader has what is committed.  The last is   *)
(* assumed here: run raft_completeness shows a case in which raft.cpp      *)
(* elects a server that lacks a committed entry.                           *)
(*                                                                         *)
(* The store is one key, as module SkipList shows it to be a map.  A value *)
(* names the request that wrote it.  Snapshots are not installed here.     *)
(***************************************************************************)
EXTENDS Integers, Sequences, FiniteSets, FiniteSetsExt, SequencesExt

CONSTANTS
    N,              \* m_servers.size(); servers are numbered from 0
    Clerk,
    ClientId, IdOf, \* Uuid(): the id a clerk has drawn
    Operation,      \* what clerks do: some of "Put", "Append", "Get"
    Nothing,        \* no value
    MaxRequest,     \* bound on the requests of a clerk
    MaxCalls,       \* bound on the calls being executed at one time
    MaxLogIndex,    \* bound on the log
    MaxElections,   \* bound on elections
    MaxFailures     \* bound on the calls that fail

Server == 0..(N - 1)

ASSUME SizeAssumption == N \in Nat \ {0}
ASSUME IdAssumption == IdOf \in [Clerk -> ClientId]
ASSUME OperationAssumption == Operation \subseteq {"Put", "Append", "Get"}
ASSUME BoundsAssumption == MaxCalls \in Nat /\ MaxFailures \in Nat

VARIABLES
    isLeader, raftLog, committed,    \* consensus
    applied,                         \* messages taken from applyChan
    loop,                            \* where the apply loop is
    m_skipList, m_lastRequestId, waitApplyCh,
    handler,                         \* the calls of Get and PutAppend being executed
    clerk,
    elections,                       \* elections held
    failures,                        \* calls that have failed
    executed,                        \* history: what each server has executed, in order
    lowered,                         \* history: the servers on which a read has taken an id back
    acked                            \* history: the writes answered with OK

raftVars  == <<isLeader, raftLog, committed, elections>>
storeVars == <<m_skipList, m_lastRequestId, executed, lowered>>
loopVars  == <<applied, loop>>
clerkVars == <<clerk, failures, acked>>
vars == <<raftVars, storeVars, loopVars, waitApplyCh, handler, clerkVars>>

IsWrite(op) == op.Operation \in {"Put", "Append"}

Idle == [pc |-> "Pop"]

Init ==
    /\ isLeader = [s \in Server |-> FALSE]
    /\ raftLog = [s \in Server |-> <<>>]
    /\ committed = <<>>
    /\ applied = [s \in Server |-> 0]
    /\ loop = [s \in Server |-> Idle]
    /\ m_skipList = [s \in Server |-> Nothing]
    /\ m_lastRequestId = [s \in Server |-> [i \in ClientId |-> 0]]
    /\ waitApplyCh = [s \in Server |-> <<>>]
    /\ handler = <<>>
    /\ clerk = [c \in Clerk |-> [m_requestId |-> 0, m_recentLeaderId |-> 0,
                                 call |-> 0, server |-> 0, op |-> Nothing, got |-> Nothing]]
    /\ elections = 0
    /\ failures = 0
    /\ executed = [s \in Server |-> <<>>]
    /\ lowered = {}
    /\ acked = {}

-----------------------------------------------------------------------------
\* Consensus: what raft.cpp does, seen from the service.

\* The log of a server when it is elected: it has been sent what is committed, with
\* entries replaced in place and none cut off.
Overlaid(log) == committed \o SubSeq(log, Len(committed) + 1, Len(log))

Elect(s) ==
    /\ ~isLeader[s]
    /\ elections < MaxElections
    /\ elections' = elections + 1
    /\ isLeader' = [isLeader EXCEPT ![s] = TRUE]
    /\ raftLog' = [raftLog EXCEPT ![s] = Overlaid(@)]
    /\ UNCHANGED <<committed, storeVars, loopVars, waitApplyCh, handler, clerkVars>>

Depose(s) ==
    /\ isLeader[s]
    /\ isLeader' = [isLeader EXCEPT ![s] = FALSE]
    /\ UNCHANGED <<raftLog, committed, elections, storeVars, loopVars, waitApplyCh, handler, clerkVars>>

Commit(s) ==
    /\ isLeader[s]
    /\ Len(raftLog[s]) > Len(committed)
    /\ IsPrefix(committed, raftLog[s])
    /\ committed' = Append(committed, raftLog[s][Len(committed) + 1])
    /\ UNCHANGED <<isLeader, raftLog, elections, storeVars, loopVars, waitApplyCh, handler, clerkVars>>

\* A follower may be sent anything committed; one that believes to be leader has
\* only what is in its own log.
Delivered(s, i) == isLeader[s] => i <= Len(raftLog[s]) /\ raftLog[s][i] = committed[i]

-----------------------------------------------------------------------------
\* The apply loop.

\* Mutation: the request that was executed last counts as new.
ifRequestDuplicate_Mutant(s, op) == op.RequestId < m_lastRequestId[s][op.ClientId]

\* A client that is not in m_lastRequestId has 0 there: ids start at 1.
ifRequestDuplicate(s, op) == op.RequestId <= m_lastRequestId[s][op.ClientId]

\* ReadRaftApplyCommandLoop and the first part of GetCommandFromRaft.
PopMessage(s) ==
    LET i == applied[s] + 1 IN
    /\ loop[s] = Idle
    /\ i <= Len(committed) /\ Delivered(s, i)
    /\ applied' = [applied EXCEPT ![s] = i]
    /\ loop' = [loop EXCEPT ![s] =
           [pc |-> IF IsWrite(committed[i]) /\ ~ifRequestDuplicate(s, committed[i])
                   THEN "Execute" ELSE "Send",
            op |-> committed[i], index |-> i]]
    /\ UNCHANGED <<raftVars, storeVars, waitApplyCh, handler, clerkVars>>

\* Mutation: only the leader stores the value.
ExecuteOnKVDB_Mutant(s) ==
    LET op == loop[s].op IN
    /\ loop[s].pc = "Execute"
    /\ m_skipList' = IF isLeader[s] THEN [m_skipList EXCEPT ![s] = op.Value] ELSE m_skipList
    /\ m_lastRequestId' = [m_lastRequestId EXCEPT ![s][op.ClientId] = op.RequestId]
    /\ executed' = [executed EXCEPT ![s] = Append(@, op.Value)]
    /\ loop' = [loop EXCEPT ![s].pc = "Send"]
    /\ UNCHANGED <<raftVars, lowered, applied, waitApplyCh, handler, clerkVars>>

\* ExecutePutOpOnKVDB and ExecuteAppendOpOnKVDB do the same.
ExecuteOnKVDB(s) ==
    LET op == loop[s].op IN
    /\ loop[s].pc = "Execute"
    /\ m_skipList' = [m_skipList EXCEPT ![s] = op.Value]
    /\ m_lastRequestId' = [m_lastRequestId EXCEPT ![s][op.ClientId] = op.RequestId]
    /\ executed' = [executed EXCEPT ![s] = Append(@, op.Value)]
    /\ loop' = [loop EXCEPT ![s].pc = "Send"]
    /\ UNCHANGED <<raftVars, lowered, applied, waitApplyCh, handler, clerkVars>>

\* A channel nobody has put there yet, or not any more, gets nothing.
SendMessageToWaitChan(s) ==
    LET i == loop[s].index IN
    /\ loop[s].pc = "Send"
    /\ waitApplyCh' = [waitApplyCh EXCEPT ![s] =
           IF i \in DOMAIN @ THEN [@ EXCEPT ![i] = Append(waitApplyCh[s][i], loop[s].op)] ELSE @]
    /\ loop' = [loop EXCEPT ![s] = Idle]
    /\ UNCHANGED <<raftVars, storeVars, applied, handler, clerkVars>>

-----------------------------------------------------------------------------
\* The handlers.  A handler is a call being executed; its number stands for the
\* thread.

Goto(h, pc) == handler' = [handler EXCEPT ![h].pc = pc]
Answer(h, err, value, pc) ==
    handler' = [handler EXCEPT ![h].err = err, ![h].value = value, ![h].pc = pc]

Start(h) ==
    LET s == handler[h].server IN
    /\ handler[h].pc = "Start"
    /\ IF isLeader[s]
       THEN /\ Len(raftLog[s]) < MaxLogIndex
            /\ raftLog' = [raftLog EXCEPT ![s] = Append(@, handler[h].op)]
            /\ handler' = [handler EXCEPT ![h].index = Len(raftLog[s]) + 1, ![h].pc = "Channel"]
       ELSE /\ Answer(h, "ErrWrongLeader", Nothing, "Done")
            /\ UNCHANGED raftLog
    /\ UNCHANGED <<isLeader, committed, elections, storeVars, loopVars, waitApplyCh, clerkVars>>

MakeChannel(h) ==
    LET s == handler[h].server IN
    /\ handler[h].pc = "Channel"
    /\ waitApplyCh' = [waitApplyCh EXCEPT ![s] =
           [i \in DOMAIN @ \cup {handler[h].index} |-> IF i \in DOMAIN @ THEN @[i] ELSE <<>>]]
    /\ Goto(h, "Wait")
    /\ UNCHANGED <<raftVars, storeVars, loopVars, clerkVars>>

Channel(h) == waitApplyCh[handler[h].server][handler[h].index]

\* Mutation: whatever has been committed at the index is taken for the request.
SameRequest_Mutant(a, b) == TRUE

SameRequest(a, b) == a.ClientId = b.ClientId /\ a.RequestId = b.RequestId

\* timeOutPop returns true.
PopChannel(h) ==
    LET s == handler[h].server
        op == handler[h].op
    IN
    /\ handler[h].pc = "Wait"
    /\ Channel(h) # <<>>
    /\ waitApplyCh' = [waitApplyCh EXCEPT ![s][handler[h].index] = Tail(@)]
    /\ IF ~SameRequest(Head(Channel(h)), op) THEN Answer(h, "ErrWrongLeader", Nothing, "Erase")
       ELSE IF IsWrite(op) THEN Answer(h, "OK", Nothing, "Erase")
       ELSE Goto(h, "Execute")
    /\ UNCHANGED <<raftVars, storeVars, loopVars, clerkVars>>

\* timeOutPop returns false.
TimeOut(h) ==
    /\ handler[h].pc = "Wait"
    /\ Channel(h) = <<>>
    /\ Goto(h, IF IsWrite(handler[h].op) THEN "Duplicate" ELSE "GetState")
    /\ UNCHANGED <<raftVars, storeVars, loopVars, waitApplyCh, clerkVars>>

GetState(h) ==
    /\ handler[h].pc = "GetState"
    /\ handler' = [handler EXCEPT ![h].leader = isLeader[handler[h].server], ![h].pc = "Duplicate"]
    /\ UNCHANGED <<raftVars, storeVars, loopVars, waitApplyCh, clerkVars>>

\* Mutation: a leader answers a read although its request has not been applied.
MayAnswerRead_Mutant(h) == handler[h].leader

\* Get after a time-out.
MayAnswerRead(h) == ifRequestDuplicate(handler[h].server, handler[h].op) /\ handler[h].leader

CheckDuplicate(h) ==
    LET op == handler[h].op
        duplicate == ifRequestDuplicate(handler[h].server, op)
    IN
    /\ handler[h].pc = "Duplicate"
    /\ IF IsWrite(op)
       THEN Answer(h, IF duplicate THEN "OK" ELSE "ErrWrongLeader", Nothing, "Erase")
       ELSE IF MayAnswerRead(h) THEN Goto(h, "Execute")
       ELSE Answer(h, "ErrWrongLeader", Nothing, "Erase")
    /\ UNCHANGED <<raftVars, storeVars, loopVars, waitApplyCh, clerkVars>>

\* What a read leaves in m_lastRequestId, whatever is there: the read of a call that its
\* clerk has given up may come after later requests, and takes the id back.
RememberedId(op) == op.RequestId

ExecuteGetOpOnKVDB(h) ==
    LET s == handler[h].server
        op == handler[h].op
        found == m_skipList[s] # Nothing
    IN
    /\ handler[h].pc = "Execute"
    /\ m_lastRequestId' = [m_lastRequestId EXCEPT ![s][op.ClientId] = RememberedId(op)]
    /\ lowered' = IF op.RequestId < m_lastRequestId[s][op.ClientId] THEN lowered \cup {s} ELSE lowered
    /\ Answer(h, IF found THEN "OK" ELSE "ErrNoKey", m_skipList[s], "Erase")
    /\ UNCHANGED <<raftVars, m_skipList, executed, loopVars, waitApplyCh, clerkVars>>

EraseChannel(h) ==
    LET s == handler[h].server IN
    /\ handler[h].pc = "Erase"
    /\ waitApplyCh' = [waitApplyCh EXCEPT ![s] =
           [i \in DOMAIN @ \ {handler[h].index} |-> @[i]]]
    /\ Goto(h, "Done")
    /\ UNCHANGED <<raftVars, storeVars, loopVars, clerkVars>>

\* The answer of a call that its clerk has given up.
Unclaimed(h) ==
    /\ handler[h].pc = "Done"
    /\ \A c \in Clerk : clerk[c].call # h
    /\ handler' = [g \in DOMAIN handler \ {h} |-> handler[g]]
    /\ UNCHANGED <<raftVars, storeVars, loopVars, waitApplyCh, clerkVars>>

-----------------------------------------------------------------------------
\* Clerks.

\* The number of a new call, the calls that stay being `others'.
NewCall(others) == Min((1..MaxCalls) \ others)

Called(others, server, op) ==
    [h \in others \cup {NewCall(others)} |->
        IF h = NewCall(others)
        THEN [pc |-> "Start", server |-> server, op |-> op, index |-> 0,
              leader |-> FALSE, err |-> "", value |-> Nothing]
        ELSE handler[h]]

\* The beginning of Get, Put and Append.
Request(c, operation) ==
    LET id == clerk[c].m_requestId + 1
        server == clerk[c].m_recentLeaderId
        op == [Operation |-> operation, Value |-> <<c, id>>,
               ClientId |-> IdOf[c], RequestId |-> id]
        others == DOMAIN handler
    IN
    /\ clerk[c].call = 0
    /\ id <= MaxRequest
    /\ Cardinality(others) < MaxCalls
    /\ handler' = Called(others, server, op)
    /\ clerk' = [clerk EXCEPT ![c].m_requestId = id, ![c].server = server, ![c].op = op,
                              ![c].got = Nothing, ![c].call = NewCall(others)]
    /\ UNCHANGED <<raftVars, storeVars, loopVars, waitApplyCh, failures, acked>>

NextServer(s) == (s + 1) % N

\* The same request again.
Try(c, server, others) ==
    /\ Cardinality(others) < MaxCalls
    /\ handler' = Called(others, server, clerk[c].op)
    /\ clerk' = [clerk EXCEPT ![c].server = server, ![c].call = NewCall(others)]

\* The answer ErrWrongLeader: the next server is tried.
Retry(c) ==
    LET h == clerk[c].call IN
    /\ h # 0 /\ handler[h].pc = "Done" /\ handler[h].err = "ErrWrongLeader"
    /\ Try(c, NextServer(clerk[c].server), DOMAIN handler \ {h})
    /\ UNCHANGED <<raftVars, storeVars, loopVars, waitApplyCh, failures, acked>>

\* The call ends without an answer and is given up, whatever becomes of it on the server:
\* ok is false, and the next server is tried, or the connection was closed, which leaves
\* an answer without err, and the same server is tried again.
CallFails(c) ==
    /\ clerk[c].call # 0
    /\ failures < MaxFailures
    /\ failures' = failures + 1
    /\ \E server \in {clerk[c].server, NextServer(clerk[c].server)} : Try(c, server, DOMAIN handler)
    /\ UNCHANGED <<raftVars, storeVars, loopVars, waitApplyCh, acked>>

\* OK or ErrNoKey: Get, Put or Append returns.
Return(c) ==
    LET h == clerk[c].call IN
    /\ h # 0 /\ handler[h].pc = "Done" /\ handler[h].err \in {"OK", "ErrNoKey"}
    /\ handler' = [g \in DOMAIN handler \ {h} |-> handler[g]]
    /\ clerk' = [clerk EXCEPT ![c].call = 0,
                              ![c].got = handler[h].value,
                              ![c].m_recentLeaderId =
                                  IF handler[h].err = "OK" THEN clerk[c].server ELSE @]
    /\ acked' = acked \cup (IF IsWrite(clerk[c].op) THEN {clerk[c].op.Value} ELSE {})
    /\ UNCHANGED <<raftVars, storeVars, loopVars, waitApplyCh, failures>>

-----------------------------------------------------------------------------
ConsensusStep(s) == Elect(s) \/ Depose(s) \/ Commit(s)

LoopStep(s) == PopMessage(s) \/ ExecuteOnKVDB(s) \/ SendMessageToWaitChan(s)

HandlerStep(h) ==
    \/ Start(h) \/ MakeChannel(h) \/ PopChannel(h) \/ TimeOut(h) \/ GetState(h)
    \/ CheckDuplicate(h) \/ ExecuteGetOpOnKVDB(h) \/ EraseChannel(h) \/ Unclaimed(h)

ClerkStep(c) ==
    (\E op \in Operation : Request(c, op)) \/ Retry(c) \/ CallFails(c) \/ Return(c)

Next ==
    \/ \E s \in Server : ConsensusStep(s) \/ LoopStep(s)
    \/ \E h \in DOMAIN handler : HandlerStep(h)
    \/ \E c \in Clerk : ClerkStep(c)

Spec == Init /\ [][Next]_vars
=============================================================================
