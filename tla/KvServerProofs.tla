--------------------------- MODULE KvServerProofs ---------------------------
(***************************************************************************)
(* What clients may rely on, for any number of servers, clerks, requests   *)
(* and calls that fail, when clerks draw different ids.                    *)
(***************************************************************************)
EXTENDS KvServerProperties, FiniteSetTheorems, WellFoundedInduction, TLAPS

\* Clerks draw different ids.
Separate == \A c, d \in Clerk : IdOf[c] = IdOf[d] => c = d

\* The values a store holds: clerk and number of the request.
Written == Clerk \X (Nat \ {0})

\* The requests of the clerks: the value names clerk and request.
Op == {o \in [Operation: Operation, Value: Written, ClientId: ClientId, RequestId: Nat \ {0}] :
          o.ClientId = IdOf[o.Value[1]] /\ o.RequestId = o.Value[2]}

\* The clerk a request is from.
Owner(op) == op.Value[1]

\* A key may have no value.
Stored == Written \cup {Nothing}

\* The apply loop waits for a message, or has one.
LoopState == {Idle} \cup [pc: {"Execute", "Send"}, op: Op, index: Nat]

\* Where a handler is, and what it answers.
Pc == {"Start", "Channel", "Wait", "GetState", "Duplicate", "Execute", "Erase", "Done"}
Err == {"", "OK", "ErrNoKey", "ErrWrongLeader"}

\* A call being executed.
Handler == [pc: Pc, server: Server, op: Op, index: Nat, leader: BOOLEAN,
            err: Err, value: Stored]

\* A clerk, before its first request and after.
ClerkState == [m_requestId: Nat, m_recentLeaderId: Server, call: Nat, server: Server,
               op: Op \cup {Nothing}, got: Stored]

\* The types of all variables.
KvTypeOK ==
    /\ isLeader \in [Server -> BOOLEAN]
    /\ raftLog \in [Server -> Seq(Op)]
    /\ committed \in Seq(Op)
    /\ applied \in [Server -> Nat]
    /\ loop \in [Server -> LoopState]
    /\ m_skipList \in [Server -> Stored]
    /\ m_lastRequestId \in [Server -> [ClientId -> Nat]]
    /\ executed \in [Server -> Seq(Written)]
    /\ lowered \in SUBSET Server
    /\ DOMAIN waitApplyCh = Server
    /\ \A s \in Server : \A i \in DOMAIN waitApplyCh[s] : waitApplyCh[s][i] \in Seq(Op)
    /\ DOMAIN handler \subseteq 1..MaxCalls
    /\ \A h \in DOMAIN handler : handler[h] \in Handler
    /\ clerk \in [Clerk -> ClerkState]
    /\ failures \in Nat

\* A clerk that waits for a call waits for its latest request.
ClerksWait ==
    \A c \in Clerk : clerk[c].call # 0 =>
        /\ clerk[c].call \in DOMAIN handler
        /\ handler[clerk[c].call].op = clerk[c].op
        /\ clerk[c].op \in Op /\ Owner(clerk[c].op) = c
        /\ clerk[c].op.RequestId = clerk[c].m_requestId
        /\ handler[clerk[c].call].server = clerk[c].server

\* Handler h is between Start and the end of its call.
Busy(h) == handler[h].pc \notin {"Start", "Done"}

\* A busy handler has an index, and a channel, of its own.
ChannelsOwned ==
    /\ \A h \in DOMAIN handler : Busy(h) => handler[h].index <= Len(raftLog[handler[h].server])
    /\ \A g, h \in DOMAIN handler :
          /\ Busy(g) /\ Busy(h)
          /\ handler[g].server = handler[h].server /\ handler[g].index = handler[h].index
          => g = h
    /\ \A h \in DOMAIN handler :
          handler[h].pc = "Wait" => handler[h].index \in DOMAIN waitApplyCh[handler[h].server]

\* Only reads get further than the channel.
ReadSteps ==
    \A h \in DOMAIN handler : handler[h].pc \in {"GetState", "Execute"} => ~IsWrite(handler[h].op)

\* The types, and who waits for whom.
KvBase == KvTypeOK /\ ClerksWait /\ ChannelsOwned /\ ReadSteps

-----------------------------------------------------------------------------
\* Request a is in a log or with a handler.
InUse(a) ==
    \/ \E s \in Server : \E i \in 1..Len(raftLog[s]) : a = raftLog[s][i]
    \/ \E i \in 1..Len(committed) : a = committed[i]
    \/ \E h \in DOMAIN handler : a = handler[h].op

\* The requests in the logs and the handlers.
Used == {a \in Op : InUse(a)}

\* A clerk has issued what is in use, and index and client tell the kind.
Issued ==
    /\ \A a \in Used : a.RequestId <= clerk[Owner(a)].m_requestId
    /\ \A a, b \in Used : SameRequest(a, b) => (IsWrite(a) <=> IsWrite(b))

\* Request a is committed.
Committed(a) == \E j \in 1..Len(committed) : SameRequest(committed[j], a)

\* Before a clerk begins another request its last one is committed.
PriorCommitted ==
    \A a \in Used :
        a.RequestId < clerk[Owner(a)].m_requestId \/ clerk[Owner(a)].call = 0 => Committed(a)

\* Before a handler answers a request positively it is committed.
AnsweredCommitted ==
    \A h \in DOMAIN handler :
        handler[h].err \in {"OK", "ErrNoKey"} => Committed(handler[h].op)

\* A request comes after a later one of its client only if it came before it, too.
InOrder ==
    \A i, k \in 1..Len(committed) :
        /\ i < k
        /\ committed[k].ClientId = committed[i].ClientId
        /\ committed[k].RequestId < committed[i].RequestId
        => \E j \in 1..(i - 1) : SameRequest(committed[j], committed[k])

\* The messages a server has done with.
Done(s) == IF loop[s].pc = "Execute" THEN applied[s] - 1 ELSE applied[s]

\* The apply loop has taken what is committed, and the channels what it has done.
TakenCommitted ==
    /\ \A s \in Server : applied[s] <= Len(committed)
    /\ \A s \in Server : loop[s] # Idle =>
          applied[s] >= 1 /\ loop[s].index = applied[s] /\ loop[s].op = committed[applied[s]]
    /\ \A s \in Server : \A i \in DOMAIN waitApplyCh[s] : waitApplyCh[s][i] # <<>> =>
          /\ i \in 1..Done(s)
          /\ \A j \in 1..Len(waitApplyCh[s][i]) : waitApplyCh[s][i][j] = committed[i]

\* A write that is the client's latest request so far.
Fresh(i) ==
    /\ IsWrite(committed[i])
    /\ \A j \in 1..(i - 1) :
          committed[j].ClientId = committed[i].ClientId =>
              committed[j].RequestId < committed[i].RequestId

\* m_lastRequestId is the id of a request done with; where no read has taken it back it is
\* not before any write done with, and only the client's latest request is executed.
LastIds ==
    \A s \in Server :
        /\ s \notin lowered => \A i \in 1..Done(s) : IsWrite(committed[i]) =>
              committed[i].RequestId <= m_lastRequestId[s][committed[i].ClientId]
        /\ \A c \in ClientId : m_lastRequestId[s][c] # 0 =>
              \E j \in 1..Done(s) :
                  committed[j].ClientId = c /\ committed[j].RequestId = m_lastRequestId[s][c]
        /\ s \notin lowered /\ loop[s].pc = "Execute" => Fresh(applied[s])

\* A handler reads the store only after its server has done with the read.
ReadsDone ==
    \A h \in DOMAIN handler : handler[h].pc = "Execute" =>
        \E j \in 1..Done(handler[h].server) : SameRequest(committed[j], handler[h].op)

\* What a server has executed are the writes among what it has done with, each once
\* where no read has taken an id back.
ExecutedWrites ==
    \A s \in Server :
        /\ \A i \in 1..Done(s) : IsWrite(committed[i]) => committed[i].Value \in Range(executed[s])
        /\ \A v \in Range(executed[s]) : \E i \in 1..Done(s) : committed[i].Value = v
        /\ s \notin lowered => IsInjective(executed[s])

\* v is what the first n committed requests leave in the store.
LeftBy(n, v) ==
    \/ v = Nothing /\ \A i \in 1..n : ~Fresh(i)
    \/ \E i \in 1..n : /\ Fresh(i) /\ v = committed[i].Value
                       /\ \A j \in (i + 1)..n : ~Fresh(j)

\* The store of a server is what the requests it has done with leave.
StoresFollow == \A s \in Server \ lowered : LeftBy(Done(s), m_skipList[s])

\* What is acknowledged is committed.
AckedCommitted ==
    \A v \in acked : \E i \in 1..Len(committed) : committed[i].Value = v /\ IsWrite(committed[i])

\* The inductive invariant, on top of KvBase.
KvInv ==
    /\ Issued /\ PriorCommitted /\ AnsweredCommitted /\ InOrder /\ TakenCommitted
    /\ LastIds /\ ReadsDone /\ ExecutedWrites /\ StoresFollow /\ AckedCommitted

-----------------------------------------------------------------------------
\* What is in a request.
LEMMA OpFields ==
    ASSUME NEW o \in Op
    PROVE  /\ o.Operation \in Operation /\ o.Value \in Written
           /\ Owner(o) \in Clerk /\ o.ClientId = IdOf[Owner(o)] /\ o.ClientId \in ClientId
           /\ o.RequestId \in Nat /\ o.RequestId >= 1
           /\ o.Value = <<Owner(o), o.RequestId>>
BY DEF Op, Owner, Written

\* Client and request id tell the value, and the other way round.
LEMMA SameValue ==
    ASSUME Separate, NEW a \in Op, NEW b \in Op
    PROVE  /\ a.ClientId = b.ClientId => Owner(a) = Owner(b)
           /\ SameRequest(a, b) <=> a.Value = b.Value
<1>1. /\ Owner(a) \in Clerk /\ a.ClientId = IdOf[Owner(a)] /\ a.Value = <<Owner(a), a.RequestId>>
      /\ Owner(b) \in Clerk /\ b.ClientId = IdOf[Owner(b)] /\ b.Value = <<Owner(b), b.RequestId>>
  BY OpFields
<1>2. a.ClientId = b.ClientId <=> Owner(a) = Owner(b)
  BY <1>1 DEF Separate
<1>3. QED
  BY <1>1, <1>2 DEF SameRequest

\* There is a least number in a set of natural numbers.
LEMMA MinInSet ==
    ASSUME NEW S \in SUBSET Nat, S # {}
    PROVE  Min(S) \in S /\ \A y \in S : Min(S) <= y
<1> DEFINE less == {p \in Nat \X Nat : p[1] < p[2]}
<1>1. IsWellFoundedOn(less, Nat)
  BY NatLessThanWellFounded, Zenon DEF OpToRel
<1>2. PICK x \in S : \A y \in S : ~(<<y, x>> \in less)
  <2> HIDE DEF less
  <2>1. QED
    BY <1>1, WFMin
<1>3. ASSUME NEW y \in S PROVE x <= y
  <2>1. x \in Nat /\ y \in Nat
    OBVIOUS
  <2>2. y < x => <<y, x>> \in less
    BY <2>1
  <2>3. QED
    BY <1>2, <2>1, <2>2
<1>4. QED
  BY <1>3 DEF Min

\* A new call has a number no other call has.
LEMMA NewCallFree ==
    ASSUME NEW others \in SUBSET (1..MaxCalls), Cardinality(others) < MaxCalls
    PROVE  NewCall(others) \in 1..MaxCalls /\ NewCall(others) \notin others /\ NewCall(others) # 0
<1>1. (1..MaxCalls) \ others # {}
  <2>1. SUFFICES ASSUME others = 1..MaxCalls PROVE FALSE
    OBVIOUS
  <2>2. Cardinality(1..MaxCalls) = MaxCalls
    BY BoundsAssumption, FS_Interval
  <2>3. QED
    BY <2>1, <2>2, BoundsAssumption
<1>2. (1..MaxCalls) \ others \in SUBSET Nat
  BY BoundsAssumption
<1>3. Min((1..MaxCalls) \ others) \in (1..MaxCalls) \ others
  BY <1>1, <1>2, MinInSet
<1>4. QED
  BY <1>3, BoundsAssumption DEF NewCall

\* The numbers of the servers.
LEMMA ServerNumbers == 0 \in Server /\ \A s \in Server : NextServer(s) \in Server
<1>1. N \in Nat /\ N >= 1
  BY SizeAssumption
<1>2. ASSUME NEW s \in Server PROVE NextServer(s) \in Server
  <2>1. s + 1 \in Nat
    BY <1>1 DEF Server
  <2>2. (s + 1) % N \in 0..(N - 1)
    BY <1>1, <2>1
  <2>3. QED
    BY <2>2 DEF NextServer, Server
<1>3. QED
  BY <1>1, <1>2 DEF Server

-----------------------------------------------------------------------------
\* Handler h goes on: it gets to pc with this answer and index, and the other
\* handlers stay where they are.
Moved(h, pc, err, index) ==
    /\ DOMAIN handler' = DOMAIN handler
    /\ \A g \in DOMAIN handler : g # h => handler'[g] = handler[g]
    /\ handler'[h] \in Handler
    /\ handler'[h].op = handler[h].op /\ handler'[h].server = handler[h].server
    /\ handler'[h].pc = pc /\ handler'[h].err = err /\ handler'[h].index = index

\* A new record for one handler.
LEMMA OneMoves ==
    ASSUME NEW h \in DOMAIN handler, NEW r \in Handler, handler' = [handler EXCEPT ![h] = r],
           r.op = handler[h].op, r.server = handler[h].server
    PROVE  Moved(h, r.pc, r.err, r.index)
BY DEF Moved

\* Goto sets the program counter, and leaves the rest of the handler.
LEMMA GotoMoves ==
    ASSUME NEW h \in DOMAIN handler, handler[h] \in Handler, NEW pc \in Pc, Goto(h, pc)
    PROVE  Moved(h, pc, handler[h].err, handler[h].index)
<1> DEFINE r == [handler[h] EXCEPT !.pc = pc]
<1>1. r \in Handler /\ r.op = handler[h].op /\ r.server = handler[h].server
      /\ r.pc = pc /\ r.err = handler[h].err /\ r.index = handler[h].index
  BY DEF Handler
<1>2. handler' = [handler EXCEPT ![h] = r]
  BY DEF Goto
<1> HIDE DEF r
<1>3. QED
  BY <1>1, <1>2, OneMoves

\* Answer sets the answer, and leaves the rest of the handler.
LEMMA AnswerMoves ==
    ASSUME NEW h \in DOMAIN handler, handler[h] \in Handler, NEW err \in Err,
           NEW value \in Stored, NEW pc \in Pc, Answer(h, err, value, pc)
    PROVE  Moved(h, pc, err, handler[h].index)
<1> DEFINE r == [handler[h] EXCEPT !.err = err, !.value = value, !.pc = pc]
<1>1. r \in Handler /\ r.op = handler[h].op /\ r.server = handler[h].server
      /\ r.pc = pc /\ r.err = err /\ r.index = handler[h].index
  BY DEF Handler
<1>2. handler' = [handler EXCEPT ![h] = r]
  BY DEF Answer
<1> HIDE DEF r
<1>3. QED
  BY <1>1, <1>2, OneMoves

\* What is known of a handler from its type.
LEMMA HandlerFields ==
    ASSUME KvTypeOK, NEW h \in DOMAIN handler
    PROVE  /\ handler[h] \in Handler /\ handler[h].server \in Server /\ handler[h].op \in Op
           /\ handler[h].index \in Nat /\ handler[h].err \in Err /\ handler[h].pc \in Pc
           /\ Nothing \in Stored
BY DEF KvTypeOK, Handler, Stored

\* Start appends to the log of a leader, or answers that the server is none.
LEMMA StartMoves ==
    ASSUME KvTypeOK, NEW h \in DOMAIN handler, Start(h)
    PROVE  /\ handler[h].pc = "Start"
           /\ UNCHANGED <<isLeader, committed, elections, storeVars, loopVars, waitApplyCh, clerkVars>>
           /\ \/ /\ raftLog' = [raftLog EXCEPT ![handler[h].server] = Append(@, handler[h].op)]
                 /\ Moved(h, "Channel", handler[h].err, Len(raftLog[handler[h].server]) + 1)
              \/ UNCHANGED raftLog /\ Moved(h, "Done", "ErrWrongLeader", handler[h].index)
<1> DEFINE s == handler[h].server
<1>1. handler[h] \in Handler /\ s \in Server /\ Nothing \in Stored
  BY HandlerFields
<1>2. CASE isLeader[s]
  <2> DEFINE r == [handler[h] EXCEPT !.index = Len(raftLog[s]) + 1, !.pc = "Channel"]
  <2>1. raftLog[s] \in Seq(Op)
    BY <1>1 DEF KvTypeOK
  <2>2. Len(raftLog[s]) + 1 \in Nat
    BY <2>1
  <2>3. r \in Handler /\ r.op = handler[h].op /\ r.server = handler[h].server
        /\ r.pc = "Channel" /\ r.err = handler[h].err /\ r.index = Len(raftLog[s]) + 1
    BY <1>1, <2>2 DEF Handler, Pc
  <2>4. handler' = [handler EXCEPT ![h] = r]
    BY <1>2 DEF Start
  <2> HIDE DEF r
  <2>5. Moved(h, "Channel", handler[h].err, Len(raftLog[s]) + 1)
    BY <2>3, <2>4, OneMoves
  <2>6. QED
    BY <1>2, <2>5 DEF Start
<1>3. CASE ~isLeader[s]
  <2>1. Answer(h, "ErrWrongLeader", Nothing, "Done") /\ UNCHANGED raftLog
    BY <1>3 DEF Start
  <2>2. Moved(h, "Done", "ErrWrongLeader", handler[h].index)
    BY <1>1, <2>1, AnswerMoves DEF Pc, Err
  <2>3. QED
    BY <2>1, <2>2 DEF Start
<1>4. QED
  BY <1>2, <1>3

\* GetState asks Raft whether its server leads.
LEMMA GetStateMoves ==
    ASSUME KvTypeOK, NEW h \in DOMAIN handler, GetState(h)
    PROVE  Moved(h, "Duplicate", handler[h].err, handler[h].index)
<1> DEFINE r == [handler[h] EXCEPT !.leader = isLeader[handler[h].server], !.pc = "Duplicate"]
<1>1. handler[h] \in Handler /\ isLeader[handler[h].server] \in BOOLEAN
  BY HandlerFields DEF KvTypeOK
<1>2. r \in Handler /\ r.op = handler[h].op /\ r.server = handler[h].server
      /\ r.pc = "Duplicate" /\ r.err = handler[h].err /\ r.index = handler[h].index
  BY <1>1 DEF Handler, Pc
<1>3. handler' = [handler EXCEPT ![h] = r]
  BY DEF GetState
<1> HIDE DEF r
<1>4. QED
  BY <1>2, <1>3, OneMoves

\* The two ways on from the channel.
LEMMA PopChannelMoves ==
    ASSUME KvTypeOK, NEW h \in DOMAIN handler, PopChannel(h)
    PROVE  \/ Moved(h, "Erase", "ErrWrongLeader", handler[h].index)
           \/ /\ SameRequest(Head(Channel(h)), handler[h].op)
              /\ \/ IsWrite(handler[h].op) /\ Moved(h, "Erase", "OK", handler[h].index)
                 \/ ~IsWrite(handler[h].op) /\ Moved(h, "Execute", handler[h].err, handler[h].index)
<1>1. handler[h] \in Handler /\ Nothing \in Stored
  BY HandlerFields
<1>2. \/ Answer(h, "ErrWrongLeader", Nothing, "Erase")
      \/ /\ SameRequest(Head(Channel(h)), handler[h].op)
         /\ \/ IsWrite(handler[h].op) /\ Answer(h, "OK", Nothing, "Erase")
            \/ ~IsWrite(handler[h].op) /\ Goto(h, "Execute")
  BY DEF PopChannel
<1>3. QED
  BY <1>1, <1>2, AnswerMoves, GotoMoves DEF Pc, Err

\* After a time-out only a read asks who leads.
LEMMA TimeOutMoves ==
    ASSUME KvTypeOK, NEW h \in DOMAIN handler, TimeOut(h)
    PROVE  \/ IsWrite(handler[h].op) /\ Moved(h, "Duplicate", handler[h].err, handler[h].index)
           \/ ~IsWrite(handler[h].op) /\ Moved(h, "GetState", handler[h].err, handler[h].index)
<1>1. handler[h] \in Handler
  BY HandlerFields
<1>2. \/ IsWrite(handler[h].op) /\ Goto(h, "Duplicate")
      \/ ~IsWrite(handler[h].op) /\ Goto(h, "GetState")
  BY DEF TimeOut
<1>3. QED
  BY <1>1, <1>2, GotoMoves DEF Pc

\* After a time-out a handler goes on only with a duplicate.
LEMMA CheckDuplicateMoves ==
    ASSUME KvTypeOK, NEW h \in DOMAIN handler, CheckDuplicate(h)
    PROVE  \/ Moved(h, "Erase", "ErrWrongLeader", handler[h].index)
           \/ /\ ifRequestDuplicate(handler[h].server, handler[h].op)
              /\ \/ IsWrite(handler[h].op) /\ Moved(h, "Erase", "OK", handler[h].index)
                 \/ ~IsWrite(handler[h].op) /\ Moved(h, "Execute", handler[h].err, handler[h].index)
<1>1. handler[h] \in Handler /\ Nothing \in Stored
  BY HandlerFields
<1>2. \/ Answer(h, "ErrWrongLeader", Nothing, "Erase")
      \/ /\ ifRequestDuplicate(handler[h].server, handler[h].op)
         /\ \/ IsWrite(handler[h].op) /\ Answer(h, "OK", Nothing, "Erase")
            \/ ~IsWrite(handler[h].op) /\ Goto(h, "Execute")
  BY DEF CheckDuplicate, MayAnswerRead
<1>3. QED
  BY <1>1, <1>2, AnswerMoves, GotoMoves DEF Pc, Err

\* A read is answered from the store.
LEMMA ExecuteGetMoves ==
    ASSUME KvTypeOK, NEW h \in DOMAIN handler, ExecuteGetOpOnKVDB(h)
    PROVE  \E err \in Err : Moved(h, "Erase", err, handler[h].index)
<1>1. handler[h] \in Handler /\ m_skipList[handler[h].server] \in Stored
  BY HandlerFields DEF KvTypeOK
<1>2. \E err \in Err : Answer(h, err, m_skipList[handler[h].server], "Erase")
  BY DEF ExecuteGetOpOnKVDB, Err
<1>3. QED
  BY <1>1, <1>2, AnswerMoves DEF Pc

-----------------------------------------------------------------------------
\* The message goes to the channel of its index, if there is one.
LEMMA SendChannels ==
    ASSUME KvTypeOK, NEW s \in Server, SendMessageToWaitChan(s)
    PROVE  /\ DOMAIN waitApplyCh' = Server
           /\ \A v \in Server : DOMAIN waitApplyCh'[v] = DOMAIN waitApplyCh[v]
           /\ \A v \in Server : \A i \in DOMAIN waitApplyCh[v] :
                 \/ waitApplyCh'[v][i] = waitApplyCh[v][i]
                 \/ v = s /\ i = loop[s].index /\ waitApplyCh'[v][i] = Append(waitApplyCh[v][i], loop[s].op)
<1> DEFINE i == loop[s].index
           w == waitApplyCh[s]
<1>1. waitApplyCh' = [waitApplyCh EXCEPT ![s] =
         IF i \in DOMAIN w THEN [w EXCEPT ![i] = Append(w[i], loop[s].op)] ELSE w]
  BY DEF SendMessageToWaitChan
<1>2. DOMAIN waitApplyCh = Server
  BY DEF KvTypeOK
<1> DEFINE x == IF i \in DOMAIN w THEN [w EXCEPT ![i] = Append(w[i], loop[s].op)] ELSE w
<1>3. /\ DOMAIN x = DOMAIN w
      /\ \A k \in DOMAIN w : x[k] = w[k] \/ (k = i /\ x[k] = Append(w[k], loop[s].op))
  <2> HIDE DEF i, w
  <2>1. CASE i \in DOMAIN w
    BY <2>1
  <2>2. CASE i \notin DOMAIN w
    BY <2>2
  <2>3. QED
    BY <2>1, <2>2
<1>4. waitApplyCh' = [waitApplyCh EXCEPT ![s] = x]
  BY <1>1
<1> HIDE DEF x, i
<1>5. /\ DOMAIN waitApplyCh' = Server /\ \A v \in Server : v # s => waitApplyCh'[v] = waitApplyCh[v]
      /\ waitApplyCh'[s] = x
  BY <1>4, <1>2
<1>6. QED
  BY <1>3, <1>5 DEF i

\* A channel is made, empty, unless there is one.
LEMMA MakeChannels ==
    ASSUME KvTypeOK, NEW h \in DOMAIN handler, MakeChannel(h)
    PROVE  /\ DOMAIN waitApplyCh' = Server
           /\ \A v \in Server : v # handler[h].server => waitApplyCh'[v] = waitApplyCh[v]
           /\ DOMAIN waitApplyCh'[handler[h].server] =
                 DOMAIN waitApplyCh[handler[h].server] \cup {handler[h].index}
           /\ \A i \in DOMAIN waitApplyCh'[handler[h].server] :
                 \/ /\ i \in DOMAIN waitApplyCh[handler[h].server]
                    /\ waitApplyCh'[handler[h].server][i] = waitApplyCh[handler[h].server][i]
                 \/ waitApplyCh'[handler[h].server][i] = <<>>
<1> DEFINE s == handler[h].server
           w == waitApplyCh[s]
<1>1. waitApplyCh' = [waitApplyCh EXCEPT ![s] =
         [i \in DOMAIN w \cup {handler[h].index} |-> IF i \in DOMAIN w THEN w[i] ELSE <<>>]]
  BY DEF MakeChannel
<1>2. DOMAIN waitApplyCh = Server /\ s \in Server
  BY HandlerFields DEF KvTypeOK
<1>3. waitApplyCh'[s] = [i \in DOMAIN w \cup {handler[h].index} |-> IF i \in DOMAIN w THEN w[i] ELSE <<>>]
  BY <1>1, <1>2
<1>4. /\ DOMAIN waitApplyCh' = Server
      /\ \A v \in Server : v # s => waitApplyCh'[v] = waitApplyCh[v]
  BY <1>1, <1>2
<1>5. QED
  BY <1>3, <1>4

\* A message is taken from the handler's own channel.
LEMMA PopChannels ==
    ASSUME KvTypeOK, ChannelsOwned, NEW h \in DOMAIN handler, PopChannel(h)
    PROVE  /\ DOMAIN waitApplyCh' = Server
           /\ \A v \in Server : DOMAIN waitApplyCh'[v] = DOMAIN waitApplyCh[v]
           /\ Channel(h) \in Seq(Op) /\ Channel(h) # <<>>
           /\ handler[h].index \in DOMAIN waitApplyCh[handler[h].server]
           /\ \A v \in Server : \A i \in DOMAIN waitApplyCh[v] :
                 \/ waitApplyCh'[v][i] = waitApplyCh[v][i]
                 \/ v = handler[h].server /\ i = handler[h].index /\ waitApplyCh'[v][i] = Tail(Channel(h))
<1> DEFINE s == handler[h].server
           i == handler[h].index
<1>1. waitApplyCh' = [waitApplyCh EXCEPT ![s] = [waitApplyCh[s] EXCEPT ![i] = Tail(waitApplyCh[s][i])]]
  BY DEF PopChannel
<1>2. DOMAIN waitApplyCh = Server /\ s \in Server
  BY HandlerFields DEF KvTypeOK
<1>3. i \in DOMAIN waitApplyCh[s] /\ Channel(h) # <<>>
  BY DEF PopChannel, ChannelsOwned
<1>4. Channel(h) \in Seq(Op)
  BY <1>2, <1>3 DEF Channel, KvTypeOK
<1>5. /\ DOMAIN waitApplyCh' = Server /\ \A v \in Server : v # s => waitApplyCh'[v] = waitApplyCh[v]
      /\ waitApplyCh'[s] = [waitApplyCh[s] EXCEPT ![i] = Tail(waitApplyCh[s][i])]
  BY <1>1, <1>2
<1>6. QED
  BY <1>3, <1>4, <1>5 DEF Channel

\* The channel of the handler goes away, and no other.
LEMMA EraseChannels ==
    ASSUME KvTypeOK, NEW h \in DOMAIN handler, EraseChannel(h)
    PROVE  /\ DOMAIN waitApplyCh' = Server
           /\ \A v \in Server : v # handler[h].server => waitApplyCh'[v] = waitApplyCh[v]
           /\ DOMAIN waitApplyCh'[handler[h].server] =
                 DOMAIN waitApplyCh[handler[h].server] \ {handler[h].index}
           /\ \A i \in DOMAIN waitApplyCh'[handler[h].server] :
                 waitApplyCh'[handler[h].server][i] = waitApplyCh[handler[h].server][i]
<1> DEFINE s == handler[h].server
           w == waitApplyCh[s]
<1>1. waitApplyCh' = [waitApplyCh EXCEPT ![s] = [i \in DOMAIN w \ {handler[h].index} |-> w[i]]]
  BY DEF EraseChannel
<1>2. DOMAIN waitApplyCh = Server /\ s \in Server
  BY HandlerFields DEF KvTypeOK
<1>3. waitApplyCh'[s] = [i \in DOMAIN w \ {handler[h].index} |-> w[i]]
  BY <1>1, <1>2
<1>4. /\ DOMAIN waitApplyCh' = Server
      /\ \A v \in Server : v # s => waitApplyCh'[v] = waitApplyCh[v]
  BY <1>1, <1>2
<1>5. QED
  BY <1>3, <1>4

\* A handler that has just been called.
NewHandler(server, op) ==
    [pc |-> "Start", server |-> server, op |-> op, index |-> 0,
     leader |-> FALSE, err |-> "", value |-> Nothing]

\* A new call is at its start.
LEMMA CalledMakes ==
    ASSUME NEW s \in Server, NEW o \in Op
    PROVE  /\ NewHandler(s, o) \in Handler /\ NewHandler(s, o).pc = "Start"
           /\ NewHandler(s, o).err = "" /\ NewHandler(s, o).op = o
BY DEF Handler, Pc, Err, Stored, NewHandler

-----------------------------------------------------------------------------
\* A clerk begins a request: it gets a new call for a request of its own.
Requested(c, n, op) ==
    /\ clerk[c].call = 0
    /\ op \in Op /\ Owner(op) = c /\ op.RequestId = clerk[c].m_requestId + 1
    /\ n # 0 /\ n \notin DOMAIN handler /\ n \in 1..MaxCalls
    /\ DOMAIN handler' = DOMAIN handler \cup {n}
    /\ \A h \in DOMAIN handler : handler'[h] = handler[h]
    /\ handler'[n] \in Handler /\ handler'[n].op = op
    /\ handler'[n].pc = "Start" /\ handler'[n].err = ""
    /\ \A d \in Clerk : d # c => clerk'[d] = clerk[d]
    /\ clerk'[c] \in ClerkState /\ clerk'[c].m_requestId = op.RequestId
    /\ clerk'[c].call = n /\ clerk'[c].op = op
    /\ handler'[n].server = clerk'[c].server
    /\ DOMAIN clerk' = Clerk /\ clerk' \in [Clerk -> ClerkState]

\* Get, Put and Append begin with a request that is Requested.
LEMMA RequestMakes ==
    ASSUME KvTypeOK, NEW c \in Clerk, NEW operation \in Operation, Request(c, operation)
    PROVE  \E n, op : Requested(c, n, op)
<1> DEFINE id == clerk[c].m_requestId + 1
           server == clerk[c].m_recentLeaderId
           op == [Operation |-> operation, Value |-> <<c, id>>, ClientId |-> IdOf[c], RequestId |-> id]
           n == NewCall(DOMAIN handler)
<1>1. /\ clerk[c].call = 0 /\ Cardinality(DOMAIN handler) < MaxCalls
      /\ handler' = Called(DOMAIN handler, server, op)
      /\ clerk' = [clerk EXCEPT ![c].m_requestId = id, ![c].server = server, ![c].op = op,
                                ![c].got = Nothing, ![c].call = n]
  BY DEF Request
<1>2. clerk \in [Clerk -> ClerkState] /\ clerk[c] \in ClerkState
  BY DEF KvTypeOK
<1>3. clerk[c].m_requestId \in Nat /\ server \in Server /\ id \in Nat \ {0}
  BY <1>2 DEF ClerkState
<1>4. op \in Op /\ Owner(op) = c /\ op.RequestId = id
  BY <1>3, IdAssumption DEF Op, Owner, Written
<1> HIDE DEF op, server
<1>5. DOMAIN handler \in SUBSET DOMAIN handler /\ n = NewCall(DOMAIN handler)
  OBVIOUS
<1> HIDE DEF n
<1>6. n \in 1..MaxCalls /\ n \notin DOMAIN handler /\ n # 0
  BY <1>1, <1>5, NewCallFree DEF KvTypeOK
<1>7. handler' = [h \in DOMAIN handler \cup {n} |-> IF h = n THEN NewHandler(server, op) ELSE handler[h]]
  BY <1>1, <1>5 DEF Called, NewHandler
<1>8. /\ DOMAIN handler' = DOMAIN handler \cup {n}
      /\ \A h \in DOMAIN handler : handler'[h] = handler[h]
      /\ handler'[n] \in Handler /\ handler'[n].pc = "Start" /\ handler'[n].err = ""
      /\ handler'[n].op = op /\ handler'[n].server = server
  <2> DEFINE x == NewHandler(server, op)
  <2>1. x \in Handler /\ x.pc = "Start" /\ x.err = "" /\ x.op = op
    BY <1>3, <1>4, CalledMakes
  <2>5. x.server = server
    BY DEF NewHandler
  <2> HIDE DEF x
  <2>2. DOMAIN handler' = DOMAIN handler \cup {n} /\ handler'[n] = x
    BY <1>7 DEF x
  <2>3. \A h \in DOMAIN handler : handler'[h] = handler[h]
    BY <1>6, <1>7
  <2>4. QED
    BY <2>1, <2>2, <2>3, <2>5
<1> DEFINE r == [clerk[c] EXCEPT !.m_requestId = id, !.server = server, !.op = op,
                                 !.got = Nothing, !.call = n]
<1>9. n \in 1..MaxCalls /\ MaxCalls \in Nat
  BY <1>6, BoundsAssumption
<1>10. n \in Nat /\ Nothing \in Stored
  BY <1>9 DEF Stored
<1>11. r \in ClerkState /\ r.m_requestId = id /\ r.call = n /\ r.op = op /\ r.server = server
  BY <1>2, <1>3, <1>4, <1>10 DEF ClerkState
<1>12. clerk' = [clerk EXCEPT ![c] = r]
  BY <1>1
<1> HIDE DEF r
<1>13. /\ \A d \in Clerk : d # c => clerk'[d] = clerk[d]
      /\ clerk'[c] = r /\ clerk' \in [Clerk -> ClerkState] /\ DOMAIN clerk' = Clerk
  BY <1>2, <1>11, <1>12
<1>14. Requested(c, n, op)
  <2>1. clerk[c].call = 0
    BY <1>1
  <2>2. QED
    BY <1>4, <1>8, <1>11, <1>13, <1>6, <2>1 DEF Requested
<1>15. QED
  BY <1>14

\* A clerk tries a server again: its call gets a new number, and one call, or
\* none, is dropped.
Retried(c, n, others) ==
    /\ clerk[c].call # 0
    /\ n # 0 /\ n \notin others /\ n \in 1..MaxCalls
    /\ DOMAIN handler' = others \cup {n}
    /\ \A h \in others : handler'[h] = handler[h]
    /\ handler'[n] \in Handler /\ handler'[n].op = clerk[c].op
    /\ handler'[n].pc = "Start" /\ handler'[n].err = ""
    /\ \A d \in Clerk : d # c => clerk'[d] = clerk[d]
    /\ clerk'[c].m_requestId = clerk[c].m_requestId
    /\ clerk'[c].call = n /\ clerk'[c].op = clerk[c].op
    /\ handler'[n].server = clerk'[c].server
    /\ DOMAIN clerk' = Clerk /\ clerk' \in [Clerk -> ClerkState]

\* Try calls again for the request the clerk waits for.
LEMMA TryMakes ==
    ASSUME KvTypeOK, ClerksWait, NEW c \in Clerk, clerk[c].call # 0, NEW server \in Server,
           NEW others \in SUBSET DOMAIN handler, Try(c, server, others)
    PROVE  \E n : Retried(c, n, others)
<1> DEFINE n == NewCall(others)
           r == [clerk[c] EXCEPT !.server = server, !.call = n]
<1>1. /\ Cardinality(others) < MaxCalls
      /\ handler' = Called(others, server, clerk[c].op)
      /\ clerk' = [clerk EXCEPT ![c] = r]
  BY DEF Try
<1>2. clerk \in [Clerk -> ClerkState] /\ clerk[c] \in ClerkState
  BY DEF KvTypeOK
<1>4. clerk[c].op \in Op
  BY DEF ClerksWait
<1>11. n = NewCall(others)
  OBVIOUS
<1> HIDE DEF n, r
<1>14. n \in 1..MaxCalls /\ n \notin others /\ n # 0
  <2>1. others \in SUBSET (1..MaxCalls)
    BY DEF KvTypeOK
  <2>2. QED
    BY <1>1, <1>11, <2>1, NewCallFree
<1>15. handler' = [h \in others \cup {n} |-> IF h = n THEN NewHandler(server, clerk[c].op) ELSE handler[h]]
  BY <1>1, <1>11 DEF Called, NewHandler
<1>5. /\ DOMAIN handler' = others \cup {n}
      /\ \A h \in others : handler'[h] = handler[h]
      /\ handler'[n] \in Handler /\ handler'[n].pc = "Start" /\ handler'[n].err = ""
      /\ handler'[n].op = clerk[c].op /\ handler'[n].server = server
  <2> DEFINE x == NewHandler(server, clerk[c].op)
  <2>1. x \in Handler /\ x.pc = "Start" /\ x.err = "" /\ x.op = clerk[c].op
    BY <1>4, CalledMakes
  <2>5. x.server = server
    BY DEF NewHandler
  <2> HIDE DEF x
  <2>2. DOMAIN handler' = others \cup {n} /\ handler'[n] = x
    BY <1>15 DEF x
  <2>3. \A h \in others : handler'[h] = handler[h]
    BY <1>14, <1>15
  <2>4. QED
    BY <2>1, <2>2, <2>3, <2>5
<1>12. n \in 1..MaxCalls /\ MaxCalls \in Nat
  BY <1>14, BoundsAssumption
<1>6. n \in Nat
  BY <1>12
<1>7. r \in ClerkState /\ r.m_requestId = clerk[c].m_requestId /\ r.call = n /\ r.op = clerk[c].op
      /\ r.server = server
  BY <1>2, <1>4, <1>6 DEF ClerkState, r
<1>8. /\ \A d \in Clerk : d # c => clerk'[d] = clerk[d]
      /\ clerk'[c] = r /\ clerk' \in [Clerk -> ClerkState] /\ DOMAIN clerk' = Clerk
  BY <1>1, <1>2, <1>7
<1>9. Retried(c, n, others)
  BY <1>5, <1>7, <1>8, <1>14 DEF Retried
<1>10. QED
  BY <1>9

\* A clerk gets its answer.
Returned(c, h) ==
    /\ clerk[c].call = h /\ h \in DOMAIN handler /\ handler[h].err \in {"OK", "ErrNoKey"}
    /\ DOMAIN handler' = DOMAIN handler \ {h}
    /\ \A g \in DOMAIN handler' : handler'[g] = handler[g]
    /\ \A d \in Clerk : d # c => clerk'[d] = clerk[d]
    /\ clerk'[c].m_requestId = clerk[c].m_requestId
    /\ clerk'[c].call = 0 /\ clerk'[c].op = clerk[c].op /\ clerk'[c].server = clerk[c].server
    /\ DOMAIN clerk' = Clerk /\ clerk' \in [Clerk -> ClerkState]

\* Return takes the call the clerk waits for.
LEMMA ReturnMakes ==
    ASSUME KvTypeOK, ClerksWait, NEW c \in Clerk, Return(c)
    PROVE  clerk[c].call # 0 /\ Returned(c, clerk[c].call)
<1> DEFINE h == clerk[c].call
           leader == IF handler[h].err = "OK" THEN clerk[c].server ELSE clerk[c].m_recentLeaderId
           r == [clerk[c] EXCEPT !.call = 0, !.got = handler[h].value, !.m_recentLeaderId = leader]
<1>1. /\ h # 0 /\ handler[h].err \in {"OK", "ErrNoKey"}
      /\ handler' = [g \in DOMAIN handler \ {h} |-> handler[g]]
      /\ clerk' = [clerk EXCEPT ![c] = r]
  BY DEF Return
<1>2. h \in DOMAIN handler
  BY <1>1 DEF ClerksWait
<1>3. clerk \in [Clerk -> ClerkState] /\ clerk[c] \in ClerkState /\ handler[h] \in Handler
  BY <1>2 DEF KvTypeOK
<1>4. clerk[c].server \in Server /\ clerk[c].m_recentLeaderId \in Server /\ handler[h].value \in Stored
  BY <1>3 DEF ClerkState, Handler
<1>5. leader \in Server
  BY <1>4
<1> HIDE DEF leader
<1>6. r \in ClerkState /\ r.m_requestId = clerk[c].m_requestId /\ r.call = 0 /\ r.op = clerk[c].op
      /\ r.server = clerk[c].server
  BY <1>3, <1>4, <1>5 DEF ClerkState
<1> HIDE DEF r
<1>7. /\ \A d \in Clerk : d # c => clerk'[d] = clerk[d]
      /\ clerk'[c] = r /\ clerk' \in [Clerk -> ClerkState] /\ DOMAIN clerk' = Clerk
  BY <1>1, <1>3, <1>6
<1>8. /\ DOMAIN handler' = DOMAIN handler \ {h}
      /\ \A g \in DOMAIN handler' : handler'[g] = handler[g]
  BY <1>1
<1>9. QED
  BY <1>1, <1>2, <1>6, <1>7, <1>8 DEF Returned
-----------------------------------------------------------------------------
\* A step of a handler leaves the clerks alone, and moves this handler or drops it.
LEMMA HandlerMoves ==
    ASSUME KvTypeOK, NEW h \in DOMAIN handler, HandlerStep(h)
    PROVE  /\ UNCHANGED <<clerk, failures, acked>>
           /\ (\E pc, err, index : Moved(h, pc, err, index)) \/ Unclaimed(h)
<1>1. UNCHANGED <<clerk, failures, acked>>
  BY DEF HandlerStep, Start, MakeChannel, PopChannel, TimeOut, GetState, CheckDuplicate,
         ExecuteGetOpOnKVDB, EraseChannel, Unclaimed, clerkVars
<1>2. handler[h] \in Handler
  BY HandlerFields
<1>3. CASE Start(h)
  BY <1>1, <1>3, StartMoves
<1>4. CASE MakeChannel(h)
  BY <1>1, <1>2, <1>4, GotoMoves DEF MakeChannel, Pc
<1>5. CASE PopChannel(h)
  BY <1>1, <1>5, PopChannelMoves
<1>6. CASE TimeOut(h)
  BY <1>1, <1>6, TimeOutMoves
<1>7. CASE GetState(h)
  BY <1>1, <1>7, GetStateMoves
<1>8. CASE CheckDuplicate(h)
  BY <1>1, <1>8, CheckDuplicateMoves
<1>9. CASE ExecuteGetOpOnKVDB(h)
  BY <1>1, <1>9, ExecuteGetMoves
<1>10. CASE EraseChannel(h)
  BY <1>1, <1>2, <1>10, GotoMoves DEF EraseChannel, Pc
<1>11. QED
  BY <1>1, <1>3, <1>4, <1>5, <1>6, <1>7, <1>8, <1>9, <1>10 DEF HandlerStep

\* A clerk begins a request, tries again with or without its old call dropped, or returns.
LEMMA ClerkMoves ==
    ASSUME KvTypeOK, ClerksWait, NEW c \in Clerk, ClerkStep(c)
    PROVE  /\ UNCHANGED <<raftVars, storeVars, loopVars, waitApplyCh>>
           /\ \/ \E n, op : Requested(c, n, op)
              \/ \E n : Retried(c, n, DOMAIN handler \ {clerk[c].call})
              \/ \E n : Retried(c, n, DOMAIN handler)
              \/ clerk[c].call # 0 /\ Returned(c, clerk[c].call)
<1>1. UNCHANGED <<raftVars, storeVars, loopVars, waitApplyCh>>
  BY DEF ClerkStep, Request, Retry, CallFails, Return
<1>0. clerk[c].server \in Server /\ NextServer(clerk[c].server) \in Server
  <2>1. clerk[c] \in ClerkState
    BY DEF KvTypeOK
  <2>2. QED
    BY <2>1, ServerNumbers DEF ClerkState
<1>2. CASE \E op \in Operation : Request(c, op)
  BY <1>1, <1>2, RequestMakes
<1>3. CASE Retry(c)
  <2>1. clerk[c].call # 0 /\ Try(c, NextServer(clerk[c].server), DOMAIN handler \ {clerk[c].call})
    BY <1>3 DEF Retry
  <2>2. \E n : Retried(c, n, DOMAIN handler \ {clerk[c].call})
    BY <1>0, <2>1, TryMakes
  <2>3. QED
    BY <1>1, <2>2
<1>4. CASE CallFails(c)
  <2>1. clerk[c].call # 0 /\ \E server \in Server : Try(c, server, DOMAIN handler)
    BY <1>0, <1>4 DEF CallFails
  <2>2. \E n : Retried(c, n, DOMAIN handler)
    BY <2>1, TryMakes
  <2>3. QED
    BY <1>1, <2>1, <2>2
<1>5. CASE Return(c)
  BY <1>1, <1>5, ReturnMakes
<1>6. QED
  BY <1>1, <1>2, <1>3, <1>4, <1>5 DEF ClerkStep

\* Consensus and the apply loops leave handlers and clerks alone.
LEMMA QuietMoves ==
    ASSUME NEW s \in Server, ConsensusStep(s) \/ LoopStep(s)
    PROVE  UNCHANGED <<handler, clerk, failures, acked>>
BY DEF ConsensusStep, Elect, Depose, Commit, LoopStep, PopMessage, ExecuteOnKVDB,
       SendMessageToWaitChan, clerkVars

\* Every clerk keeps waiting for its latest request.
LEMMA ClerksWaitStep ==
    ASSUME KvTypeOK, ClerksWait, Next
    PROVE  ClerksWait'
<1>1. ASSUME NEW s \in Server, ConsensusStep(s) \/ LoopStep(s) PROVE ClerksWait'
  BY <1>1, QuietMoves DEF ClerksWait
<1>2. ASSUME NEW h \in DOMAIN handler, HandlerStep(h) PROVE ClerksWait'
  <2>1. UNCHANGED clerk
    BY <1>2, HandlerMoves
  <2>2. CASE \E pc, err, index : Moved(h, pc, err, index)
    BY <2>1, <2>2 DEF Moved, ClerksWait
  <2>3. CASE Unclaimed(h)
    BY <2>1, <2>3 DEF Unclaimed, ClerksWait
  <2>4. QED
    BY <1>2, <2>2, <2>3, HandlerMoves
<1>3. ASSUME NEW c \in Clerk, ClerkStep(c) PROVE ClerksWait'
  <2>1. ASSUME NEW n, NEW op, Requested(c, n, op) PROVE ClerksWait'
    <3>1. /\ n \in DOMAIN handler' /\ handler'[n].op = op /\ op \in Op /\ Owner(op) = c
          /\ clerk'[c].m_requestId = op.RequestId /\ clerk'[c].call = n /\ clerk'[c].op = op
          /\ handler'[n].server = clerk'[c].server
      BY <2>1 DEF Requested
    <3>2. ASSUME NEW d \in Clerk, d # c, clerk'[d].call # 0
          PROVE  /\ clerk'[d] = clerk[d] /\ clerk[d].call \in DOMAIN handler
                 /\ handler'[clerk[d].call] = handler[clerk[d].call] /\ clerk[d].call \in DOMAIN handler'
      BY <2>1, <3>2 DEF Requested, ClerksWait
    <3>3. QED
      BY <3>1, <3>2 DEF ClerksWait
  <2>2. \A d \in Clerk : clerk[d].call # 0 /\ clerk[c].call # 0 /\ d # c => clerk[d].call # clerk[c].call
    BY DEF ClerksWait
  <2>3. ASSUME NEW n, NEW others, others = DOMAIN handler \/ others = DOMAIN handler \ {clerk[c].call},
               Retried(c, n, others)
        PROVE  ClerksWait'
    <3>1. ASSUME NEW d \in Clerk, d # c, clerk'[d].call # 0
          PROVE  /\ clerk'[d] = clerk[d] /\ clerk[d].call \in others
                 /\ handler'[clerk[d].call] = handler[clerk[d].call] /\ clerk[d].call \in DOMAIN handler'
      BY <2>2, <2>3, <3>1 DEF Retried, ClerksWait
    <3>2. /\ n \in DOMAIN handler' /\ handler'[n].op = clerk[c].op
          /\ clerk[c].op \in Op /\ Owner(clerk[c].op) = c
          /\ clerk[c].op.RequestId = clerk[c].m_requestId /\ clerk'[c].m_requestId = clerk[c].m_requestId
          /\ clerk'[c].call = n /\ clerk'[c].op = clerk[c].op
          /\ handler'[n].server = clerk'[c].server
      BY <2>3 DEF Retried, ClerksWait
    <3>3. QED
      BY <3>1, <3>2 DEF ClerksWait
  <2>4. ASSUME clerk[c].call # 0, Returned(c, clerk[c].call) PROVE ClerksWait'
    BY <2>2, <2>4 DEF Returned, ClerksWait
  <2>5. QED
    BY <1>3, <2>1, <2>3, <2>4, ClerkMoves
<1>4. QED
  BY <1>1, <1>2, <1>3 DEF Next

-----------------------------------------------------------------------------
\* The elements of a concatenation.
LEMMA Concatenated ==
    ASSUME NEW S, NEW a \in Seq(S), NEW b \in Seq(S)
    PROVE  /\ a \o b \in Seq(S) /\ Len(a \o b) = Len(a) + Len(b)
           /\ \A i \in 1..Len(a \o b) : (a \o b)[i] = IF i <= Len(a) THEN a[i] ELSE b[i - Len(a)]
OBVIOUS

\* The log of a new leader is not shorter, and has nothing new.
LEMMA OverlaidLog ==
    ASSUME NEW a \in Seq(Op), NEW b \in Seq(Op), NEW x, x = a \o SubSeq(b, Len(a) + 1, Len(b))
    PROVE  /\ x \in Seq(Op) /\ Len(x) >= Len(b)
           /\ \A i \in 1..Len(x) : (x[i] = a[i] /\ i \in 1..Len(a)) \/ (x[i] = b[i] /\ i \in 1..Len(b))
<1> DEFINE y == SubSeq(b, Len(a) + 1, Len(b))
<1>1. Len(a) \in Nat /\ Len(b) \in Nat
  OBVIOUS
<1>2. /\ y \in Seq(Op) /\ Len(y) = IF Len(a) + 1 <= Len(b) THEN Len(b) - Len(a) ELSE 0
      /\ \A i \in 1..Len(y) : y[i] = b[Len(a) + i]
  BY <1>1
<1> HIDE DEF y
<1>3. /\ x = a \o y
  BY DEF y
<1>4. /\ x \in Seq(Op) /\ Len(x) = Len(a) + Len(y)
      /\ \A i \in 1..Len(x) : x[i] = IF i <= Len(a) THEN a[i] ELSE y[i - Len(a)]
  <2>1. a \in Seq(Op) /\ y \in Seq(Op)
    BY <1>2
  <2>2. /\ a \o y \in Seq(Op) /\ Len(a \o y) = Len(a) + Len(y)
        /\ \A i \in 1..Len(a \o y) : (a \o y)[i] = IF i <= Len(a) THEN a[i] ELSE y[i - Len(a)]
    BY <2>1, Concatenated, Zenon
  <2>3. QED
    BY <1>3, <2>2, Zenon
<1>5. Len(x) >= Len(b)
  BY <1>1, <1>2, <1>4
<1>6. ASSUME NEW i \in 1..Len(x)
      PROVE  (x[i] = a[i] /\ i \in 1..Len(a)) \/ (x[i] = b[i] /\ i \in 1..Len(b))
  <2>1. CASE i <= Len(a)
    BY <1>1, <1>4, <2>1
  <2>2. CASE ~(i <= Len(a))
    <3>1. i - Len(a) \in 1..Len(y)
      BY <1>1, <1>2, <1>4, <2>2
    <3>2. y[i - Len(a)] = b[i]
      BY <1>1, <1>2, <3>1
    <3>3. i \in 1..Len(b)
      BY <1>1, <1>2, <3>1
    <3>4. QED
      BY <1>4, <2>2, <3>2, <3>3
  <2>3. QED
    BY <2>1, <2>2
<1>7. QED
  BY <1>4, <1>5, <1>6

\* No log becomes shorter, and only a request of a handler is new in one.
LEMMA LogsGrow ==
    ASSUME KvTypeOK, Next
    PROVE  /\ raftLog' \in [Server -> Seq(Op)]
           /\ \A s \in Server : Len(raftLog'[s]) >= Len(raftLog[s])
           /\ \A s \in Server : \A i \in 1..Len(raftLog'[s]) :
                 \/ i \in 1..Len(raftLog[s]) /\ raftLog'[s][i] = raftLog[s][i]
                 \/ i \in 1..Len(committed) /\ raftLog'[s][i] = committed[i]
                 \/ \E h \in DOMAIN handler : raftLog'[s][i] = handler[h].op
<1>1. raftLog \in [Server -> Seq(Op)] /\ committed \in Seq(Op)
  BY DEF KvTypeOK
<1>2. \A s \in Server : Len(raftLog[s]) \in Nat
  BY <1>1
<1>3. ASSUME UNCHANGED raftLog
      PROVE  /\ raftLog' \in [Server -> Seq(Op)]
             /\ \A s \in Server : Len(raftLog'[s]) >= Len(raftLog[s])
             /\ \A s \in Server : \A i \in 1..Len(raftLog'[s]) :
                   i \in 1..Len(raftLog[s]) /\ raftLog'[s][i] = raftLog[s][i]
  BY <1>1, <1>2, <1>3
<1>4. ASSUME NEW s \in Server, Elect(s)
      PROVE  /\ raftLog' \in [Server -> Seq(Op)]
             /\ \A v \in Server : Len(raftLog'[v]) >= Len(raftLog[v])
             /\ \A v \in Server : \A i \in 1..Len(raftLog'[v]) :
                   \/ i \in 1..Len(raftLog[v]) /\ raftLog'[v][i] = raftLog[v][i]
                   \/ i \in 1..Len(committed) /\ raftLog'[v][i] = committed[i]
  <2> DEFINE x == Overlaid(raftLog[s])
  <2>1. /\ x \in Seq(Op) /\ Len(x) >= Len(raftLog[s])
        /\ \A i \in 1..Len(x) : \/ x[i] = committed[i] /\ i \in 1..Len(committed)
                                \/ x[i] = raftLog[s][i] /\ i \in 1..Len(raftLog[s])
    BY <1>1, OverlaidLog DEF Overlaid
  <2>2. raftLog' = [raftLog EXCEPT ![s] = x]
    BY <1>4 DEF Elect
  <2> HIDE DEF x
  <2>3. /\ raftLog'[s] = x /\ \A v \in Server : v # s => raftLog'[v] = raftLog[v]
        /\ raftLog' \in [Server -> Seq(Op)]
    BY <1>1, <2>1, <2>2
  <2>4. ASSUME NEW v \in Server
        PROVE  /\ Len(raftLog'[v]) >= Len(raftLog[v])
               /\ \A i \in 1..Len(raftLog'[v]) :
                     \/ i \in 1..Len(raftLog[v]) /\ raftLog'[v][i] = raftLog[v][i]
                     \/ i \in 1..Len(committed) /\ raftLog'[v][i] = committed[i]
    <3>1. CASE v = s
      BY <2>1, <2>3, <3>1
    <3>2. CASE v # s
      BY <1>2, <2>3, <3>2
    <3>3. QED
      BY <3>1, <3>2
  <2>5. QED
    BY <2>3, <2>4
<1>5. ASSUME NEW h \in DOMAIN handler, Start(h), ~UNCHANGED raftLog
      PROVE  /\ raftLog' \in [Server -> Seq(Op)]
             /\ \A v \in Server : Len(raftLog'[v]) >= Len(raftLog[v])
             /\ \A v \in Server : \A i \in 1..Len(raftLog'[v]) :
                   \/ i \in 1..Len(raftLog[v]) /\ raftLog'[v][i] = raftLog[v][i]
                   \/ raftLog'[v][i] = handler[h].op
  <2> DEFINE s == handler[h].server
             x == Append(raftLog[s], handler[h].op)
  <2>1. s \in Server /\ handler[h].op \in Op
    BY HandlerFields
  <2>2. raftLog' = [raftLog EXCEPT ![s] = x]
    BY <1>5, StartMoves
  <2>3. /\ x \in Seq(Op) /\ Len(x) = Len(raftLog[s]) + 1
        /\ \A i \in 1..Len(x) : x[i] = handler[h].op \/ (i \in 1..Len(raftLog[s]) /\ x[i] = raftLog[s][i])
    BY <1>1, <1>2, <2>1
  <2> HIDE DEF x
  <2>4. /\ raftLog'[s] = x /\ \A v \in Server : v # s => raftLog'[v] = raftLog[v]
        /\ raftLog' \in [Server -> Seq(Op)]
    BY <1>1, <2>1, <2>2, <2>3
  <2> HIDE DEF s
  <2>5. ASSUME NEW v \in Server
        PROVE  /\ Len(raftLog'[v]) >= Len(raftLog[v])
               /\ \A i \in 1..Len(raftLog'[v]) :
                     \/ i \in 1..Len(raftLog[v]) /\ raftLog'[v][i] = raftLog[v][i]
                     \/ raftLog'[v][i] = handler[h].op
    <3>1. CASE v = s
      BY <1>2, <2>1, <2>3, <2>4, <3>1
    <3>2. CASE v # s
      BY <1>2, <2>4, <3>2
    <3>3. QED
      BY <3>1, <3>2
  <2>6. QED
    BY <2>4, <2>5
<1>6. ASSUME NEW s \in Server, ConsensusStep(s) \/ LoopStep(s), ~Elect(s) PROVE UNCHANGED raftLog
  BY <1>6 DEF ConsensusStep, Depose, Commit, LoopStep, PopMessage, ExecuteOnKVDB,
              SendMessageToWaitChan, raftVars
<1>7. ASSUME NEW h \in DOMAIN handler, HandlerStep(h), ~Start(h) PROVE UNCHANGED raftLog
  BY <1>7 DEF HandlerStep, MakeChannel, PopChannel, TimeOut, GetState, CheckDuplicate,
         ExecuteGetOpOnKVDB, EraseChannel, Unclaimed, raftVars
<1>8. ASSUME NEW c \in Clerk, ClerkStep(c) PROVE UNCHANGED raftLog
  BY <1>8 DEF ClerkStep, Request, Retry, CallFails, Return, raftVars
<1>9. QED
  BY <1>3, <1>4, <1>5, <1>6, <1>7, <1>8 DEF Next

\* A handler that is past Start keeps its index.
LEMMA BusyMoves ==
    ASSUME KvTypeOK, NEW h \in DOMAIN handler, HandlerStep(h), ~Start(h), ~Unclaimed(h)
    PROVE  /\ Busy(h)
           /\ \E pc \in Pc, err \in Err : Moved(h, pc, err, handler[h].index)
           /\ MakeChannel(h) \/ handler'[h].pc # "Wait"
<1>2. handler[h] \in Handler /\ handler[h].err \in Err
  BY HandlerFields
<1>4. CASE MakeChannel(h)
  BY <1>2, <1>4, GotoMoves DEF MakeChannel, Pc, Busy
<1>5. CASE PopChannel(h)
  BY <1>2, <1>5, PopChannelMoves DEF Moved, Pc, Busy, PopChannel, Err
<1>6. CASE TimeOut(h)
  BY <1>2, <1>6, TimeOutMoves DEF Moved, Pc, Busy, TimeOut
<1>7. CASE GetState(h)
  BY <1>2, <1>7, GetStateMoves DEF Moved, Pc, Busy, GetState
<1>8. CASE CheckDuplicate(h)
  BY <1>2, <1>8, CheckDuplicateMoves DEF Moved, Pc, Busy, CheckDuplicate, Err
<1>9. CASE ExecuteGetOpOnKVDB(h)
  BY <1>2, <1>9, ExecuteGetMoves DEF Moved, Pc, Busy, ExecuteGetOpOnKVDB
<1>10. CASE EraseChannel(h)
  BY <1>2, <1>10, GotoMoves DEF Moved, EraseChannel, Pc, Busy
<1>11. QED
  BY <1>4, <1>5, <1>6, <1>7, <1>8, <1>9, <1>10 DEF HandlerStep

\* A step of a clerk only drops handlers, and adds one that has not begun.
LEMMA ClerkHandlers ==
    ASSUME KvTypeOK, ClerksWait, NEW c \in Clerk, ClerkStep(c)
    PROVE  /\ \A h \in DOMAIN handler' :
                 \/ h \in DOMAIN handler /\ handler'[h] = handler[h]
                 \/ handler'[h] \in Handler /\ handler'[h].pc = "Start" /\ handler'[h].err = ""
           /\ DOMAIN handler' \subseteq 1..MaxCalls
           /\ clerk' \in [Clerk -> ClerkState]
           /\ \A d \in Clerk : d # c => clerk'[d] = clerk[d]
<1>0. DOMAIN handler \subseteq 1..MaxCalls
  BY DEF KvTypeOK
<1>1. CASE \E n, op : Requested(c, n, op)
  BY <1>0, <1>1 DEF Requested
<1>2. ASSUME NEW n, NEW others \in SUBSET DOMAIN handler, Retried(c, n, others)
      PROVE  /\ \A h \in DOMAIN handler' :
                   \/ h \in DOMAIN handler /\ handler'[h] = handler[h]
                   \/ handler'[h] \in Handler /\ handler'[h].pc = "Start" /\ handler'[h].err = ""
             /\ DOMAIN handler' \subseteq 1..MaxCalls
             /\ clerk' \in [Clerk -> ClerkState]
             /\ \A d \in Clerk : d # c => clerk'[d] = clerk[d]
  BY <1>0, <1>2 DEF Retried
<1>3. CASE Returned(c, clerk[c].call)
  BY <1>0, <1>3 DEF Returned
<1>4. DOMAIN handler \in SUBSET DOMAIN handler /\ DOMAIN handler \ {clerk[c].call} \in SUBSET DOMAIN handler
  OBVIOUS
<1>5. CASE \E n : Retried(c, n, DOMAIN handler)
  BY <1>2, <1>4, <1>5
<1>6. CASE \E n : Retried(c, n, DOMAIN handler \ {clerk[c].call})
  BY <1>2, <1>4, <1>6
<1>7. QED
  BY <1>1, <1>3, <1>5, <1>6, ClerkMoves

\* The types of handlers and clerks.
LEMMA HandlerTypes ==
    ASSUME KvTypeOK, ClerksWait, Next
    PROVE  /\ DOMAIN handler' \subseteq 1..MaxCalls
           /\ \A h \in DOMAIN handler' : handler'[h] \in Handler
           /\ clerk' \in [Clerk -> ClerkState]
           /\ failures' \in Nat
<1>0. /\ DOMAIN handler \subseteq 1..MaxCalls /\ \A h \in DOMAIN handler : handler[h] \in Handler
      /\ clerk \in [Clerk -> ClerkState] /\ failures \in Nat
  BY DEF KvTypeOK
<1>1. ASSUME NEW s \in Server, ConsensusStep(s) \/ LoopStep(s)
      PROVE  UNCHANGED <<handler, clerk, failures>>
  BY <1>1, QuietMoves
<1>2. ASSUME NEW h \in DOMAIN handler, HandlerStep(h)
      PROVE  /\ DOMAIN handler' \subseteq 1..MaxCalls
             /\ \A g \in DOMAIN handler' : handler'[g] \in Handler
             /\ UNCHANGED <<clerk, failures>>
  <2>1. CASE \E pc, err, index : Moved(h, pc, err, index)
    BY <1>0, <1>2, <2>1, HandlerMoves DEF Moved
  <2>2. CASE Unclaimed(h)
    BY <1>0, <1>2, <2>2, HandlerMoves DEF Unclaimed
  <2>3. QED
    BY <1>2, <2>1, <2>2, HandlerMoves
<1>3. ASSUME NEW c \in Clerk, ClerkStep(c)
      PROVE  failures' \in Nat
  <2>1. failures' = failures \/ failures' = failures + 1
    BY <1>3 DEF ClerkStep, Request, Retry, CallFails, Return
  <2>2. QED
    BY <1>0, <2>1
<1>4. ASSUME NEW c \in Clerk, ClerkStep(c)
      PROVE  /\ DOMAIN handler' \subseteq 1..MaxCalls
             /\ \A h \in DOMAIN handler' : handler'[h] \in Handler
             /\ clerk' \in [Clerk -> ClerkState]
  BY <1>0, <1>4, ClerkHandlers
<1>5. QED
  BY <1>0, <1>1, <1>2, <1>3, <1>4 DEF Next

\* Every handler keeps its index and its channel to itself.
LEMMA ChannelsOwnedStep ==
    ASSUME KvTypeOK, ClerksWait, ChannelsOwned, Next
    PROVE  ChannelsOwned'
<1>0. /\ \A h \in DOMAIN handler : handler[h].server \in Server /\ handler[h].index \in Nat
      /\ raftLog \in [Server -> Seq(Op)] /\ raftLog' \in [Server -> Seq(Op)]
  BY HandlerFields, LogsGrow DEF KvTypeOK
<1>1. \A s \in Server : Len(raftLog[s]) \in Nat /\ Len(raftLog'[s]) \in Nat
                        /\ Len(raftLog[s]) <= Len(raftLog'[s])
  BY <1>0, LogsGrow
<1>2. ASSUME NEW s \in Server, ConsensusStep(s) \/ LoopStep(s) PROVE ChannelsOwned'
  <2>1. UNCHANGED handler
    BY <1>2, QuietMoves
  <2>2. \A v \in Server : DOMAIN waitApplyCh'[v] = DOMAIN waitApplyCh[v]
    <3>1. CASE SendMessageToWaitChan(s)
      BY <3>1, SendChannels
    <3>2. CASE ~SendMessageToWaitChan(s)
      <4>1. UNCHANGED waitApplyCh
        BY <1>2, <3>2 DEF ConsensusStep, Elect, Depose, Commit, LoopStep, PopMessage, ExecuteOnKVDB
      <4>2. QED
        BY <4>1
    <3>3. QED
      BY <3>1, <3>2
  <2>3. \A h \in DOMAIN handler : Busy(h) => handler[h].index <= Len(raftLog'[handler[h].server])
    BY <1>0, <1>1 DEF ChannelsOwned
  <2>4. QED
    BY <1>0, <2>1, <2>2, <2>3 DEF ChannelsOwned, Busy
<1>3. ASSUME NEW h \in DOMAIN handler, Start(h) PROVE ChannelsOwned'
  <2>1. UNCHANGED waitApplyCh
    BY <1>3, StartMoves
  <2>2. CASE UNCHANGED raftLog /\ Moved(h, "Done", "ErrWrongLeader", handler[h].index)
    BY <2>1, <2>2 DEF Moved, ChannelsOwned, Busy
  <2>3. CASE /\ raftLog' = [raftLog EXCEPT ![handler[h].server] = Append(@, handler[h].op)]
             /\ Moved(h, "Channel", handler[h].err, Len(raftLog[handler[h].server]) + 1)
    <3> DEFINE s == handler[h].server
               len == Len(raftLog[s])
    <3>1. Len(raftLog'[s]) = len + 1
      BY <1>0, <2>3, HandlerFields
    <3>2. /\ DOMAIN handler' = DOMAIN handler /\ \A g \in DOMAIN handler : g # h => handler'[g] = handler[g]
          /\ handler'[h].server = s /\ handler'[h].index = len + 1 /\ handler'[h].pc = "Channel"
      BY <2>3 DEF Moved
    <3>3. s \in Server /\ len \in Nat
      BY <1>0, <1>1
    <3>4. ASSUME NEW g \in DOMAIN handler, g # h, handler[g].pc \notin {"Start", "Done"}
          PROVE  /\ handler[g].index <= Len(raftLog'[handler[g].server])
                 /\ handler[g].server = s => handler[g].index <= len
      BY <1>0, <1>1, <3>4 DEF ChannelsOwned, Busy
    <3>5. \A g \in DOMAIN handler' : handler'[g].pc \notin {"Start", "Done"} =>
             handler'[g].index <= Len(raftLog'[handler'[g].server])
      BY <3>1, <3>2, <3>3, <3>4
    <3>6. \A f, g \in DOMAIN handler' :
             /\ handler'[f].pc \notin {"Start", "Done"} /\ handler'[g].pc \notin {"Start", "Done"}
             /\ handler'[f].server = handler'[g].server /\ handler'[f].index = handler'[g].index
             => f = g
      <4>1. \A g \in DOMAIN handler : g # h /\ handler[g].pc \notin {"Start", "Done"} /\ handler[g].server = s
               => handler[g].index # len + 1
        BY <1>0, <3>3, <3>4
      <4> HIDE DEF s, len
      <4>2. QED
        BY <3>2, <4>1 DEF ChannelsOwned, Busy
    <3>7. \A g \in DOMAIN handler' :
             handler'[g].pc = "Wait" => handler'[g].index \in DOMAIN waitApplyCh'[handler'[g].server]
      BY <2>1, <3>2 DEF ChannelsOwned
    <3>8. QED
      BY <3>5, <3>6, <3>7 DEF ChannelsOwned, Busy
  <2>4. QED
    BY <1>3, <2>2, <2>3, StartMoves
<1>4. ASSUME NEW h \in DOMAIN handler, Unclaimed(h) PROVE ChannelsOwned'
  BY <1>4 DEF Unclaimed, raftVars, ChannelsOwned, Busy
<1>5. ASSUME NEW h \in DOMAIN handler, HandlerStep(h), ~Start(h), ~Unclaimed(h) PROVE ChannelsOwned'
  <2>1. /\ DOMAIN handler' = DOMAIN handler /\ \A g \in DOMAIN handler : g # h => handler'[g] = handler[g]
        /\ handler'[h].server = handler[h].server /\ handler'[h].index = handler[h].index /\ Busy(h)
    BY <1>5, BusyMoves DEF Moved
  <2>2. \A g \in DOMAIN handler : handler[g].pc \notin {"Start", "Done"} =>
            handler[g].index <= Len(raftLog'[handler[g].server])
    BY <1>0, <1>1 DEF ChannelsOwned, Busy
  <2>3. \A g \in DOMAIN handler' : handler'[g].pc \notin {"Start", "Done"} =>
           handler'[g].index <= Len(raftLog'[handler'[g].server])
    BY <2>1, <2>2 DEF Busy
  <2>4. \A f, g \in DOMAIN handler' :
           /\ handler'[f].pc \notin {"Start", "Done"} /\ handler'[g].pc \notin {"Start", "Done"}
           /\ handler'[f].server = handler'[g].server /\ handler'[f].index = handler'[g].index
           => f = g
    BY <2>1 DEF ChannelsOwned, Busy
  <2>5. ASSUME NEW g \in DOMAIN handler', handler'[g].pc = "Wait"
        PROVE  handler'[g].index \in DOMAIN waitApplyCh'[handler'[g].server]
    <3>1. CASE MakeChannel(h)
      <4>1. CASE g = h
        BY <2>1, <3>1, <4>1, MakeChannels
      <4>2. CASE g # h
        <5>1. handler'[g] = handler[g] /\ g \in DOMAIN handler
              /\ handler[g].index \in DOMAIN waitApplyCh[handler[g].server]
          BY <2>1, <2>5, <4>2 DEF ChannelsOwned
        <5>2. QED
          BY <1>0, <3>1, <5>1, MakeChannels
      <4>3. QED
        BY <4>1, <4>2
    <3>2. CASE ~MakeChannel(h)
      <4>1. /\ g # h /\ handler'[g] = handler[g] /\ g \in DOMAIN handler /\ Busy(g)
            /\ handler[g].index \in DOMAIN waitApplyCh[handler[g].server]
        BY <1>5, <2>1, <2>5, <3>2, BusyMoves DEF ChannelsOwned, Busy
      <4>2. CASE PopChannel(h)
        BY <1>0, <4>1, <4>2, PopChannels
      <4>3. CASE EraseChannel(h)
        <5>1. handler[g].server = handler[h].server => handler[g].index # handler[h].index
          BY <2>1, <4>1 DEF ChannelsOwned
        <5>2. QED
          BY <1>0, <4>1, <4>3, <5>1, EraseChannels
      <4>4. CASE UNCHANGED waitApplyCh
        BY <4>1, <4>4
      <4>5. QED
        BY <1>5, <3>2, <4>2, <4>3, <4>4 DEF HandlerStep, TimeOut, GetState, CheckDuplicate, ExecuteGetOpOnKVDB
    <3>3. QED
      BY <3>1, <3>2
  <2>6. QED
    BY <2>3, <2>4, <2>5 DEF ChannelsOwned, Busy
<1>6. ASSUME NEW c \in Clerk, ClerkStep(c) PROVE ChannelsOwned'
  <2>1. UNCHANGED <<raftLog, waitApplyCh>>
    BY <1>6, ClerkMoves DEF raftVars
  <2>2. \A h \in DOMAIN handler' : handler'[h].pc # "Start" => h \in DOMAIN handler /\ handler'[h] = handler[h]
    BY <1>6, ClerkHandlers
  <2>3. QED
    BY <2>1, <2>2 DEF ChannelsOwned, Busy
<1>7. QED
  BY <1>2, <1>3, <1>4, <1>5, <1>6 DEF Next, HandlerStep

\* Where the apply loop may be.
LEMMA LoopFields ==
    ASSUME KvTypeOK, NEW s \in Server
    PROVE  /\ loop[s] # Idle => /\ loop[s].pc \in {"Execute", "Send"} /\ loop[s].op \in Op /\ loop[s].index \in Nat
                                /\ loop[s] \in [pc: {"Execute", "Send"}, op: Op, index: Nat]
           /\ loop[s] = Idle => loop[s].pc = "Pop"
           /\ loop[s].pc \in {"Execute", "Send"} => loop[s] # Idle
<1>1. loop[s] \in LoopState
  BY DEF KvTypeOK
<1>2. QED
  BY <1>1 DEF LoopState, Idle

\* Only reads ask who leads, and only reads execute in a handler.
LEMMA ReadStepsStep ==
    ASSUME KvTypeOK, ClerksWait, ReadSteps, Next
    PROVE  ReadSteps'
<1>1. ASSUME NEW s \in Server, ConsensusStep(s) \/ LoopStep(s) PROVE ReadSteps'
  BY <1>1, QuietMoves DEF ReadSteps
<1>2. ASSUME NEW h \in DOMAIN handler, HandlerStep(h) PROVE ReadSteps'
  <2>1. ASSUME NEW pc, NEW err, NEW index, Moved(h, pc, err, index),
               pc \notin {"GetState", "Execute"} \/ ~IsWrite(handler[h].op)
        PROVE  ReadSteps'
    BY <2>1 DEF Moved, ReadSteps
  <2>2. handler[h] \in Handler
    BY HandlerFields
  <2>3. CASE Start(h)
    BY <2>1, <2>3, StartMoves
  <2>4. CASE MakeChannel(h)
    BY <2>1, <2>2, <2>4, GotoMoves DEF MakeChannel, Pc
  <2>5. CASE PopChannel(h)
    BY <2>1, <2>5, PopChannelMoves
  <2>6. CASE TimeOut(h)
    BY <2>1, <2>6, TimeOutMoves
  <2>7. CASE GetState(h)
    BY <2>1, <2>7, GetStateMoves
  <2>8. CASE CheckDuplicate(h)
    BY <2>1, <2>8, CheckDuplicateMoves
  <2>9. CASE ExecuteGetOpOnKVDB(h)
    BY <2>1, <2>9, ExecuteGetMoves
  <2>10. CASE EraseChannel(h)
    BY <2>1, <2>2, <2>10, GotoMoves DEF EraseChannel, Pc
  <2>11. CASE Unclaimed(h)
    BY <2>11 DEF Unclaimed, ReadSteps
  <2>12. QED
    BY <1>2, <2>3, <2>4, <2>5, <2>6, <2>7, <2>8, <2>9, <2>10, <2>11 DEF HandlerStep
<1>3. ASSUME NEW c \in Clerk, ClerkStep(c) PROVE ReadSteps'
  BY <1>3, ClerkHandlers DEF ReadSteps
<1>4. QED
  BY <1>1, <1>2, <1>3 DEF Next

\* Only the consensus steps change what is committed.
LEMMA CommittedOnly ==
    ASSUME Next
    PROVE  \/ UNCHANGED <<isLeader, committed>>
           \/ \E s \in Server : Elect(s) \/ Depose(s) \/ Commit(s)
<1>1. ASSUME NEW s \in Server, LoopStep(s) PROVE UNCHANGED <<isLeader, committed>>
  BY <1>1 DEF LoopStep, PopMessage, ExecuteOnKVDB, SendMessageToWaitChan, raftVars
<1>2. ASSUME NEW h \in DOMAIN handler, HandlerStep(h) PROVE UNCHANGED <<isLeader, committed>>
  BY <1>2 DEF HandlerStep, Start, MakeChannel, PopChannel, TimeOut, GetState, CheckDuplicate,
              ExecuteGetOpOnKVDB, EraseChannel, Unclaimed, raftVars
<1>3. ASSUME NEW c \in Clerk, ClerkStep(c) PROVE UNCHANGED <<isLeader, committed>>
  BY <1>3 DEF ClerkStep, Request, Retry, CallFails, Return, raftVars
<1>4. QED
  BY <1>1, <1>2, <1>3 DEF Next, ConsensusStep

\* What is committed grows at its end, by an entry of a leader's log.
LEMMA CommittedGrows ==
    ASSUME KvTypeOK, Next
    PROVE  /\ committed' \in Seq(Op) /\ isLeader' \in [Server -> BOOLEAN]
           /\ \/ UNCHANGED committed
              \/ \E s \in Server :
                    /\ Commit(s) /\ Len(committed) + 1 \in 1..Len(raftLog[s])
                    /\ committed' = Append(committed, raftLog[s][Len(committed) + 1])
                    /\ raftLog[s][Len(committed) + 1] \in Op
<1>1. committed \in Seq(Op) /\ raftLog \in [Server -> Seq(Op)] /\ isLeader \in [Server -> BOOLEAN]
  BY DEF KvTypeOK
<1>2. CASE UNCHANGED <<isLeader, committed>>
  BY <1>1, <1>2
<1>3. ASSUME NEW s \in Server, Elect(s) \/ Depose(s)
      PROVE  committed' \in Seq(Op) /\ isLeader' \in [Server -> BOOLEAN] /\ UNCHANGED committed
  BY <1>1, <1>3 DEF Elect, Depose
<1>4. ASSUME NEW s \in Server, Commit(s)
      PROVE  /\ committed' \in Seq(Op) /\ isLeader' \in [Server -> BOOLEAN]
             /\ Commit(s) /\ Len(committed) + 1 \in 1..Len(raftLog[s])
             /\ committed' = Append(committed, raftLog[s][Len(committed) + 1])
             /\ raftLog[s][Len(committed) + 1] \in Op
  <2>1. /\ Len(raftLog[s]) > Len(committed) /\ UNCHANGED isLeader
        /\ committed' = Append(committed, raftLog[s][Len(committed) + 1])
    BY <1>4 DEF Commit
  <2>2. raftLog[s] \in Seq(Op) /\ Len(raftLog[s]) \in Nat /\ Len(committed) \in Nat
    BY <1>1
  <2>3. Len(committed) + 1 \in 1..Len(raftLog[s])
    BY <2>1, <2>2
  <2>4. raftLog[s][Len(committed) + 1] \in Op
    BY <2>2, <2>3
  <2>5. QED
    BY <1>1, <1>4, <2>1, <2>3, <2>4
<1>5. QED
  BY <1>2, <1>3, <1>4, CommittedOnly

\* Only the steps named change the store, the loop and the channels.
LEMMA StoreOnly ==
    ASSUME Next
    PROVE  /\ \/ UNCHANGED storeVars
              \/ \E s \in Server : ExecuteOnKVDB(s)
              \/ \E h \in DOMAIN handler : ExecuteGetOpOnKVDB(h)
           /\ \/ UNCHANGED loopVars
              \/ \E s \in Server : LoopStep(s)
           /\ \/ UNCHANGED waitApplyCh
              \/ \E s \in Server : SendMessageToWaitChan(s)
              \/ \E h \in DOMAIN handler : MakeChannel(h) \/ PopChannel(h) \/ EraseChannel(h)
<1>1. ASSUME NEW s \in Server, ConsensusStep(s)
      PROVE  UNCHANGED storeVars /\ UNCHANGED loopVars /\ UNCHANGED waitApplyCh
  BY <1>1 DEF ConsensusStep, Elect, Depose, Commit
<1>2. ASSUME NEW s \in Server, LoopStep(s)
      PROVE  /\ UNCHANGED storeVars \/ ExecuteOnKVDB(s)
             /\ UNCHANGED waitApplyCh \/ SendMessageToWaitChan(s)
  BY <1>2 DEF LoopStep, PopMessage, ExecuteOnKVDB, SendMessageToWaitChan
<1>3. ASSUME NEW h \in DOMAIN handler, HandlerStep(h)
      PROVE  /\ UNCHANGED storeVars \/ ExecuteGetOpOnKVDB(h)
             /\ UNCHANGED loopVars
             /\ UNCHANGED waitApplyCh \/ MakeChannel(h) \/ PopChannel(h) \/ EraseChannel(h)
  BY <1>3 DEF HandlerStep, Start, MakeChannel, PopChannel, TimeOut, GetState, CheckDuplicate,
              ExecuteGetOpOnKVDB, EraseChannel, Unclaimed
<1>4. ASSUME NEW c \in Clerk, ClerkStep(c)
      PROVE  UNCHANGED storeVars /\ UNCHANGED loopVars /\ UNCHANGED waitApplyCh
  BY <1>4 DEF ClerkStep, Request, Retry, CallFails, Return
<1>5. QED
  BY <1>1, <1>2, <1>3, <1>4 DEF Next

\* A read either leaves m_lastRequestId at least where it is, or its server is lowered,
\* for good.
LEMMA LoweredGrows ==
    ASSUME KvTypeOK, Next
    PROVE  /\ lowered \subseteq lowered' /\ lowered' \in SUBSET Server
           /\ \A h \in DOMAIN handler : ExecuteGetOpOnKVDB(h) /\ handler[h].server \notin lowered' =>
                 m_lastRequestId[handler[h].server][handler[h].op.ClientId] <= handler[h].op.RequestId
<1>0. lowered \in SUBSET Server /\ m_lastRequestId \in [Server -> [ClientId -> Nat]]
  BY DEF KvTypeOK
<1>1. ASSUME NEW h \in DOMAIN handler, ExecuteGetOpOnKVDB(h)
      PROVE  /\ lowered \subseteq lowered' /\ lowered' \in SUBSET Server
             /\ handler[h].server \notin lowered' =>
                   m_lastRequestId[handler[h].server][handler[h].op.ClientId] <= handler[h].op.RequestId
  <2>1. /\ handler[h].op.ClientId \in ClientId /\ handler[h].op.RequestId \in Nat
        /\ handler[h].server \in Server
    BY HandlerFields, OpFields
  <2>2. m_lastRequestId[handler[h].server][handler[h].op.ClientId] \in Nat
    BY <1>0, <2>1
  <2>3. lowered' = IF handler[h].op.RequestId < m_lastRequestId[handler[h].server][handler[h].op.ClientId]
                   THEN lowered \cup {handler[h].server} ELSE lowered
    BY <1>1 DEF ExecuteGetOpOnKVDB
  <2>4. QED
    BY <1>0, <2>1, <2>2, <2>3
<1>2. CASE UNCHANGED lowered
  BY <1>0, <1>1, <1>2
<1>3. ASSUME NEW s \in Server, ExecuteOnKVDB(s) PROVE UNCHANGED lowered
  BY <1>3 DEF ExecuteOnKVDB
<1>4. CASE UNCHANGED storeVars
  BY <1>2, <1>4 DEF storeVars
<1>5. CASE \E h \in DOMAIN handler : ExecuteGetOpOnKVDB(h)
  BY <1>1, <1>5
<1>6. QED
  BY <1>2, <1>3, <1>4, <1>5, StoreOnly

\* The types of the store and of m_lastRequestId.
LEMMA StoreTypes ==
    ASSUME KvTypeOK, Next
    PROVE  /\ m_skipList' \in [Server -> Stored]
           /\ m_lastRequestId' \in [Server -> [ClientId -> Nat]]
           /\ executed' \in [Server -> Seq(Written)]
<1>0. /\ m_skipList \in [Server -> Stored] /\ m_lastRequestId \in [Server -> [ClientId -> Nat]]
      /\ executed \in [Server -> Seq(Written)]
  BY DEF KvTypeOK
<1>1. CASE UNCHANGED storeVars
  BY <1>0, <1>1 DEF storeVars
<1>2. ASSUME NEW s \in Server, ExecuteOnKVDB(s)
      PROVE  /\ m_skipList' \in [Server -> Stored]
             /\ m_lastRequestId' \in [Server -> [ClientId -> Nat]]
             /\ executed' \in [Server -> Seq(Written)]
  <2> DEFINE op == loop[s].op
  <2>1. op \in Op
    BY <1>2, LoopFields DEF ExecuteOnKVDB
  <2>2. op.Value \in Written /\ op.ClientId \in ClientId /\ op.RequestId \in Nat
    BY <2>1, OpFields
  <2>3. /\ m_skipList' = [m_skipList EXCEPT ![s] = op.Value]
        /\ m_lastRequestId' = [m_lastRequestId EXCEPT ![s][op.ClientId] = op.RequestId]
        /\ executed' = [executed EXCEPT ![s] = Append(@, op.Value)]
    BY <1>2 DEF ExecuteOnKVDB
  <2> HIDE DEF op
  <2>4. m_skipList' \in [Server -> Stored]
    BY <1>0, <2>2, <2>3 DEF Stored
  <2>5. m_lastRequestId' \in [Server -> [ClientId -> Nat]]
    BY <1>0, <2>2, <2>3
  <2>6. executed' \in [Server -> Seq(Written)]
    BY <1>0, <2>2, <2>3
  <2>7. QED
    BY <2>4, <2>5, <2>6
<1>3. ASSUME NEW h \in DOMAIN handler, ExecuteGetOpOnKVDB(h)
      PROVE  /\ m_skipList' \in [Server -> Stored]
             /\ m_lastRequestId' \in [Server -> [ClientId -> Nat]]
             /\ executed' \in [Server -> Seq(Written)]
  <2>1. handler[h].op.ClientId \in ClientId /\ handler[h].op.RequestId \in Nat /\ handler[h].server \in Server
    BY HandlerFields, OpFields
  <2>2. /\ UNCHANGED <<m_skipList, executed>>
        /\ m_lastRequestId' = [m_lastRequestId EXCEPT ![handler[h].server][handler[h].op.ClientId] = handler[h].op.RequestId]
    BY <1>3 DEF ExecuteGetOpOnKVDB, RememberedId
  <2>3. QED
    BY <1>0, <2>1, <2>2
<1>4. QED
  BY <1>1, <1>2, <1>3, StoreOnly

\* The types of the apply loops.
LEMMA LoopTypes ==
    ASSUME KvTypeOK, Next
    PROVE  applied' \in [Server -> Nat] /\ loop' \in [Server -> LoopState]
<1>0. applied \in [Server -> Nat] /\ loop \in [Server -> LoopState] /\ committed \in Seq(Op)
  BY DEF KvTypeOK
<1>1. CASE UNCHANGED loopVars
  BY <1>0, <1>1 DEF loopVars
<1>2. ASSUME NEW s \in Server, PopMessage(s)
      PROVE  applied' \in [Server -> Nat] /\ loop' \in [Server -> LoopState]
  <2> DEFINE i == applied[s] + 1
             pc == IF IsWrite(committed[i]) /\ ~ifRequestDuplicate(s, committed[i]) THEN "Execute" ELSE "Send"
             r == [pc |-> pc, op |-> committed[i], index |-> i]
  <2>1. /\ i <= Len(committed) /\ applied' = [applied EXCEPT ![s] = i]
        /\ loop' = [loop EXCEPT ![s] = r]
    BY <1>2 DEF PopMessage
  <2>2. i \in Nat /\ i >= 1
    BY <1>0
  <2>3. committed[i] \in Op
    BY <1>0, <2>1, <2>2
  <2>4. pc \in {"Execute", "Send"}
    OBVIOUS
  <2> HIDE DEF i, pc
  <2>5. r \in LoopState
    BY <2>2, <2>3, <2>4 DEF LoopState
  <2> HIDE DEF r
  <2>6. QED
    BY <1>0, <2>1, <2>2, <2>5
<1>3. ASSUME NEW s \in Server, ExecuteOnKVDB(s)
      PROVE  applied' \in [Server -> Nat] /\ loop' \in [Server -> LoopState]
  <2> DEFINE r == [loop[s] EXCEPT !.pc = "Send"]
  <2>1. UNCHANGED applied /\ loop' = [loop EXCEPT ![s] = r]
    BY <1>3 DEF ExecuteOnKVDB
  <2>2. loop[s] \in [pc: {"Execute", "Send"}, op: Op, index: Nat]
    BY <1>3, LoopFields DEF ExecuteOnKVDB
  <2>3. r \in LoopState
    BY <2>2 DEF LoopState
  <2> HIDE DEF r
  <2>4. QED
    BY <1>0, <2>1, <2>3
<1>4. ASSUME NEW s \in Server, SendMessageToWaitChan(s)
      PROVE  applied' \in [Server -> Nat] /\ loop' \in [Server -> LoopState]
  BY <1>0, <1>4 DEF SendMessageToWaitChan, LoopState
<1>5. QED
  BY <1>1, <1>2, <1>3, <1>4, StoreOnly DEF LoopStep

\* The types of the channels.
LEMMA ChannelTypes ==
    ASSUME KvTypeOK, ChannelsOwned, Next
    PROVE  /\ DOMAIN waitApplyCh' = Server
           /\ \A s \in Server : \A i \in DOMAIN waitApplyCh'[s] : waitApplyCh'[s][i] \in Seq(Op)
<1>0. /\ DOMAIN waitApplyCh = Server
      /\ \A s \in Server : \A i \in DOMAIN waitApplyCh[s] : waitApplyCh[s][i] \in Seq(Op)
      /\ \A h \in DOMAIN handler : handler[h].server \in Server
  BY HandlerFields DEF KvTypeOK
<1>1. CASE UNCHANGED waitApplyCh
  BY <1>0, <1>1
<1>2. ASSUME NEW s \in Server, SendMessageToWaitChan(s)
      PROVE  /\ DOMAIN waitApplyCh' = Server
             /\ \A v \in Server : \A i \in DOMAIN waitApplyCh'[v] : waitApplyCh'[v][i] \in Seq(Op)
  <2>1. loop[s].op \in Op
    BY <1>2, LoopFields DEF SendMessageToWaitChan
  <2>2. ASSUME NEW v \in Server, NEW i \in DOMAIN waitApplyCh'[v] PROVE waitApplyCh'[v][i] \in Seq(Op)
    <3>1. /\ i \in DOMAIN waitApplyCh[v]
          /\ waitApplyCh'[v][i] = waitApplyCh[v][i] \/ waitApplyCh'[v][i] = Append(waitApplyCh[v][i], loop[s].op)
      BY <1>2, SendChannels
    <3>2. waitApplyCh[v][i] \in Seq(Op)
      BY <1>0, <3>1
    <3>3. Append(waitApplyCh[v][i], loop[s].op) \in Seq(Op)
      BY <2>1, <3>2
    <3>4. QED
      BY <3>1, <3>2, <3>3
  <2>3. QED
    BY <1>2, <2>2, SendChannels
<1>3. ASSUME NEW h \in DOMAIN handler, MakeChannel(h)
      PROVE  /\ DOMAIN waitApplyCh' = Server
             /\ \A v \in Server : \A i \in DOMAIN waitApplyCh'[v] : waitApplyCh'[v][i] \in Seq(Op)
  <2>1. <<>> \in Seq(Op)
    OBVIOUS
  <2>2. ASSUME NEW v \in Server, NEW i \in DOMAIN waitApplyCh'[v] PROVE waitApplyCh'[v][i] \in Seq(Op)
    <3>1. CASE v # handler[h].server
      <4>1. waitApplyCh'[v] = waitApplyCh[v]
        BY <1>3, <3>1, MakeChannels
      <4>2. QED
        BY <1>0, <2>2, <4>1
    <3>2. CASE v = handler[h].server
      <4>1. \/ i \in DOMAIN waitApplyCh[v] /\ waitApplyCh'[v][i] = waitApplyCh[v][i]
            \/ waitApplyCh'[v][i] = <<>>
        BY <1>3, <2>2, <3>2, MakeChannels
      <4>2. QED
        BY <1>0, <2>1, <4>1
    <3>3. QED
      BY <3>1, <3>2
  <2>3. QED
    BY <1>3, <2>2, MakeChannels
<1>4. ASSUME NEW h \in DOMAIN handler, PopChannel(h)
      PROVE  /\ DOMAIN waitApplyCh' = Server
             /\ \A v \in Server : \A i \in DOMAIN waitApplyCh'[v] : waitApplyCh'[v][i] \in Seq(Op)
  <2>1. Tail(Channel(h)) \in Seq(Op)
    BY <1>4, PopChannels
  <2>2. ASSUME NEW v \in Server, NEW i \in DOMAIN waitApplyCh'[v] PROVE waitApplyCh'[v][i] \in Seq(Op)
    <3>1. /\ i \in DOMAIN waitApplyCh[v]
          /\ waitApplyCh'[v][i] = waitApplyCh[v][i] \/ waitApplyCh'[v][i] = Tail(Channel(h))
      BY <1>4, <2>2, PopChannels
    <3>2. QED
      BY <1>0, <2>1, <3>1
  <2>3. QED
    BY <1>4, <2>2, PopChannels
<1>5. ASSUME NEW h \in DOMAIN handler, EraseChannel(h)
      PROVE  /\ DOMAIN waitApplyCh' = Server
             /\ \A v \in Server : \A i \in DOMAIN waitApplyCh'[v] : waitApplyCh'[v][i] \in Seq(Op)
  <2>1. ASSUME NEW v \in Server, NEW i \in DOMAIN waitApplyCh'[v] PROVE waitApplyCh'[v][i] \in Seq(Op)
    <3>1. i \in DOMAIN waitApplyCh[v] /\ waitApplyCh'[v][i] = waitApplyCh[v][i]
      BY <1>5, <2>1, EraseChannels
    <3>2. QED
      BY <1>0, <3>1
  <2>2. QED
    BY <1>5, <2>1, EraseChannels
<1>6. QED
  BY <1>1, <1>2, <1>3, <1>4, <1>5, StoreOnly

\* KvBase holds in the initial state.
LEMMA KvBaseInit ==
    ASSUME Init PROVE KvBase
<1>1. 0 \in Server
  BY ServerNumbers
<1>2. KvTypeOK
  <2>1. isLeader \in [Server -> BOOLEAN] /\ raftLog \in [Server -> Seq(Op)] /\ committed \in Seq(Op)
        /\ applied \in [Server -> Nat] /\ executed \in [Server -> Seq(Written)]
        /\ lowered \in SUBSET Server
    BY DEF Init
  <2>2. loop \in [Server -> LoopState] /\ m_skipList \in [Server -> Stored]
        /\ m_lastRequestId \in [Server -> [ClientId -> Nat]]
    BY DEF Init, LoopState, Stored
  <2>3. /\ DOMAIN waitApplyCh = Server
        /\ \A s \in Server : \A i \in DOMAIN waitApplyCh[s] : waitApplyCh[s][i] \in Seq(Op)
    BY DEF Init
  <2>4. DOMAIN handler = {} /\ failures \in Nat
    BY DEF Init
  <2>5. clerk \in [Clerk -> ClerkState]
    BY <1>1 DEF Init, ClerkState, Stored
  <2>6. QED
    BY <2>1, <2>2, <2>3, <2>4, <2>5 DEF KvTypeOK
<1>3. DOMAIN handler = {} /\ \A c \in Clerk : clerk[c].call = 0
  BY DEF Init
<1>4. QED
  BY <1>2, <1>3 DEF KvBase, ClerksWait, ChannelsOwned, ReadSteps

\* Every step preserves KvBase.
LEMMA KvBaseStep ==
    ASSUME KvBase, [Next]_vars PROVE KvBase'
<1>1. CASE UNCHANGED vars
  BY <1>1 DEF vars, raftVars, storeVars, loopVars, clerkVars, KvBase, KvTypeOK, ClerksWait,
              ChannelsOwned, Busy, ReadSteps
<1>2. CASE Next
  <2>1. KvTypeOK /\ ClerksWait /\ ChannelsOwned /\ ReadSteps
    BY DEF KvBase
  <2>2. KvTypeOK'
    <3>1. raftLog' \in [Server -> Seq(Op)]
      BY <1>2, <2>1, LogsGrow
    <3>2. committed' \in Seq(Op) /\ isLeader' \in [Server -> BOOLEAN]
      BY <1>2, <2>1, CommittedGrows
    <3>3. QED
      BY <1>2, <2>1, <3>1, <3>2, HandlerTypes, StoreTypes, LoweredGrows, LoopTypes, ChannelTypes DEF KvTypeOK
  <2>3. QED
    BY <1>2, <2>1, <2>2, ClerksWaitStep, ChannelsOwnedStep, ReadStepsStep DEF KvBase
<1>3. QED
  BY <1>1, <1>2

-----------------------------------------------------------------------------
\* What is committed stays, with what has been said of it.
LEMMA CommittedKept ==
    ASSUME KvTypeOK, Next
    PROVE  /\ Len(committed) \in Nat /\ Len(committed') \in Nat /\ Len(committed) <= Len(committed')
           /\ \A i \in 1..Len(committed) : i \in 1..Len(committed') /\ committed'[i] = committed[i]
           /\ \A i \in 1..Len(committed) : committed[i] \in Op
           /\ \A i \in 1..Len(committed) : Fresh(i)' <=> Fresh(i)
<1>0. committed \in Seq(Op)
  BY DEF KvTypeOK
<1>1. /\ Len(committed) \in Nat /\ Len(committed') \in Nat /\ Len(committed) <= Len(committed')
      /\ \A i \in 1..Len(committed) : committed'[i] = committed[i]
  <2>1. CASE UNCHANGED committed
    BY <1>0, <2>1
  <2>2. ASSUME NEW a \in Op, committed' = Append(committed, a)
        PROVE  /\ Len(committed) \in Nat /\ Len(committed') \in Nat /\ Len(committed) <= Len(committed')
               /\ \A i \in 1..Len(committed) : committed'[i] = committed[i]
    BY <1>0, <2>2
  <2>3. QED
    BY <2>1, <2>2, CommittedGrows
<1>2. \A i \in 1..Len(committed) : committed[i] \in Op
  BY <1>0
<1>3. ASSUME NEW i \in 1..Len(committed) PROVE Fresh(i)' <=> Fresh(i)
  <2>1. \A j \in 1..(i - 1) : j \in 1..Len(committed)
    BY <1>1
  <2>2. committed'[i] = committed[i] /\ \A j \in 1..(i - 1) : committed'[j] = committed[j]
    BY <1>1, <2>1
  <2>3. QED
    BY <2>2 DEF Fresh
<1>4. QED
  BY <1>1, <1>2, <1>3

\* A committed request stays committed.
LEMMA CommittedStays ==
    ASSUME KvTypeOK, Next, NEW a, Committed(a)
    PROVE  Committed(a)'
BY CommittedKept DEF Committed

\* Only a clerk that begins a request brings a new one.
LEMMA UsedStep ==
    ASSUME KvTypeOK, ClerksWait, Next, NEW a \in Used'
    PROVE  a \in Used \/ \E c \in Clerk : \E n : Requested(c, n, a)
<1>0. a \in Op
  BY DEF Used
<1>1. ASSUME NEW s \in Server, NEW i \in 1..Len(raftLog'[s]), a = raftLog'[s][i] PROVE a \in Used
  <2>1. \/ i \in 1..Len(raftLog[s]) /\ a = raftLog[s][i]
        \/ i \in 1..Len(committed) /\ a = committed[i]
        \/ \E h \in DOMAIN handler : a = handler[h].op
    BY <1>1, LogsGrow
  <2>2. InUse(a)
    BY <2>1 DEF InUse
  <2>3. QED
    BY <1>0, <2>2 DEF Used
<1>2. ASSUME NEW i \in 1..Len(committed'), a = committed'[i] PROVE a \in Used
  <2>1. CASE UNCHANGED committed
    BY <1>0, <1>2, <2>1 DEF Used, InUse
  <2>2. ASSUME NEW s \in Server, Len(committed) + 1 \in 1..Len(raftLog[s]),
               committed' = Append(committed, raftLog[s][Len(committed) + 1])
        PROVE  a \in Used
    <3>1. committed \in Seq(Op)
      BY DEF KvTypeOK
    <3>2. \/ i \in 1..Len(committed) /\ a = committed[i]
          \/ a = raftLog[s][Len(committed) + 1]
      BY <1>2, <2>2, <3>1
    <3>3. QED
      BY <1>0, <2>2, <3>2 DEF Used, InUse
  <2>3. QED
    BY <2>1, <2>2, CommittedGrows
<1>3. ASSUME NEW h \in DOMAIN handler', a = handler'[h].op
      PROVE  a \in Used \/ \E c \in Clerk : \E n : Requested(c, n, a)
  <2>1. ASSUME NEW g \in DOMAIN handler, a = handler[g].op PROVE a \in Used
    <3>1. InUse(a)
      BY <2>1 DEF InUse
    <3>2. QED
      BY <1>0, <3>1 DEF Used
  <2>2. ASSUME NEW s \in Server, ConsensusStep(s) \/ LoopStep(s) PROVE a \in Used
    <3>1. UNCHANGED handler
      BY <2>2, QuietMoves
    <3>2. QED
      BY <1>3, <2>1, <3>1
  <2>3. ASSUME NEW g \in DOMAIN handler, HandlerStep(g) PROVE a \in Used
    <3>1. CASE \E pc, err, index : Moved(g, pc, err, index)
      BY <1>3, <2>1, <3>1 DEF Moved
    <3>2. CASE Unclaimed(g)
      BY <1>3, <2>1, <3>2 DEF Unclaimed
    <3>3. QED
      BY <2>3, <3>1, <3>2, HandlerMoves
  <2>4. ASSUME NEW c \in Clerk, ClerkStep(c)
        PROVE  a \in Used \/ \E n : Requested(c, n, a)
    <3>1. ASSUME NEW n, NEW op, Requested(c, n, op) PROVE a \in Used \/ \E m : Requested(c, m, a)
      <4>1. (h \in DOMAIN handler /\ handler'[h] = handler[h]) \/ (h = n /\ a = op)
        BY <1>3, <3>1 DEF Requested
      <4>2. QED
        BY <1>3, <2>1, <3>1, <4>1
    <3>2. ASSUME NEW n, NEW others \in SUBSET DOMAIN handler, Retried(c, n, others) PROVE a \in Used
      <4>1. clerk[c].call \in DOMAIN handler /\ handler[clerk[c].call].op = clerk[c].op
        BY <3>2 DEF Retried, ClerksWait
      <4>2. (h \in DOMAIN handler /\ handler'[h] = handler[h]) \/ a = clerk[c].op
        BY <1>3, <3>2 DEF Retried
      <4>3. QED
        BY <1>3, <2>1, <4>1, <4>2
    <3>3. ASSUME Returned(c, clerk[c].call) PROVE a \in Used
      BY <1>3, <2>1, <3>3 DEF Returned
    <3>4. DOMAIN handler \in SUBSET DOMAIN handler /\ DOMAIN handler \ {clerk[c].call} \in SUBSET DOMAIN handler
      OBVIOUS
    <3>5. QED
      BY <2>4, <3>1, <3>2, <3>3, <3>4, ClerkMoves
  <2>5. QED
    BY <2>2, <2>3, <2>4 DEF Next
<1>4. QED
  BY <1>1, <1>2, <1>3 DEF Used, InUse

\* What is committed or in a handler is in use.
LEMMA UsedThere ==
    ASSUME KvTypeOK
    PROVE  /\ \A i \in 1..Len(committed) : committed[i] \in Used
           /\ \A h \in DOMAIN handler : handler[h].op \in Used
           /\ \A a \in Used : /\ a \in Op /\ Owner(a) \in Clerk /\ a.RequestId \in Nat /\ a.RequestId >= 1
                              /\ a.ClientId \in ClientId
           /\ \A c \in Clerk : clerk[c].m_requestId \in Nat
<1>1. committed \in Seq(Op) /\ clerk \in [Clerk -> ClerkState]
  BY DEF KvTypeOK
<1>2. \A i \in 1..Len(committed) : committed[i] \in Op
  BY <1>1
<1>3. \A h \in DOMAIN handler : handler[h].op \in Op
  BY HandlerFields
<1>4. \A c \in Clerk : clerk[c].m_requestId \in Nat
  BY <1>1 DEF ClerkState
<1>5. /\ \A i \in 1..Len(committed) : InUse(committed[i])
      /\ \A h \in DOMAIN handler : InUse(handler[h].op)
  BY DEF InUse
<1>6. \A a \in Used : a \in Op
  BY DEF Used
<1>7. \A a \in Used : /\ a \in Op /\ Owner(a) \in Clerk /\ a.RequestId \in Nat /\ a.RequestId >= 1
                      /\ a.ClientId \in ClientId
  BY <1>6, OpFields
<1>8. QED
  BY <1>2, <1>3, <1>4, <1>5, <1>7 DEF Used

\* The number of a clerk's request only grows.
LEMMA ClerkCounts ==
    ASSUME KvTypeOK, ClerksWait, Next, NEW c \in Clerk
    PROVE  \/ \E n, op : Requested(c, n, op)
           \/ /\ clerk'[c].m_requestId = clerk[c].m_requestId
              /\ clerk'[c].call # 0 \/ clerk[c].call = 0 \/ Returned(c, clerk[c].call)
<1>1. ASSUME NEW s \in Server, ConsensusStep(s) \/ LoopStep(s) PROVE UNCHANGED clerk
  BY <1>1, QuietMoves
<1>2. ASSUME NEW h \in DOMAIN handler, HandlerStep(h) PROVE UNCHANGED clerk
  BY <1>2, HandlerMoves
<1>3. ASSUME NEW d \in Clerk, ClerkStep(d), d # c PROVE clerk'[c] = clerk[c]
  BY <1>3, ClerkHandlers
<1>4. ASSUME ClerkStep(c)
      PROVE  \/ \E n, op : Requested(c, n, op)
             \/ /\ clerk'[c].m_requestId = clerk[c].m_requestId
                /\ clerk'[c].call # 0 \/ clerk[c].call = 0 \/ Returned(c, clerk[c].call)
  <2>1. CASE \E n, op : Requested(c, n, op)
    BY <2>1
  <2>2. ASSUME NEW n, NEW others, Retried(c, n, others)
        PROVE  clerk'[c].m_requestId = clerk[c].m_requestId /\ clerk'[c].call # 0
    BY <2>2 DEF Retried
  <2>3. CASE Returned(c, clerk[c].call)
    BY <2>3 DEF Returned
  <2>4. QED
    BY <1>4, <2>1, <2>2, <2>3, ClerkMoves
<1>5. QED
  BY <1>1, <1>2, <1>3, <1>4 DEF Next

-----------------------------------------------------------------------------
\* A request that begins has not been issued before.
LEMMA NewRequest ==
    ASSUME Separate, KvTypeOK, Issued, NEW c \in Clerk, NEW n, NEW a, Requested(c, n, a), NEW b \in Used
    PROVE  ~SameRequest(a, b)
<1>1. /\ a \in Op /\ Owner(a) = c /\ a.RequestId = clerk[c].m_requestId + 1
  BY DEF Requested
<1>2. b \in Op /\ clerk[c].m_requestId \in Nat /\ b.RequestId \in Nat
  BY UsedThere
<1>3. SUFFICES ASSUME SameRequest(a, b) PROVE FALSE
  OBVIOUS
<1>4. Owner(b) = c /\ b.RequestId = a.RequestId
  BY <1>1, <1>2, <1>3, SameValue DEF SameRequest
<1>5. b.RequestId <= clerk[c].m_requestId
  BY <1>4 DEF Issued
<1>6. QED
  BY <1>1, <1>2, <1>4, <1>5

\* A step begins one request.
LEMMA OneRequest ==
    ASSUME NEW c \in Clerk, NEW n, NEW a, Requested(c, n, a), NEW d \in Clerk, NEW m, NEW b, Requested(d, m, b)
    PROVE  a = b
<1>1. n = m
  BY DEF Requested
<1>2. QED
  BY <1>1 DEF Requested

\* SameRequest does not depend on the order.
LEMMA SameRequestSymmetric ==
    ASSUME NEW a, NEW b, SameRequest(a, b)
    PROVE  SameRequest(b, a)
BY DEF SameRequest

\* Every step preserves Issued: a new request has a number its clerk has not used.
LEMMA IssuedStep ==
    ASSUME Separate, KvTypeOK, ClerksWait, Issued, Next
    PROVE  Issued'
<1>1. ASSUME NEW a \in Used' PROVE a.RequestId <= clerk'[Owner(a)].m_requestId
  <2>1. CASE a \in Used
    <3>1. /\ Owner(a) \in Clerk /\ a.RequestId \in Nat /\ clerk[Owner(a)].m_requestId \in Nat
          /\ a.RequestId <= clerk[Owner(a)].m_requestId
      BY <2>1, UsedThere DEF Issued
    <3>2. CASE clerk'[Owner(a)].m_requestId = clerk[Owner(a)].m_requestId
      BY <3>1, <3>2
    <3>3. ASSUME NEW n, NEW op, Requested(Owner(a), n, op) PROVE a.RequestId <= clerk'[Owner(a)].m_requestId
      <4>1. clerk'[Owner(a)].m_requestId = clerk[Owner(a)].m_requestId + 1
        BY <3>3 DEF Requested
      <4>2. QED
        BY <3>1, <4>1
    <3>4. QED
      BY <3>1, <3>2, <3>3, ClerkCounts
  <2>2. ASSUME NEW c \in Clerk, NEW n, Requested(c, n, a) PROVE a.RequestId <= clerk'[Owner(a)].m_requestId
    <3>1. clerk'[Owner(a)].m_requestId = a.RequestId /\ a \in Op
      BY <2>2 DEF Requested
    <3>2. QED
      BY <3>1, OpFields
  <2>3. QED
    BY <2>1, <2>2, UsedStep
<1>2. ASSUME NEW a \in Used', NEW b \in Used', SameRequest(a, b) PROVE IsWrite(a) <=> IsWrite(b)
  <2>1. CASE a \in Used /\ b \in Used
    BY <1>2, <2>1 DEF Issued
  <2>2. CASE a \in Used /\ b \notin Used
    BY <1>2, <2>2, UsedStep, NewRequest, SameRequestSymmetric
  <2>3. CASE a \notin Used /\ b \in Used
    BY <1>2, <2>3, UsedStep, NewRequest
  <2>4. CASE a \notin Used /\ b \notin Used
    BY <2>4, UsedStep, OneRequest
  <2>5. QED
    BY <2>1, <2>2, <2>3, <2>4
<1>3. QED
  BY <1>1, <1>2 DEF Issued

\* A request stays committed when it is the same as one that is.
LEMMA SameCommitted ==
    ASSUME NEW a, NEW b, SameRequest(a, b), Committed(a)
    PROVE  Committed(b)
BY DEF Committed, SameRequest

\* Every step preserves PriorCommitted: a clerk returns only when its request is answered positively.
LEMMA PriorCommittedStep ==
    ASSUME Separate, KvTypeOK, ClerksWait, Issued, PriorCommitted, AnsweredCommitted, Next
    PROVE  PriorCommitted'
<1>1. SUFFICES ASSUME NEW a \in Used',
                      a.RequestId < clerk'[Owner(a)].m_requestId \/ clerk'[Owner(a)].call = 0
               PROVE  Committed(a)'
  BY DEF PriorCommitted
<1> DEFINE c == Owner(a)
<1>2. ASSUME NEW n, NEW d \in Clerk, Requested(d, n, a) PROVE FALSE
  <2>1. /\ clerk'[c].m_requestId = a.RequestId /\ clerk'[c].call # 0 /\ a \in Op
    BY <1>2 DEF Requested
  <2>2. QED
    BY <1>1, <2>1, OpFields
<1>3. a \in Used
  BY <1>2, UsedStep
<1>4. c \in Clerk /\ a.RequestId \in Nat /\ clerk[c].m_requestId \in Nat /\ a \in Op
      /\ a.RequestId <= clerk[c].m_requestId
  BY <1>3, UsedThere DEF Issued
<1>5. SUFFICES Committed(a)
  BY CommittedStays
<1> HIDE DEF c
<1>6. ASSUME a.RequestId < clerk[c].m_requestId \/ clerk[c].call = 0 PROVE Committed(a)
  BY <1>1, <1>3, <1>6 DEF PriorCommitted, c
<1>7. ASSUME NEW n, NEW op, Requested(c, n, op) PROVE Committed(a)
  BY <1>6, <1>7 DEF Requested
<1>8. ASSUME Returned(c, clerk[c].call), clerk[c].call # 0, ~(a.RequestId < clerk[c].m_requestId) PROVE Committed(a)
  <2> DEFINE h == clerk[c].call
             o == handler[h].op
  <2>1. /\ h \in DOMAIN handler /\ o \in Op /\ Owner(o) = c /\ o.RequestId = clerk[c].m_requestId
        /\ handler[h].err \in {"OK", "ErrNoKey"}
    BY <1>4, <1>8 DEF Returned, ClerksWait
  <2>2. o \in Used
    BY <2>1, UsedThere
  <2>3. a.RequestId = o.RequestId
    BY <1>4, <1>8, <2>1
  <2>4. SameRequest(a, o)
    BY <1>4, <2>1, <2>3, OpFields DEF SameRequest, c
  <2>5. Committed(o)
    BY <2>1 DEF AnsweredCommitted
  <2>6. QED
    BY <2>4, <2>5, SameCommitted, SameRequestSymmetric
<1>9. QED
  BY <1>1, <1>4, <1>6, <1>7, <1>8, ClerkCounts DEF c

-----------------------------------------------------------------------------
\* PopMessage takes the next committed message, and executes a write that is no duplicate.
LEMMA PopMoves ==
    ASSUME KvTypeOK, NEW s \in Server, PopMessage(s), NEW i, i = applied[s] + 1
    PROVE  /\ i \in 1..Len(committed) /\ committed[i] \in Op
           /\ loop[s] = Idle /\ Done(s) = i - 1
           /\ applied'[s] = i /\ loop'[s].index = i /\ loop'[s].op = committed[i] /\ loop'[s] # Idle
           /\ \/ IsWrite(committed[i]) /\ ~ifRequestDuplicate(s, committed[i])
                 /\ loop'[s].pc = "Execute" /\ Done(s)' = i - 1
              \/ ~(IsWrite(committed[i]) /\ ~ifRequestDuplicate(s, committed[i]))
                 /\ loop'[s].pc = "Send" /\ Done(s)' = i
           /\ \A v \in Server : v # s => applied'[v] = applied[v] /\ loop'[v] = loop[v]
           /\ UNCHANGED <<raftVars, storeVars, waitApplyCh, handler, clerkVars>>
<1>0. applied \in [Server -> Nat] /\ loop \in [Server -> LoopState] /\ committed \in Seq(Op)
  BY DEF KvTypeOK
<1> DEFINE new == IsWrite(committed[i]) /\ ~ifRequestDuplicate(s, committed[i])
           r == [pc |-> IF new THEN "Execute" ELSE "Send", op |-> committed[i], index |-> i]
<1>1. /\ loop[s] = Idle /\ i <= Len(committed)
      /\ applied' = [applied EXCEPT ![s] = i] /\ loop' = [loop EXCEPT ![s] = r]
      /\ UNCHANGED <<raftVars, storeVars, waitApplyCh, handler, clerkVars>>
  BY DEF PopMessage
<1> HIDE DEF new
<1>2. /\ r.index = i /\ r.op = committed[i] /\ r.pc # "Pop"
      /\ new => r.pc = "Execute"
      /\ ~new => r.pc = "Send"
  OBVIOUS
<1> HIDE DEF r
<1>3. /\ applied'[s] = i /\ loop'[s] = r
      /\ \A v \in Server : v # s => applied'[v] = applied[v] /\ loop'[v] = loop[v]
  BY <1>0, <1>1
<1>4. applied[s] \in Nat /\ i \in Nat /\ i >= 1 /\ i - 1 = applied[s]
  BY <1>0
<1>5. i \in 1..Len(committed)
  BY <1>0, <1>1, <1>4
<1>6. committed[i] \in Op
  BY <1>0, <1>5
<1>7. Done(s) = i - 1
  BY <1>1, <1>4 DEF Done, Idle
<1>8. loop'[s] # Idle
  BY <1>2, <1>3 DEF Idle
<1>9. CASE new
  <2>1. loop'[s].pc = "Execute"
    BY <1>2, <1>3, <1>9
  <2>2. Done(s)' = i - 1
    BY <1>3, <2>1 DEF Done
  <2>3. QED
    BY <1>1, <1>2, <1>3, <1>5, <1>6, <1>7, <1>8, <1>9, <2>1, <2>2 DEF new
<1>10. CASE ~new
  <2>1. loop'[s].pc = "Send"
    BY <1>2, <1>3, <1>10
  <2>2. Done(s)' = i
    BY <1>3, <2>1 DEF Done
  <2>3. QED
    BY <1>1, <1>2, <1>3, <1>5, <1>6, <1>7, <1>8, <1>10, <2>1, <2>2 DEF new
<1>11. QED
  BY <1>9, <1>10

\* ExecuteOnKVDB stores the value of the message taken last, and remembers its id.
LEMMA ExecuteMoves ==
    ASSUME KvTypeOK, TakenCommitted, NEW s \in Server, ExecuteOnKVDB(s), NEW i, i = applied[s]
    PROVE  /\ i \in 1..Len(committed) /\ committed[i] \in Op /\ loop[s].pc = "Execute"
           /\ Done(s) = i - 1 /\ Done(s)' = i
           /\ UNCHANGED <<applied, committed, waitApplyCh, handler, clerkVars>>
           /\ loop'[s].pc = "Send" /\ loop'[s].op = committed[i] /\ loop'[s].index = i /\ loop'[s] # Idle
           /\ \A v \in Server : v # s => loop'[v] = loop[v]
           /\ m_skipList' = [m_skipList EXCEPT ![s] = committed[i].Value]
           /\ m_lastRequestId' =
                 [m_lastRequestId EXCEPT ![s] = [@ EXCEPT ![committed[i].ClientId] = committed[i].RequestId]]
           /\ executed' = [executed EXCEPT ![s] = Append(@, committed[i].Value)]
<1>0. applied \in [Server -> Nat] /\ loop \in [Server -> LoopState] /\ committed \in Seq(Op)
  BY DEF KvTypeOK
<1> DEFINE r == [loop[s] EXCEPT !.pc = "Send"]
<1>1. /\ loop[s].pc = "Execute" /\ loop' = [loop EXCEPT ![s] = r]
      /\ UNCHANGED <<applied, committed, waitApplyCh, handler, clerkVars>>
      /\ m_skipList' = [m_skipList EXCEPT ![s] = loop[s].op.Value]
      /\ m_lastRequestId' = [m_lastRequestId EXCEPT ![s][loop[s].op.ClientId] = loop[s].op.RequestId]
      /\ executed' = [executed EXCEPT ![s] = Append(@, loop[s].op.Value)]
  BY DEF ExecuteOnKVDB, raftVars
<1>2. loop[s] # Idle /\ loop[s] \in [pc: {"Execute", "Send"}, op: Op, index: Nat]
  BY <1>1, LoopFields
<1>3. i >= 1 /\ i <= Len(committed) /\ loop[s].index = i /\ loop[s].op = committed[i]
  BY <1>2 DEF TakenCommitted
<1>4. i \in 1..Len(committed) /\ i \in Nat
  BY <1>0, <1>3
<1>5. committed[i] \in Op
  BY <1>0, <1>4
<1>6. r.pc = "Send" /\ r.op = loop[s].op /\ r.index = loop[s].index
  BY <1>2
<1> HIDE DEF r
<1>7. loop'[s] = r /\ \A v \in Server : v # s => loop'[v] = loop[v]
  BY <1>0, <1>1
<1>8. loop'[s] # Idle
  BY <1>6, <1>7 DEF Idle
<1>9. Done(s) = i - 1 /\ Done(s)' = i
  BY <1>1, <1>6, <1>7 DEF Done
<1>10. QED
  BY <1>1, <1>3, <1>4, <1>5, <1>6, <1>7, <1>8, <1>9

\* SendMessageToWaitChan ends the work on a message.
LEMMA SendMoves ==
    ASSUME KvTypeOK, TakenCommitted, NEW s \in Server, SendMessageToWaitChan(s)
    PROVE  /\ applied[s] \in 1..Len(committed) /\ Done(s) = applied[s] /\ Done(s)' = applied[s]
           /\ loop[s].index = applied[s] /\ loop[s].op = committed[applied[s]]
           /\ UNCHANGED <<raftVars, storeVars, applied, handler, clerkVars>>
           /\ loop'[s] = Idle /\ \A v \in Server : v # s => loop'[v] = loop[v]
<1>0. applied \in [Server -> Nat] /\ loop \in [Server -> LoopState] /\ committed \in Seq(Op)
  BY DEF KvTypeOK
<1>1. /\ loop[s].pc = "Send" /\ loop' = [loop EXCEPT ![s] = Idle]
      /\ UNCHANGED <<raftVars, storeVars, applied, handler, clerkVars>>
  BY DEF SendMessageToWaitChan
<1>2. loop[s] # Idle
  BY <1>1, LoopFields
<1>3. applied[s] >= 1 /\ applied[s] <= Len(committed) /\ loop[s].index = applied[s]
      /\ loop[s].op = committed[applied[s]]
  BY <1>2 DEF TakenCommitted
<1>4. applied[s] \in 1..Len(committed)
  BY <1>0, <1>3
<1>5. loop'[s] = Idle /\ \A v \in Server : v # s => loop'[v] = loop[v]
  BY <1>0, <1>1
<1>6. Done(s) = applied[s] /\ Done(s)' = applied[s]
  BY <1>1, <1>5 DEF Done, Idle
<1>7. QED
  BY <1>1, <1>3, <1>4, <1>5, <1>6

\* How far a server is: not beyond what is committed, and never back.
LEMMA DoneStep ==
    ASSUME KvTypeOK, TakenCommitted, Next, NEW s \in Server
    PROVE  /\ Done(s) \in Nat /\ Done(s) <= Len(committed) /\ Len(committed) \in Nat
           /\ Done(s)' \in Nat /\ Done(s) <= Done(s)'
           /\ \/ Done(s)' = Done(s) /\ (UNCHANGED <<applied, loop>> \/ \E v \in Server : v # s /\ LoopStep(v))
              \/ PopMessage(s) \/ ExecuteOnKVDB(s) \/ (SendMessageToWaitChan(s) /\ Done(s)' = Done(s))
<1>0. applied \in [Server -> Nat] /\ committed \in Seq(Op)
  BY DEF KvTypeOK
<1>1. applied[s] \in Nat /\ Len(committed) \in Nat /\ applied[s] <= Len(committed)
  BY <1>0 DEF TakenCommitted
<1>2. Done(s) \in Nat /\ Done(s) <= Len(committed)
  <2>1. CASE loop[s].pc = "Execute"
    <3>1. loop[s] # Idle
      BY <2>1, LoopFields
    <3>2. applied[s] >= 1
      BY <3>1 DEF TakenCommitted
    <3>3. Done(s) = applied[s] - 1
      BY <2>1 DEF Done
    <3>4. QED
      BY <1>1, <3>2, <3>3
  <2>2. CASE loop[s].pc # "Execute"
    BY <1>1, <2>2 DEF Done
  <2>3. QED
    BY <2>1, <2>2
<1>3. CASE UNCHANGED <<applied, loop>>
  <2>1. Done(s)' = Done(s)
    BY <1>3 DEF Done
  <2>2. QED
    BY <1>1, <1>2, <1>3, <2>1
<1>4. ASSUME NEW v \in Server, LoopStep(v), v # s PROVE Done(s)' = Done(s)
  <2>1. applied'[s] = applied[s] /\ loop'[s] = loop[s]
    <3>1. CASE PopMessage(v)
      BY <1>4, <3>1, PopMoves
    <3>2. CASE ExecuteOnKVDB(v)
      <4>1. UNCHANGED applied /\ \A w \in Server : w # v => loop'[w] = loop[w]
        BY <3>2, ExecuteMoves
      <4>2. QED
        BY <1>4, <4>1
    <3>3. CASE SendMessageToWaitChan(v)
      BY <1>4, <3>3, SendMoves
    <3>4. QED
      BY <1>4, <3>1, <3>2, <3>3 DEF LoopStep
  <2>2. QED
    BY <2>1 DEF Done
<1>5. CASE PopMessage(s)
  <2>1. applied[s] + 1 \in Nat
    BY <1>1
  <2>2. Done(s) = (applied[s] + 1) - 1 /\ Done(s)' \in {applied[s] + 1, (applied[s] + 1) - 1}
    BY <1>5, PopMoves
  <2>3. QED
    BY <1>1, <1>2, <1>5, <2>1, <2>2
<1>6. CASE ExecuteOnKVDB(s)
  <2>1. Done(s) = applied[s] - 1 /\ Done(s)' = applied[s]
    BY <1>6, ExecuteMoves
  <2>2. QED
    BY <1>1, <1>2, <1>6, <2>1
<1>7. CASE SendMessageToWaitChan(s)
  <2>1. Done(s) = applied[s] /\ Done(s)' = applied[s]
    BY <1>7, SendMoves
  <2>2. QED
    BY <1>1, <1>2, <1>7, <2>1
<1>8. CASE \E v \in Server : v # s /\ LoopStep(v)
  BY <1>1, <1>2, <1>4, <1>8
<1>9. QED
  BY <1>3, <1>5, <1>6, <1>7, <1>8, StoreOnly DEF LoopStep, loopVars

-----------------------------------------------------------------------------
\* Every step preserves TakenCommitted: a message is sent only after it has been done with.
LEMMA TakenCommittedStep ==
    ASSUME KvTypeOK, ChannelsOwned, TakenCommitted, Next
    PROVE  TakenCommitted'
<1>0. /\ Len(committed) \in Nat /\ Len(committed') \in Nat /\ Len(committed) <= Len(committed')
      /\ \A i \in 1..Len(committed) : committed'[i] = committed[i]
  BY CommittedKept
<1>1. /\ applied \in [Server -> Nat] /\ loop \in [Server -> LoopState]
      /\ \A h \in DOMAIN handler : handler[h].server \in Server
  BY HandlerFields DEF KvTypeOK
<1>2. ASSUME NEW s \in Server
      PROVE  /\ applied'[s] \in Nat /\ applied'[s] <= Len(committed')
             /\ loop'[s] # Idle => /\ applied'[s] >= 1 /\ loop'[s].index = applied'[s]
                                   /\ loop'[s].op = committed'[applied'[s]]
  <2>1. ASSUME applied'[s] = applied[s], loop'[s] = loop[s]
        PROVE  /\ applied'[s] \in Nat /\ applied'[s] <= Len(committed')
               /\ loop'[s] # Idle => /\ applied'[s] >= 1 /\ loop'[s].index = applied'[s]
                                     /\ loop'[s].op = committed'[applied'[s]]
    <3>1. applied[s] \in Nat /\ applied[s] <= Len(committed)
      BY <1>1 DEF TakenCommitted
    <3>2. loop[s] # Idle => applied[s] >= 1 /\ loop[s].index = applied[s] /\ loop[s].op = committed[applied[s]]
      BY DEF TakenCommitted
    <3>3. applied[s] >= 1 => committed'[applied[s]] = committed[applied[s]]
      BY <1>0, <3>1
    <3>4. QED
      BY <1>0, <2>1, <3>1, <3>2, <3>3
  <2>2. CASE UNCHANGED <<applied, loop>>
    BY <2>1, <2>2
  <2>3. ASSUME NEW v \in Server, PopMessage(v)
        PROVE  /\ applied'[s] \in Nat /\ applied'[s] <= Len(committed')
               /\ loop'[s] # Idle => /\ applied'[s] >= 1 /\ loop'[s].index = applied'[s]
                                     /\ loop'[s].op = committed'[applied'[s]]
    <3> DEFINE i == applied[v] + 1
    <3>1. /\ i \in 1..Len(committed) /\ applied'[v] = i /\ loop'[v].index = i /\ loop'[v].op = committed[i]
          /\ v # s => applied'[s] = applied[s] /\ loop'[s] = loop[s]
      BY <2>3, PopMoves
    <3> HIDE DEF i
    <3>2. i \in Nat /\ i <= Len(committed') /\ i >= 1 /\ committed'[i] = committed[i]
      BY <1>0, <3>1
    <3>3. QED
      BY <2>1, <3>1, <3>2
  <2>4. ASSUME NEW v \in Server, ExecuteOnKVDB(v)
        PROVE  /\ applied'[s] \in Nat /\ applied'[s] <= Len(committed')
               /\ loop'[s] # Idle => /\ applied'[s] >= 1 /\ loop'[s].index = applied'[s]
                                     /\ loop'[s].op = committed'[applied'[s]]
    <3> DEFINE i == applied[v]
    <3>1. /\ i \in 1..Len(committed) /\ UNCHANGED applied /\ loop'[v].index = i /\ loop'[v].op = committed[i]
          /\ v # s => loop'[s] = loop[s]
      BY <2>4, ExecuteMoves
    <3>2. i \in Nat /\ i <= Len(committed') /\ i >= 1 /\ committed'[i] = committed[i]
      BY <1>0, <3>1
    <3>3. CASE v = s
      BY <3>1, <3>2, <3>3
    <3>4. CASE v # s
      BY <2>1, <3>1, <3>4
    <3>5. QED
      BY <3>3, <3>4
  <2>5. ASSUME NEW v \in Server, SendMessageToWaitChan(v)
        PROVE  /\ applied'[s] \in Nat /\ applied'[s] <= Len(committed')
               /\ loop'[s] # Idle => /\ applied'[s] >= 1 /\ loop'[s].index = applied'[s]
                                     /\ loop'[s].op = committed'[applied'[s]]
    <3>1. UNCHANGED applied /\ loop'[v] = Idle /\ (v # s => loop'[s] = loop[s])
      BY <2>5, SendMoves
    <3>2. applied[s] \in Nat /\ applied[s] <= Len(committed')
      BY <1>0, <1>1 DEF TakenCommitted
    <3>3. QED
      BY <2>1, <3>1, <3>2
  <2>6. QED
    BY <2>2, <2>3, <2>4, <2>5, StoreOnly DEF LoopStep, loopVars
<1>3. ASSUME NEW s \in Server, NEW i \in DOMAIN waitApplyCh[s], waitApplyCh[s][i] # <<>>
      PROVE  /\ i \in 1..Done(s)' /\ i \in 1..Len(committed) /\ committed'[i] = committed[i]
             /\ \A j \in 1..Len(waitApplyCh[s][i]) : waitApplyCh[s][i][j] = committed'[i]
  <2>1. /\ i \in 1..Done(s)
        /\ \A j \in 1..Len(waitApplyCh[s][i]) : waitApplyCh[s][i][j] = committed[i]
    BY <1>3 DEF TakenCommitted
  <2>2. /\ Done(s) \in Nat /\ Done(s) <= Len(committed) /\ Done(s)' \in Nat /\ Done(s) <= Done(s)'
    BY DoneStep
  <2>3. i \in 1..Done(s)' /\ i \in 1..Len(committed)
    BY <1>0, <2>1, <2>2
  <2>4. QED
    BY <1>0, <2>1, <2>3
<1>4. ASSUME NEW s \in Server, NEW i \in DOMAIN waitApplyCh'[s], waitApplyCh'[s][i] # <<>>
      PROVE  /\ i \in 1..Done(s)'
             /\ \A j \in 1..Len(waitApplyCh'[s][i]) : waitApplyCh'[s][i][j] = committed'[i]
  <2>1. ASSUME i \in DOMAIN waitApplyCh[s], waitApplyCh'[s][i] = waitApplyCh[s][i]
        PROVE  /\ i \in 1..Done(s)'
               /\ \A j \in 1..Len(waitApplyCh'[s][i]) : waitApplyCh'[s][i][j] = committed'[i]
    BY <1>3, <1>4, <2>1
  <2>2. CASE UNCHANGED waitApplyCh
    BY <1>4, <2>1, <2>2
  <2>3. ASSUME NEW v \in Server, SendMessageToWaitChan(v)
        PROVE  /\ i \in 1..Done(s)'
               /\ \A j \in 1..Len(waitApplyCh'[s][i]) : waitApplyCh'[s][i][j] = committed'[i]
    <3>1. i \in DOMAIN waitApplyCh[s]
      BY <1>4, <2>3, SendChannels
    <3>2. ASSUME v = s, i = loop[s].index, waitApplyCh'[s][i] = Append(waitApplyCh[s][i], loop[s].op)
          PROVE  /\ i \in 1..Done(s)'
                 /\ \A j \in 1..Len(waitApplyCh'[s][i]) : waitApplyCh'[s][i][j] = committed'[i]
      <4>1. applied[s] \in 1..Len(committed) /\ Done(s)' = applied[s] /\ i = applied[s] /\ loop[s].op = committed[i]
            /\ UNCHANGED committed
        BY <2>3, <3>2, SendMoves DEF raftVars
      <4>2. i \in 1..Done(s)'
        BY <1>0, <4>1
      <4>3. waitApplyCh[s][i] \in Seq(Op) /\ loop[s].op \in Op
        BY <2>3, <3>1, <3>2, LoopFields DEF KvTypeOK, SendMessageToWaitChan
      <4>4. \A j \in 1..Len(waitApplyCh[s][i]) : waitApplyCh[s][i][j] = committed[i]
        BY <3>1, <4>3 DEF TakenCommitted
      <4>5. ASSUME NEW q, q = waitApplyCh[s][i], NEW j \in 1..Len(Append(q, loop[s].op))
            PROVE  Append(q, loop[s].op)[j] = committed[i]
        <5>1. q \in Seq(Op) /\ (j \in 1..Len(q) \/ j = Len(q) + 1)
          BY <4>3, <4>5
        <5>2. CASE j \in 1..Len(q)
          BY <4>3, <4>4, <4>5, <5>1, <5>2
        <5>3. CASE j = Len(q) + 1
          BY <4>1, <4>3, <5>1, <5>3
        <5>4. QED
          BY <5>1, <5>2, <5>3
      <4>6. QED
        BY <3>2, <4>1, <4>2, <4>5
    <3>3. QED
      BY <2>1, <2>3, <3>1, <3>2, SendChannels
  <2>4. ASSUME NEW h \in DOMAIN handler, MakeChannel(h)
        PROVE  i \in DOMAIN waitApplyCh[s] /\ waitApplyCh'[s][i] = waitApplyCh[s][i]
    <3>1. CASE s = handler[h].server
      BY <1>4, <2>4, <3>1, MakeChannels
    <3>2. CASE s # handler[h].server
      BY <1>4, <2>4, <3>2, MakeChannels
    <3>3. QED
      BY <3>1, <3>2
  <2>5. ASSUME NEW h \in DOMAIN handler, EraseChannel(h)
        PROVE  i \in DOMAIN waitApplyCh[s] /\ waitApplyCh'[s][i] = waitApplyCh[s][i]
    <3>1. CASE s = handler[h].server
      BY <1>4, <2>5, <3>1, EraseChannels
    <3>2. CASE s # handler[h].server
      BY <1>4, <2>5, <3>2, EraseChannels
    <3>3. QED
      BY <3>1, <3>2
  <2>6. ASSUME NEW h \in DOMAIN handler, PopChannel(h)
        PROVE  /\ i \in 1..Done(s)'
               /\ \A j \in 1..Len(waitApplyCh'[s][i]) : waitApplyCh'[s][i][j] = committed'[i]
    <3>1. i \in DOMAIN waitApplyCh[s]
      BY <1>4, <2>6, PopChannels
    <3>2. ASSUME s = handler[h].server, i = handler[h].index, waitApplyCh'[s][i] = Tail(Channel(h))
          PROVE  /\ i \in 1..Done(s)'
                 /\ \A j \in 1..Len(waitApplyCh'[s][i]) : waitApplyCh'[s][i][j] = committed'[i]
      <4>1. Channel(h) = waitApplyCh[s][i] /\ Channel(h) \in Seq(Op) /\ Channel(h) # <<>>
        BY <2>6, <3>2, PopChannels DEF Channel
      <4>2. /\ i \in 1..Done(s)' /\ \A j \in 1..Len(Channel(h)) : Channel(h)[j] = committed'[i]
        BY <1>3, <3>1, <4>1
      <4>3. ASSUME NEW q \in Seq(Op), q # <<>>, NEW j \in 1..Len(Tail(q))
            PROVE  j + 1 \in 1..Len(q) /\ Tail(q)[j] = q[j + 1]
        BY <4>3
      <4>4. QED
        BY <3>2, <4>1, <4>2, <4>3
    <3>3. QED
      BY <2>1, <2>6, <3>1, <3>2, PopChannels
  <2>7. QED
    BY <2>1, <2>2, <2>3, <2>4, <2>5, <2>6, StoreOnly
<1>5. QED
  BY <1>2, <1>4 DEF TakenCommitted

-----------------------------------------------------------------------------
\* A request whose client has issued a later request is committed.
LEMMA LaterIssued ==
    ASSUME Separate, KvTypeOK, Issued, PriorCommitted, NEW a \in Used, NEW b \in Used,
           a.ClientId = b.ClientId, a.RequestId < b.RequestId
    PROVE  Committed(a)
<1>1. /\ a \in Op /\ b \in Op /\ Owner(a) \in Clerk /\ a.RequestId \in Nat /\ b.RequestId \in Nat
      /\ clerk[Owner(a)].m_requestId \in Nat
  BY UsedThere
<1>2. Owner(b) = Owner(a)
  BY <1>1, SameValue
<1>3. b.RequestId <= clerk[Owner(a)].m_requestId
  BY <1>2 DEF Issued
<1>4. a.RequestId < clerk[Owner(a)].m_requestId
  BY <1>1, <1>3
<1>5. QED
  BY <1>4 DEF PriorCommitted

\* Every step preserves InOrder: an old request that is committed again has been committed before
\* the later request, as its clerk waited for it.
LEMMA InOrderStep ==
    ASSUME Separate, KvTypeOK, Issued, PriorCommitted, InOrder, Next
    PROVE  InOrder'
<1>0. /\ Len(committed) \in Nat /\ committed \in Seq(Op)
      /\ \A i \in 1..Len(committed) : committed[i] \in Used
  BY UsedThere, CommittedKept DEF KvTypeOK
<1>1. CASE UNCHANGED committed
  BY <1>1 DEF InOrder
<1>2. ASSUME NEW op \in Used, committed' = Append(committed, op) PROVE InOrder'
  <2> DEFINE n == Len(committed)
  <2>0. op \in Op
    BY UsedThere
  <2>1. /\ Len(committed') = n + 1 /\ committed'[n + 1] = op
        /\ \A i \in 1..n : committed'[i] = committed[i]
    BY <1>0, <1>2, <2>0
  <2>2. ASSUME NEW i \in 1..n, op.ClientId = committed[i].ClientId,
               op.RequestId < committed[i].RequestId
        PROVE  \E j \in 1..(i - 1) : SameRequest(committed[j], op)
    <3>1. PICK j \in 1..n : SameRequest(committed[j], op)
      BY <1>0, <2>2, LaterIssued DEF Committed
    <3>2. /\ committed[j].ClientId = committed[i].ClientId
          /\ committed[j].RequestId < committed[i].RequestId
      BY <2>2, <3>1 DEF SameRequest
    <3>3. CASE j < i
      BY <1>0, <3>1, <3>3
    <3>4. CASE j = i
      <4>1. committed[i].RequestId \in Nat
        BY <1>0, UsedThere
      <4>2. QED
        BY <3>2, <3>4, <4>1
    <3>5. CASE i < j
      <4>1. PICK k \in 1..(i - 1) : SameRequest(committed[k], committed[j])
        BY <3>2, <3>5 DEF InOrder
      <4>2. QED
        BY <3>1, <4>1 DEF SameRequest
    <3>6. QED
      BY <1>0, <3>3, <3>4, <3>5
  <2>3. ASSUME NEW i \in 1..(n + 1), NEW k \in 1..(n + 1), i < k,
               committed'[k].ClientId = committed'[i].ClientId,
               committed'[k].RequestId < committed'[i].RequestId
        PROVE  \E j \in 1..(i - 1) : SameRequest(committed'[j], committed'[k])
    <3>1. i \in 1..n /\ committed'[i] = committed[i] /\ \A j \in 1..(i - 1) : committed'[j] = committed[j]
      BY <1>0, <2>1, <2>3
    <3>2. CASE k = n + 1
      BY <2>1, <2>2, <2>3, <3>1, <3>2
    <3>3. CASE k # n + 1
      <4>1. k \in 1..n /\ committed'[k] = committed[k]
        BY <1>0, <2>1, <3>3
      <4>2. \E j \in 1..(i - 1) : SameRequest(committed[j], committed[k])
        BY <2>3, <3>1, <4>1 DEF InOrder
      <4>3. QED
        BY <3>1, <4>1, <4>2
    <3>4. QED
      BY <3>2, <3>3
  <2>4. QED
    BY <2>1, <2>3 DEF InOrder
<1>3. ASSUME NEW s \in Server, Len(committed) + 1 \in 1..Len(raftLog[s]), raftLog[s][Len(committed) + 1] \in Op
      PROVE  raftLog[s][Len(committed) + 1] \in Used
  BY <1>3 DEF Used, InUse
<1>4. QED
  BY <1>1, <1>2, <1>3, CommittedGrows

\* A request that counts as a duplicate has a successor, or itself, among what is done with.
LEMMA DuplicateDone ==
    ASSUME KvTypeOK, LastIds, NEW s \in Server, NEW op \in Op, ifRequestDuplicate(s, op)
    PROVE  \E j \in 1..Done(s) : /\ committed[j].ClientId = op.ClientId
                                 /\ committed[j].RequestId = m_lastRequestId[s][op.ClientId]
                                 /\ op.RequestId <= committed[j].RequestId
<1>1. /\ op.RequestId \in Nat /\ op.RequestId >= 1 /\ op.ClientId \in ClientId
      /\ m_lastRequestId \in [Server -> [ClientId -> Nat]]
  BY OpFields DEF KvTypeOK
<1>2. m_lastRequestId[s][op.ClientId] \in Nat /\ op.RequestId <= m_lastRequestId[s][op.ClientId]
  BY <1>1 DEF ifRequestDuplicate
<1>3. m_lastRequestId[s][op.ClientId] # 0
  BY <1>1, <1>2
<1>4. PICK j \in 1..Done(s) : /\ committed[j].ClientId = op.ClientId
                              /\ committed[j].RequestId = m_lastRequestId[s][op.ClientId]
  BY <1>1, <1>3 DEF LastIds
<1>5. QED
  BY <1>2, <1>4

\* A committed request that is not the latest of its client was committed before.
LEMMA EarlierCopy ==
    ASSUME KvTypeOK, Issued, InOrder, NEW i \in 1..Len(committed), NEW j \in 1..(i - 1),
           committed[j].ClientId = committed[i].ClientId,
           committed[i].RequestId <= committed[j].RequestId
    PROVE  \E k \in 1..j : /\ SameRequest(committed[k], committed[i])
                           /\ IsWrite(committed[k]) <=> IsWrite(committed[i])
<1>0. /\ Len(committed) \in Nat /\ committed \in Seq(Op)
      /\ \A k \in 1..Len(committed) : committed[k] \in Used
  BY UsedThere DEF KvTypeOK
<1>1. i \in Nat /\ j \in 1..Len(committed) /\ j < i
  BY <1>0
<1>2. committed[i].RequestId \in Nat /\ committed[j].RequestId \in Nat
  BY <1>0, <1>1, UsedThere
<1>3. CASE committed[i].RequestId = committed[j].RequestId
  <2>1. SameRequest(committed[j], committed[i])
    BY <1>3 DEF SameRequest
  <2>2. IsWrite(committed[j]) <=> IsWrite(committed[i])
    BY <1>0, <1>1, <2>1 DEF Issued
  <2>3. QED
    BY <1>1, <2>1, <2>2
<1>4. CASE committed[i].RequestId < committed[j].RequestId
  <2>1. PICK k \in 1..(j - 1) : SameRequest(committed[k], committed[i])
    BY <1>1, <1>4 DEF InOrder
  <2>2. k \in 1..Len(committed) /\ k \in 1..j
    BY <1>0, <1>1
  <2>3. IsWrite(committed[k]) <=> IsWrite(committed[i])
    BY <1>0, <2>1, <2>2 DEF Issued
  <2>4. QED
    BY <2>1, <2>2, <2>3
<1>5. QED
  BY <1>2, <1>3, <1>4

\* What the channel of a handler holds is committed, and done with.
LEMMA HeadCommitted ==
    ASSUME KvTypeOK, ChannelsOwned, TakenCommitted, NEW h \in DOMAIN handler, PopChannel(h)
    PROVE  /\ handler[h].index \in 1..Done(handler[h].server)
           /\ Head(Channel(h)) = committed[handler[h].index]
<1>1. /\ Channel(h) \in Seq(Op) /\ Channel(h) # <<>> /\ handler[h].server \in Server
      /\ handler[h].index \in DOMAIN waitApplyCh[handler[h].server]
  BY PopChannels, HandlerFields
<1>2. /\ handler[h].index \in 1..Done(handler[h].server)
      /\ \A j \in 1..Len(Channel(h)) : Channel(h)[j] = committed[handler[h].index]
  BY <1>1 DEF TakenCommitted, Channel
<1>3. Head(Channel(h)) = Channel(h)[1] /\ 1 \in 1..Len(Channel(h))
  BY <1>1
<1>4. QED
  BY <1>2, <1>3

\* A handler stays as it is, is new, or takes a step.
LEMMA HandlerKept ==
    ASSUME KvTypeOK, ClerksWait, Next, NEW h \in DOMAIN handler'
    PROVE  \/ h \in DOMAIN handler /\ handler'[h] = handler[h]
           \/ handler'[h].pc = "Start" /\ handler'[h].err = ""
           \/ h \in DOMAIN handler /\ HandlerStep(h) /\ ~Unclaimed(h)
<1>1. ASSUME NEW s \in Server, ConsensusStep(s) \/ LoopStep(s) PROVE h \in DOMAIN handler /\ handler'[h] = handler[h]
  <2>1. UNCHANGED handler
    BY <1>1, QuietMoves
  <2>2. QED
    BY <2>1
<1>2. ASSUME NEW g \in DOMAIN handler, HandlerStep(g)
      PROVE  \/ h \in DOMAIN handler /\ handler'[h] = handler[h]
             \/ h \in DOMAIN handler /\ HandlerStep(h) /\ ~Unclaimed(h)
  <2>1. CASE Unclaimed(g)
    BY <2>1 DEF Unclaimed
  <2>2. CASE ~Unclaimed(g)
    <3>1. DOMAIN handler' = DOMAIN handler /\ \A f \in DOMAIN handler : f # g => handler'[f] = handler[f]
      BY <1>2, <2>2, HandlerMoves DEF Moved
    <3>2. QED
      BY <1>2, <2>2, <3>1
  <2>3. QED
    BY <2>1, <2>2
<1>3. ASSUME NEW c \in Clerk, ClerkStep(c)
      PROVE  \/ h \in DOMAIN handler /\ handler'[h] = handler[h]
             \/ handler'[h].pc = "Start" /\ handler'[h].err = ""
  BY <1>3, ClerkHandlers
<1>4. QED
  BY <1>1, <1>2, <1>3 DEF Next

\* Every step preserves AnsweredCommitted, for answers from the channel and after a time-out.
LEMMA AnsweredCommittedStep ==
    ASSUME Separate, KvTypeOK, ClerksWait, ChannelsOwned, ReadSteps, Issued, PriorCommitted, AnsweredCommitted,
           TakenCommitted, LastIds, ReadsDone, Next
    PROVE  AnsweredCommitted'
<1>1. SUFFICES ASSUME NEW h \in DOMAIN handler', handler'[h].err \in {"OK", "ErrNoKey"}
               PROVE  \E k \in 1..Len(committed') : SameRequest(committed'[k], handler'[h].op)
  BY DEF AnsweredCommitted, Committed
<1>2. ASSUME h \in DOMAIN handler, handler'[h].op = handler[h].op, Committed(handler[h].op)
      PROVE  \E k \in 1..Len(committed') : SameRequest(committed'[k], handler'[h].op)
  <2>1. PICK k \in 1..Len(committed) : SameRequest(committed[k], handler[h].op)
    BY <1>2 DEF Committed
  <2>2. k \in 1..Len(committed') /\ committed'[k] = committed[k]
    BY CommittedKept
  <2>3. QED
    BY <1>2, <2>1, <2>2
<1>3. CASE h \in DOMAIN handler /\ handler'[h] = handler[h]
  BY <1>1, <1>2, <1>3 DEF AnsweredCommitted
<1>4. ASSUME h \in DOMAIN handler, HandlerStep(h), ~Unclaimed(h) PROVE \E k \in 1..Len(committed') : SameRequest(committed'[k], handler'[h].op)
  <2>0. /\ handler[h].op \in Op /\ handler[h].op \in Used /\ handler[h].server \in Server /\ handler[h] \in Handler
    BY <1>4, HandlerFields, UsedThere
  <2>1. ASSUME NEW pc, NEW err, NEW index, Moved(h, pc, err, index),
               err \in {"OK", "ErrNoKey"} => Committed(handler[h].op)
        PROVE  \E k \in 1..Len(committed') : SameRequest(committed'[k], handler'[h].op)
    <3>1. handler'[h].op = handler[h].op /\ handler'[h].err = err
      BY <2>1 DEF Moved
    <3>2. Committed(handler[h].op)
      BY <1>1, <2>1, <3>1
    <3>3. QED
      BY <1>2, <1>4, <3>1, <3>2
  <2>2. handler[h].err \in {"OK", "ErrNoKey"} => Committed(handler[h].op)
    BY <1>4 DEF AnsweredCommitted
  <2>3. CASE Start(h)
    BY <1>4, <2>1, <2>2, <2>3, StartMoves
  <2>4. CASE MakeChannel(h)
    BY <1>4, <2>0, <2>1, <2>2, <2>4, GotoMoves DEF MakeChannel, Pc
  <2>5. CASE PopChannel(h)
    <3>1. SameRequest(Head(Channel(h)), handler[h].op) => Committed(handler[h].op)
      <4>1. /\ handler[h].index \in 1..Done(handler[h].server)
            /\ Head(Channel(h)) = committed[handler[h].index]
        BY <1>4, <2>5, HeadCommitted
      <4>2. Done(handler[h].server) \in Nat /\ Done(handler[h].server) <= Len(committed) /\ Len(committed) \in Nat
        BY <2>0, DoneStep
      <4>3. handler[h].index \in 1..Len(committed)
        BY <4>1, <4>2
      <4>4. QED
        BY <4>1, <4>3 DEF Committed
    <3>2. QED
      BY <1>4, <2>1, <2>2, <2>5, <3>1, PopChannelMoves
  <2>6. CASE TimeOut(h)
    BY <1>4, <2>1, <2>2, <2>6, TimeOutMoves
  <2>7. CASE GetState(h)
    BY <1>4, <2>1, <2>2, <2>7, GetStateMoves
  <2>8. CASE CheckDuplicate(h)
    <3>1. ifRequestDuplicate(handler[h].server, handler[h].op) => Committed(handler[h].op)
      <4>1. SUFFICES ASSUME ifRequestDuplicate(handler[h].server, handler[h].op)
                     PROVE  Committed(handler[h].op)
        OBVIOUS
      <4>2. PICK j \in 1..Done(handler[h].server) :
                 /\ committed[j].ClientId = handler[h].op.ClientId
                 /\ handler[h].op.RequestId <= committed[j].RequestId
        BY <2>0, <4>1, DuplicateDone
      <4>3. Done(handler[h].server) \in Nat /\ Done(handler[h].server) <= Len(committed) /\ Len(committed) \in Nat
        BY <2>0, DoneStep
      <4>4. j \in 1..Len(committed)
        BY <4>3
      <4>5. committed[j] \in Used
        BY <4>4, UsedThere
      <4>6. committed[j].RequestId \in Nat /\ handler[h].op.RequestId \in Nat
        BY <2>0, <4>5, UsedThere
      <4>7. CASE handler[h].op.RequestId = committed[j].RequestId
        BY <4>2, <4>4, <4>7 DEF Committed, SameRequest
      <4>8. CASE handler[h].op.RequestId < committed[j].RequestId
        BY <2>0, <4>1, <4>2, <4>5, <4>8, LaterIssued
      <4>9. QED
        BY <4>2, <4>6, <4>7, <4>8
    <3>2. QED
      BY <1>4, <2>1, <2>2, <2>8, <3>1, CheckDuplicateMoves
  <2>9. CASE ExecuteGetOpOnKVDB(h)
    <3>1. PICK j \in 1..Done(handler[h].server) : SameRequest(committed[j], handler[h].op)
      BY <1>4, <2>9 DEF ReadsDone, ExecuteGetOpOnKVDB
    <3>2. Done(handler[h].server) \in Nat /\ Done(handler[h].server) <= Len(committed) /\ Len(committed) \in Nat
      BY <2>0, DoneStep
    <3>3. j \in 1..Len(committed)
      BY <3>2
    <3>4. Committed(handler[h].op)
      BY <3>1, <3>3 DEF Committed
    <3>5. QED
      BY <1>4, <2>1, <2>9, <3>4, ExecuteGetMoves
  <2>10. CASE EraseChannel(h)
    BY <1>4, <2>0, <2>1, <2>2, <2>10, GotoMoves DEF EraseChannel, Pc
  <2>11. QED
    BY <1>4, <2>3, <2>4, <2>5, <2>6, <2>7, <2>8, <2>9, <2>10 DEF HandlerStep
<1>5. QED
  BY <1>1, <1>3, <1>4, HandlerKept

\* Every step preserves ReadsDone, for reads from the channel and after a time-out.
LEMMA ReadsDoneStep ==
    ASSUME Separate, KvTypeOK, ClerksWait, ChannelsOwned, ReadSteps, Issued, PriorCommitted, InOrder,
           TakenCommitted, LastIds, ReadsDone, Next
    PROVE  ReadsDone'
<1>0. ASSUME NEW s \in Server, NEW k \in 1..Done(s) PROVE k \in 1..Done(s)' /\ committed'[k] = committed[k]
  <2>1. /\ Done(s) \in Nat /\ Done(s) <= Len(committed) /\ Len(committed) \in Nat
        /\ Done(s)' \in Nat /\ Done(s) <= Done(s)'
    BY DoneStep
  <2>2. k \in 1..Done(s)' /\ k \in 1..Len(committed)
    BY <2>1
  <2>3. QED
    BY <2>2, CommittedKept
<1>1. SUFFICES ASSUME NEW h \in DOMAIN handler', handler'[h].pc = "Execute"
               PROVE  \E s \in Server : s = handler'[h].server /\
                          \E j \in 1..Done(s)' : SameRequest(committed'[j], handler'[h].op)
  BY DEF ReadsDone, Done
<1>2. ASSUME h \in DOMAIN handler, handler'[h].op = handler[h].op, handler'[h].server = handler[h].server,
             NEW j \in 1..Done(handler[h].server), SameRequest(committed[j], handler[h].op)
      PROVE  \E s \in Server : s = handler'[h].server /\
                 \E k \in 1..Done(s)' : SameRequest(committed'[k], handler'[h].op)
  <2>1. PICK s \in Server : s = handler[h].server
    BY <1>2, HandlerFields
  <2>2. j \in 1..Done(s)' /\ committed'[j] = committed[j]
    BY <1>0, <1>2, <2>1
  <2>3. QED
    BY <1>2, <2>1, <2>2
<1>3. CASE h \in DOMAIN handler /\ handler'[h] = handler[h]
  <2>1. PICK j \in 1..Done(handler[h].server) : SameRequest(committed[j], handler[h].op)
    BY <1>1, <1>3 DEF ReadsDone
  <2>2. QED
    BY <1>2, <1>3, <2>1
<1>4. ASSUME h \in DOMAIN handler, HandlerStep(h), ~Unclaimed(h)
      PROVE  \E s \in Server : s = handler'[h].server /\
                 \E j \in 1..Done(s)' : SameRequest(committed'[j], handler'[h].op)
  <2>0. /\ handler[h].op \in Op /\ handler[h].op \in Used /\ handler[h].server \in Server /\ handler[h] \in Handler
    BY <1>4, HandlerFields, UsedThere
  <2>1. ASSUME NEW pc, NEW err, NEW index, Moved(h, pc, err, index), pc # "Execute" PROVE FALSE
    BY <1>1, <2>1 DEF Moved
  <2>2. ASSUME NEW pc, NEW err, NEW index, Moved(h, pc, err, index),
               NEW j \in 1..Done(handler[h].server), SameRequest(committed[j], handler[h].op)
        PROVE  \E s \in Server : s = handler'[h].server /\
                 \E k \in 1..Done(s)' : SameRequest(committed'[k], handler'[h].op)
    BY <1>2, <1>4, <2>2 DEF Moved
  <2>3. CASE Start(h)
    BY <1>4, <2>1, <2>3, StartMoves
  <2>4. CASE MakeChannel(h)
    BY <1>4, <2>0, <2>1, <2>4, GotoMoves DEF MakeChannel, Pc
  <2>5. CASE PopChannel(h)
    <3>1. /\ handler[h].index \in 1..Done(handler[h].server)
          /\ Head(Channel(h)) = committed[handler[h].index]
      BY <1>4, <2>5, HeadCommitted
    <3>2. QED
      BY <1>4, <2>1, <2>2, <2>5, <3>1, PopChannelMoves
  <2>6. CASE TimeOut(h)
    BY <1>4, <2>1, <2>6, TimeOutMoves
  <2>7. CASE GetState(h)
    BY <1>4, <2>1, <2>7, GetStateMoves
  <2>8. CASE CheckDuplicate(h)
    <3>1. ASSUME ifRequestDuplicate(handler[h].server, handler[h].op), ~IsWrite(handler[h].op)
          PROVE  \E j \in 1..Done(handler[h].server) : SameRequest(committed[j], handler[h].op)
      <4>2. PICK j \in 1..Done(handler[h].server) :
                 /\ committed[j].ClientId = handler[h].op.ClientId
                 /\ handler[h].op.RequestId <= committed[j].RequestId
        BY <2>0, <3>1, DuplicateDone
      <4>3. Done(handler[h].server) \in Nat /\ Done(handler[h].server) <= Len(committed) /\ Len(committed) \in Nat
        BY <2>0, DoneStep
      <4>4. j \in 1..Len(committed)
        BY <4>3
      <4>5. committed[j] \in Used
        BY <4>4, UsedThere
      <4>6. committed[j].RequestId \in Nat /\ handler[h].op.RequestId \in Nat
        BY <2>0, <4>5, UsedThere
      <4>7. CASE committed[j].RequestId = handler[h].op.RequestId
        BY <4>2, <4>7 DEF SameRequest
      <4>8. CASE handler[h].op.RequestId < committed[j].RequestId
        <5>1. PICK k \in 1..Len(committed) : SameRequest(committed[k], handler[h].op)
          BY <2>0, <4>2, <4>5, <4>8, LaterIssued DEF Committed
        <5>2. CASE k <= j
          BY <4>3, <5>1, <5>2
        <5>3. CASE j < k
          <6>1. PICK l \in 1..(j - 1) : SameRequest(committed[l], committed[k])
            BY <4>2, <4>4, <4>8, <5>1, <5>3 DEF InOrder, SameRequest
          <6>2. l \in 1..Done(handler[h].server)
            BY <4>3
          <6>3. QED
            BY <5>1, <6>1, <6>2 DEF SameRequest
        <5>4. QED
          BY <4>3, <5>2, <5>3
      <4>9. QED
        BY <4>2, <4>6, <4>7, <4>8
    <3>2. QED
      BY <1>4, <2>1, <2>2, <2>8, <3>1, CheckDuplicateMoves
  <2>9. CASE ExecuteGetOpOnKVDB(h)
    BY <1>4, <2>1, <2>9, ExecuteGetMoves
  <2>10. CASE EraseChannel(h)
    BY <1>4, <2>0, <2>1, <2>10, GotoMoves DEF EraseChannel, Pc
  <2>11. QED
    BY <1>4, <2>3, <2>4, <2>5, <2>6, <2>7, <2>8, <2>9, <2>10 DEF HandlerStep
<1>5. QED
  BY <1>1, <1>3, <1>4, HandlerKept

-----------------------------------------------------------------------------
\* A step changes the data of a server only if it is one of three of its own.
LEMMA LocalStep ==
    ASSUME KvTypeOK, TakenCommitted, Next, NEW s \in Server
    PROVE  \/ PopMessage(s)
           \/ ExecuteOnKVDB(s)
           \/ /\ Done(s)' = Done(s) /\ m_skipList'[s] = m_skipList[s] /\ executed'[s] = executed[s]
              /\ loop'[s].pc = "Execute" => loop[s].pc = "Execute" /\ applied'[s] = applied[s]
              /\ \/ m_lastRequestId'[s] = m_lastRequestId[s]
                 \/ \E h \in DOMAIN handler : handler[h].server = s /\ ExecuteGetOpOnKVDB(h)
<1>0. /\ m_skipList \in [Server -> Stored] /\ m_lastRequestId \in [Server -> [ClientId -> Nat]]
      /\ executed \in [Server -> Seq(Written)]
  BY DEF KvTypeOK
<1>1. ASSUME ~PopMessage(s), ~ExecuteOnKVDB(s)
      PROVE  /\ Done(s)' = Done(s)
             /\ loop'[s].pc = "Execute" => loop[s].pc = "Execute" /\ applied'[s] = applied[s]
  <2>1. CASE SendMessageToWaitChan(s)
    <3>1. loop'[s] = Idle
      BY <2>1, SendMoves
    <3>2. Done(s)' = Done(s)
      BY <2>1, SendMoves
    <3>3. QED
      BY <3>1, <3>2 DEF Idle
  <2>2. CASE UNCHANGED <<applied, loop>>
    BY <2>2 DEF Done
  <2>3. ASSUME NEW v \in Server, v # s, LoopStep(v) PROVE applied'[s] = applied[s] /\ loop'[s] = loop[s]
    <3>1. CASE PopMessage(v)
      BY <2>3, <3>1, PopMoves
    <3>2. CASE ExecuteOnKVDB(v)
      <4>1. UNCHANGED applied /\ \A w \in Server : w # v => loop'[w] = loop[w]
        BY <3>2, ExecuteMoves
      <4>2. QED
        BY <2>3, <4>1
    <3>3. CASE SendMessageToWaitChan(v)
      BY <2>3, <3>3, SendMoves
    <3>4. QED
      BY <2>3, <3>1, <3>2, <3>3 DEF LoopStep
  <2>4. CASE \E v \in Server : v # s /\ LoopStep(v)
    BY <2>3, <2>4 DEF Done
  <2>5. QED
    BY <1>1, <2>1, <2>2, <2>4, StoreOnly DEF LoopStep, loopVars
<1>2. CASE UNCHANGED storeVars
  BY <1>1, <1>2 DEF storeVars
<1>3. ASSUME NEW v \in Server, v # s, ExecuteOnKVDB(v)
      PROVE  /\ m_skipList'[s] = m_skipList[s] /\ executed'[s] = executed[s]
             /\ m_lastRequestId'[s] = m_lastRequestId[s]
  BY <1>0, <1>3 DEF ExecuteOnKVDB
<1>4. ASSUME NEW h \in DOMAIN handler, ExecuteGetOpOnKVDB(h)
      PROVE  /\ m_skipList'[s] = m_skipList[s] /\ executed'[s] = executed[s]
             /\ handler[h].server # s => m_lastRequestId'[s] = m_lastRequestId[s]
  <2>1. handler[h].server \in Server
    BY HandlerFields
  <2>2. QED
    BY <1>0, <1>4, <2>1 DEF ExecuteGetOpOnKVDB
<1>5. QED
  BY <1>1, <1>2, <1>3, <1>4, StoreOnly

\* What is known of the requests a server has done with.
LEMMA DoneRequests ==
    ASSUME KvTypeOK, TakenCommitted, Next, NEW s \in Server
    PROVE  \A i \in 1..Done(s) :
              /\ i \in 1..Len(committed) /\ committed[i] \in Op /\ committed[i] \in Used
              /\ committed[i].RequestId \in Nat /\ committed[i].ClientId \in ClientId
              /\ committed'[i] = committed[i]
              /\ i \in 1..Done(s)'
<1>1. /\ Done(s) \in Nat /\ Done(s) <= Len(committed) /\ Len(committed) \in Nat
      /\ Done(s)' \in Nat /\ Done(s) <= Done(s)'
  BY DoneStep
<1>2. ASSUME NEW i \in 1..Done(s) PROVE i \in 1..Len(committed) /\ i \in 1..Done(s)'
  BY <1>1
<1>3. \A i \in 1..Len(committed) : /\ committed[i] \in Op /\ committed[i] \in Used
                                   /\ committed'[i] = committed[i]
  BY CommittedKept, UsedThere
<1>4. \A i \in 1..Len(committed) : committed[i].RequestId \in Nat /\ committed[i].ClientId \in ClientId
  BY <1>3, UsedThere
<1>5. QED
  BY <1>2, <1>3, <1>4

\* A message is executed if it is a write that is the latest of its client; a write that
\* is skipped has been done with before.
LEMMA PopFresh ==
    ASSUME Separate, KvTypeOK, Issued, InOrder, TakenCommitted, LastIds, Next, NEW s \in Server, PopMessage(s),
           NEW i, i = applied[s] + 1
    PROVE  /\ s \notin lowered /\ IsWrite(committed[i]) /\ ~ifRequestDuplicate(s, committed[i]) => Fresh(i)
           /\ ifRequestDuplicate(s, committed[i]) =>
                 /\ ~Fresh(i)
                 /\ IsWrite(committed[i]) =>
                       \E k \in 1..Done(s) : SameRequest(committed[k], committed[i]) /\ IsWrite(committed[k])
<1>1. i \in 1..Len(committed) /\ committed[i] \in Op /\ Done(s) = i - 1
  BY PopMoves
<1>2. Done(s) \in Nat /\ i \in Nat
  BY <1>1, DoneStep
<1>3. committed[i].RequestId \in Nat /\ committed[i].ClientId \in ClientId
      /\ m_lastRequestId[s][committed[i].ClientId] \in Nat
  BY <1>1, OpFields DEF KvTypeOK
<1>4. \A k \in 1..Done(s) : /\ committed[k].RequestId \in Nat
                            /\ s \notin lowered /\ IsWrite(committed[k]) =>
                                  committed[k].RequestId <= m_lastRequestId[s][committed[k].ClientId]
  BY DoneRequests DEF LastIds
<1>5. ASSUME s \notin lowered, IsWrite(committed[i]), ~ifRequestDuplicate(s, committed[i]) PROVE Fresh(i)
  <2>1. SUFFICES ASSUME NEW j \in 1..(i - 1), committed[j].ClientId = committed[i].ClientId,
                        ~(committed[j].RequestId < committed[i].RequestId)
                 PROVE  FALSE
    BY <1>5 DEF Fresh
  <2>2. committed[j].RequestId \in Nat /\ j \in 1..Done(s)
    BY <1>1, <1>4
  <2>3. committed[i].RequestId <= committed[j].RequestId
    BY <1>3, <2>1, <2>2
  <2>4. PICK k \in 1..j : SameRequest(committed[k], committed[i]) /\ IsWrite(committed[k])
    BY <1>1, <1>5, <2>1, <2>3, EarlierCopy
  <2>5. k \in 1..Done(s)
    BY <1>2, <2>2
  <2>6. committed[i].RequestId <= m_lastRequestId[s][committed[i].ClientId]
    BY <1>4, <1>5, <2>4, <2>5 DEF SameRequest
  <2>7. QED
    BY <1>5, <2>6 DEF ifRequestDuplicate
<1>6. ASSUME ifRequestDuplicate(s, committed[i])
      PROVE  /\ ~Fresh(i)
             /\ IsWrite(committed[i]) =>
                   \E k \in 1..Done(s) : SameRequest(committed[k], committed[i]) /\ IsWrite(committed[k])
  <2>1. PICK j \in 1..Done(s) : /\ committed[j].ClientId = committed[i].ClientId
                                /\ committed[i].RequestId <= committed[j].RequestId
    BY <1>1, <1>6, DuplicateDone
  <2>2. j \in 1..(i - 1) /\ committed[j].RequestId \in Nat
    BY <1>1, <1>4
  <2>3. ~(committed[j].RequestId < committed[i].RequestId)
    BY <1>3, <2>1, <2>2
  <2>4. ~Fresh(i)
    BY <2>1, <2>2, <2>3 DEF Fresh
  <2>5. ASSUME IsWrite(committed[i])
        PROVE  \E k \in 1..Done(s) : SameRequest(committed[k], committed[i]) /\ IsWrite(committed[k])
    <3>1. PICK k \in 1..j : SameRequest(committed[k], committed[i]) /\ IsWrite(committed[k])
      BY <1>1, <2>1, <2>2, <2>5, EarlierCopy
    <3>2. k \in 1..Done(s)
      BY <1>2
    <3>3. QED
      BY <3>1, <3>2
  <2>6. QED
    BY <2>4, <2>5
<1>7. QED
  BY <1>5, <1>6

\* Every step preserves LastIds: a read that overwrites m_lastRequestId has been done with,
\* and lowers its server if the id was a later one.
LEMMA LastIdsStep ==
    ASSUME Separate, KvTypeOK, ClerksWait, ReadSteps, Issued, InOrder, TakenCommitted, LastIds,
           ReadsDone, Next
    PROVE  LastIds'
<1> SUFFICES ASSUME NEW s \in Server
             PROVE  /\ s \notin lowered' => \A i \in 1..Done(s)' : IsWrite(committed'[i]) =>
                          committed'[i].RequestId <= m_lastRequestId'[s][committed'[i].ClientId]
                    /\ \A c \in ClientId : m_lastRequestId'[s][c] # 0 =>
                          \E j \in 1..Done(s)' : /\ committed'[j].ClientId = c
                                                 /\ committed'[j].RequestId = m_lastRequestId'[s][c]
                    /\ s \notin lowered' /\ loop'[s].pc = "Execute" => Fresh(applied[s])'
  BY DEF LastIds
<1>0. s \notin lowered' => s \notin lowered
  BY LoweredGrows
<1>1. \A i \in 1..Done(s) :
         /\ i \in 1..Len(committed) /\ committed[i] \in Op /\ committed[i] \in Used
         /\ committed[i].RequestId \in Nat /\ committed[i].ClientId \in ClientId
         /\ committed'[i] = committed[i]
         /\ i \in 1..Done(s)'
  BY DoneRequests
<1>2. /\ s \notin lowered => \A i \in 1..Done(s) : IsWrite(committed[i]) =>
            committed[i].RequestId <= m_lastRequestId[s][committed[i].ClientId]
      /\ \A c \in ClientId : m_lastRequestId[s][c] # 0 =>
            \E j \in 1..Done(s) : committed[j].ClientId = c /\ committed[j].RequestId = m_lastRequestId[s][c]
      /\ s \notin lowered /\ loop[s].pc = "Execute" => Fresh(applied[s])
  BY DEF LastIds
<1>3. /\ m_lastRequestId \in [Server -> [ClientId -> Nat]] /\ Done(s) \in Nat
  BY DoneStep DEF KvTypeOK
<1>4. ASSUME NEW i, i \in 1..Len(committed), Fresh(i), i = applied'[s] PROVE Fresh(applied[s])'
  <2>1. Fresh(i)'
    BY <1>4, CommittedKept
  <2>2. QED
    BY <1>4, <2>1 DEF Fresh
<1>5. CASE PopMessage(s)
  <2> DEFINE i == applied[s] + 1
  <2>1. /\ i \in 1..Len(committed) /\ committed[i] \in Op
        /\ loop[s] = Idle /\ Done(s) = i - 1 /\ applied'[s] = i
        /\ \/ IsWrite(committed[i]) /\ ~ifRequestDuplicate(s, committed[i])
              /\ loop'[s].pc = "Execute" /\ Done(s)' = i - 1
           \/ ~(IsWrite(committed[i]) /\ ~ifRequestDuplicate(s, committed[i]))
              /\ loop'[s].pc = "Send" /\ Done(s)' = i
        /\ UNCHANGED <<raftVars, storeVars>>
    BY <1>5, PopMoves
  <2>2. s \notin lowered /\ IsWrite(committed[i]) /\ ~ifRequestDuplicate(s, committed[i]) => Fresh(i)
    BY <1>5, PopFresh
  <2> HIDE DEF i
  <2>3. UNCHANGED <<committed, m_lastRequestId>>
    BY <2>1 DEF raftVars, storeVars
  <2>4. s \notin lowered' /\ loop'[s].pc = "Execute" => Fresh(applied[s])'
    BY <1>0, <1>4, <2>1, <2>2
  <2>5. \A c \in ClientId : m_lastRequestId'[s][c] # 0 =>
           \E j \in 1..Done(s)' : committed'[j].ClientId = c /\ committed'[j].RequestId = m_lastRequestId'[s][c]
    BY <1>1, <1>2, <2>3
  <2>6. ASSUME s \notin lowered', NEW k \in 1..Done(s)', IsWrite(committed[k])
        PROVE  committed[k].RequestId <= m_lastRequestId[s][committed[k].ClientId]
    <3>1. CASE k \in 1..Done(s)
      BY <1>0, <1>2, <2>6, <3>1
    <3>2. CASE k \notin 1..Done(s)
      <4>1. k = i /\ Done(s)' = i
        BY <1>3, <2>1, <3>2
      <4>2. ifRequestDuplicate(s, committed[i])
        BY <1>3, <2>1, <2>6, <3>2, <4>1
      <4>3. QED
        BY <4>1, <4>2 DEF ifRequestDuplicate
    <3>3. QED
      BY <3>1, <3>2
  <2>7. QED
    BY <2>3, <2>4, <2>5, <2>6
<1>6. CASE ExecuteOnKVDB(s)
  <2> DEFINE i == applied[s]
             op == committed[i]
  <2>1. /\ i \in 1..Len(committed) /\ op \in Op /\ loop[s].pc = "Execute"
        /\ Done(s) = i - 1 /\ Done(s)' = i /\ UNCHANGED committed
        /\ loop'[s].pc = "Send"
        /\ m_lastRequestId' = [m_lastRequestId EXCEPT ![s] = [@ EXCEPT ![op.ClientId] = op.RequestId]]
    BY <1>6, ExecuteMoves
  <2>2. s \notin lowered' => Fresh(i)
    BY <1>0, <1>2, <2>1
  <2>3. op.ClientId \in ClientId /\ op.RequestId \in Nat
    BY <2>1, OpFields
  <2>4. \A c \in ClientId : m_lastRequestId'[s][c] = IF c = op.ClientId THEN op.RequestId ELSE m_lastRequestId[s][c]
    BY <1>3, <2>1, <2>3
  <2> HIDE DEF i
  <2>5. \A k \in 1..i : k = i \/ k \in 1..Done(s)
    BY <2>1
  <2>6. ASSUME s \notin lowered', NEW k \in 1..i, IsWrite(committed[k])
        PROVE  committed[k].RequestId <= m_lastRequestId'[s][committed[k].ClientId]
    <3>1. CASE k = i
      BY <2>3, <2>4, <3>1
    <3>2. CASE k \in 1..Done(s) /\ committed[k].ClientId = op.ClientId
      <4>1. committed[k].RequestId < op.RequestId
        BY <2>1, <2>2, <2>6, <3>2 DEF Fresh
      <4>2. QED
        BY <1>1, <2>3, <2>4, <3>2, <4>1
    <3>3. CASE k \in 1..Done(s) /\ committed[k].ClientId # op.ClientId
      BY <1>0, <1>1, <1>2, <2>4, <2>6, <3>3
    <3>4. QED
      BY <2>5, <3>1, <3>2, <3>3
  <2>7. ASSUME NEW c \in ClientId, m_lastRequestId'[s][c] # 0
        PROVE  \E j \in 1..i : committed[j].ClientId = c /\ committed[j].RequestId = m_lastRequestId'[s][c]
    <3>0. i \in 1..i /\ \A j \in 1..Done(s) : j \in 1..i
      BY <1>1, <2>1
    <3>1. CASE c = op.ClientId
      BY <2>4, <3>0, <3>1
    <3>2. CASE c # op.ClientId
      <4>1. m_lastRequestId'[s][c] = m_lastRequestId[s][c]
        BY <2>4, <3>2
      <4>2. QED
        BY <1>2, <2>7, <3>0, <4>1
    <3>3. QED
      BY <3>1, <3>2
  <2>8. QED
    BY <2>1, <2>6, <2>7
<1>7. ASSUME Done(s)' = Done(s), loop'[s].pc = "Execute" => loop[s].pc = "Execute" /\ applied'[s] = applied[s]
      PROVE  s \notin lowered' /\ loop'[s].pc = "Execute" => Fresh(applied[s])'
  <2>1. SUFFICES ASSUME s \notin lowered', loop'[s].pc = "Execute" PROVE Fresh(applied[s])'
    OBVIOUS
  <2>2. loop[s].pc = "Execute" /\ applied'[s] = applied[s] /\ Fresh(applied[s])
    BY <1>0, <1>2, <1>7, <2>1
  <2>3. loop[s] # Idle
    BY <2>2, LoopFields
  <2>4. applied[s] \in 1..Len(committed)
    BY <2>3, <1>3 DEF TakenCommitted, KvTypeOK
  <2>5. QED
    BY <1>4, <2>2, <2>4
<1>8. ASSUME Done(s)' = Done(s), m_lastRequestId'[s] = m_lastRequestId[s]
      PROVE  /\ s \notin lowered' => \A i \in 1..Done(s)' : IsWrite(committed'[i]) =>
                   committed'[i].RequestId <= m_lastRequestId'[s][committed'[i].ClientId]
             /\ \A c \in ClientId : m_lastRequestId'[s][c] # 0 =>
                   \E j \in 1..Done(s)' : committed'[j].ClientId = c /\ committed'[j].RequestId = m_lastRequestId'[s][c]
  BY <1>0, <1>1, <1>2, <1>8
<1>9. ASSUME Done(s)' = Done(s), NEW h \in DOMAIN handler, handler[h].server = s, ExecuteGetOpOnKVDB(h)
      PROVE  /\ s \notin lowered' => \A i \in 1..Done(s)' : IsWrite(committed'[i]) =>
                   committed'[i].RequestId <= m_lastRequestId'[s][committed'[i].ClientId]
             /\ \A c \in ClientId : m_lastRequestId'[s][c] # 0 =>
                   \E j \in 1..Done(s)' : committed'[j].ClientId = c /\ committed'[j].RequestId = m_lastRequestId'[s][c]
  <2> DEFINE op == handler[h].op
  <2>1. op \in Op /\ op.ClientId \in ClientId /\ op.RequestId \in Nat
    BY HandlerFields, OpFields
  <2>2. handler[h].pc = "Execute"
        /\ m_lastRequestId' = [m_lastRequestId EXCEPT ![s][op.ClientId] = op.RequestId]
    BY <1>9 DEF ExecuteGetOpOnKVDB, RememberedId
  <2>4. \A c \in ClientId : m_lastRequestId'[s][c] = IF c = op.ClientId THEN op.RequestId ELSE m_lastRequestId[s][c]
    BY <1>3, <2>1, <2>2
  <2>5. s \notin lowered' => m_lastRequestId[s][op.ClientId] <= op.RequestId
    BY <1>9, LoweredGrows
  <2>6. \E j \in 1..Done(s) : committed[j].ClientId = op.ClientId /\ committed[j].RequestId = op.RequestId
    BY <1>9, <2>2 DEF ReadsDone, SameRequest
  <2> HIDE DEF op
  <2>7. ASSUME s \notin lowered', NEW i \in 1..Done(s), IsWrite(committed[i])
        PROVE  committed[i].RequestId <= m_lastRequestId'[s][committed[i].ClientId]
    <3>1. /\ committed[i].RequestId \in Nat /\ committed[i].ClientId \in ClientId
          /\ m_lastRequestId[s][committed[i].ClientId] \in Nat
      BY <1>1, <1>3
    <3>2. committed[i].RequestId <= m_lastRequestId[s][committed[i].ClientId]
      BY <1>0, <1>2, <2>7
    <3>3. QED
      BY <2>1, <2>4, <2>5, <2>7, <3>1, <3>2
  <2>8. QED
    BY <1>1, <1>2, <1>9, <2>4, <2>6, <2>7
<1>10. QED
  BY <1>5, <1>6, <1>7, <1>8, <1>9, LocalStep

\* One more write at the end of a sequence without repetitions.
LEMMA AppendOnce ==
    ASSUME NEW q \in Seq(Written), NEW v \in Written
    PROVE  /\ \A w : w \in Range(Append(q, v)) <=> w \in Range(q) \/ w = v
           /\ IsInjective(q) /\ v \notin Range(q) => IsInjective(Append(q, v))
<1> DEFINE x == Append(q, v)
           n == Len(q)
<1>1. /\ n \in Nat /\ DOMAIN q = 1..n /\ DOMAIN x = 1..(n + 1) /\ x[n + 1] = v
      /\ \A i \in 1..n : x[i] = q[i]
  OBVIOUS
<1> HIDE DEF x, n
<1>2. \A i \in 1..(n + 1) : i \in 1..n \/ i = n + 1
  BY <1>1
<1>3. n + 1 \in 1..(n + 1) /\ \A i \in 1..n : i \in 1..(n + 1)
  BY <1>1
<1>4. \A w : w \in Range(x) <=> w \in Range(q) \/ w = v
  BY <1>1, <1>2, <1>3 DEF Range
<1>5. ASSUME IsInjective(q), v \notin Range(q) PROVE IsInjective(x)
  BY <1>1, <1>2, <1>3, <1>5 DEF Range, IsInjective
<1>6. QED
  BY <1>4, <1>5 DEF x

\* Every step preserves ExecutedWrites: a write that is skipped has been executed.
LEMMA ExecutedWritesStep ==
    ASSUME Separate, KvTypeOK, Issued, InOrder, TakenCommitted, LastIds, ExecutedWrites, Next
    PROVE  ExecutedWrites'
<1> SUFFICES ASSUME NEW s \in Server
             PROVE  /\ \A i \in 1..Done(s)' : IsWrite(committed'[i]) => committed'[i].Value \in Range(executed'[s])
                    /\ \A v \in Range(executed'[s]) : \E i \in 1..Done(s)' : committed'[i].Value = v
                    /\ s \notin lowered' => IsInjective(executed'[s])
  BY DEF ExecutedWrites
<1>0. s \notin lowered' => s \notin lowered
  BY LoweredGrows
<1>1. \A i \in 1..Done(s) :
         /\ i \in 1..Len(committed) /\ committed[i] \in Op /\ committed[i] \in Used
         /\ committed'[i] = committed[i]
         /\ i \in 1..Done(s)'
  BY DoneRequests
<1>2. /\ \A i \in 1..Done(s) : IsWrite(committed[i]) => committed[i].Value \in Range(executed[s])
      /\ \A v \in Range(executed[s]) : \E i \in 1..Done(s) : committed[i].Value = v
      /\ s \notin lowered => IsInjective(executed[s])
  BY DEF ExecutedWrites
<1>3. executed \in [Server -> Seq(Written)] /\ Done(s) \in Nat
  BY DoneStep DEF KvTypeOK
<1>4. CASE PopMessage(s)
  <2> DEFINE i == applied[s] + 1
  <2>1. /\ i \in 1..Len(committed) /\ committed[i] \in Op /\ Done(s) = i - 1
        /\ \/ Done(s)' = i - 1
           \/ ~(IsWrite(committed[i]) /\ ~ifRequestDuplicate(s, committed[i])) /\ Done(s)' = i
        /\ UNCHANGED <<raftVars, storeVars>>
    BY <1>4, PopMoves
  <2>2. ifRequestDuplicate(s, committed[i]) /\ IsWrite(committed[i]) =>
           \E k \in 1..Done(s) : SameRequest(committed[k], committed[i]) /\ IsWrite(committed[k])
    BY <1>4, PopFresh
  <2> HIDE DEF i
  <2>3. UNCHANGED <<committed, executed>>
    BY <2>1 DEF raftVars, storeVars
  <2>4. ASSUME NEW k \in 1..Done(s)', IsWrite(committed[k]) PROVE committed[k].Value \in Range(executed[s])
    <3>1. CASE k \in 1..Done(s)
      BY <1>2, <2>4, <3>1
    <3>2. CASE k \notin 1..Done(s)
      <4>1. k = i /\ ifRequestDuplicate(s, committed[i])
        BY <1>3, <2>1, <2>4, <3>2
      <4>2. PICK j \in 1..Done(s) : SameRequest(committed[j], committed[i]) /\ IsWrite(committed[j])
        BY <2>2, <2>4, <4>1
      <4>3. committed[j].Value = committed[i].Value
        BY <1>1, <2>1, <4>2, SameValue
      <4>4. QED
        BY <1>2, <4>1, <4>2, <4>3
    <3>3. QED
      BY <3>1, <3>2
  <2>5. \A v \in Range(executed[s]) : \E k \in 1..Done(s)' : committed[k].Value = v
    BY <1>1, <1>2
  <2>6. QED
    BY <1>0, <1>2, <2>3, <2>4, <2>5
<1>5. CASE ExecuteOnKVDB(s)
  <2> DEFINE i == applied[s]
             v == committed[i].Value
  <2>1. /\ i \in 1..Len(committed) /\ committed[i] \in Op /\ loop[s].pc = "Execute"
        /\ Done(s) = i - 1 /\ Done(s)' = i /\ UNCHANGED committed
        /\ executed' = [executed EXCEPT ![s] = Append(@, v)]
    BY <1>5, ExecuteMoves
  <2>2. s \notin lowered' => Fresh(i)
    BY <1>0, <2>1 DEF LastIds
  <2>3. v \in Written /\ committed[i].RequestId \in Nat
    BY <2>1, OpFields
  <2>4. executed'[s] = Append(executed[s], v) /\ executed[s] \in Seq(Written)
    BY <1>3, <2>1
  <2> HIDE DEF i
  <2>5. \A k \in 1..i : k = i \/ k \in 1..Done(s)
    BY <2>1
  <2>6. i \in 1..i /\ \A k \in 1..Done(s) : k \in 1..i
    BY <2>1
  <2>7. s \notin lowered' => v \notin Range(executed[s])
    <3>1. SUFFICES ASSUME s \notin lowered', NEW k \in 1..Done(s), committed[k].Value = v PROVE FALSE
      BY <1>2
    <3>2. SameRequest(committed[k], committed[i])
      BY <1>1, <2>1, <3>1, SameValue
    <3>3. committed[k].RequestId < committed[i].RequestId
      BY <2>1, <2>2, <3>1, <3>2 DEF Fresh, SameRequest
    <3>4. QED
      BY <2>3, <3>2, <3>3 DEF SameRequest
  <2> HIDE DEF v
  <2>8. /\ \A w : w \in Range(executed'[s]) <=> w \in Range(executed[s]) \/ w = v
        /\ s \notin lowered' => IsInjective(executed'[s])
    BY <1>0, <1>2, <2>3, <2>4, <2>7, AppendOnce
  <2>9. \A k \in 1..i : IsWrite(committed[k]) => committed[k].Value \in Range(executed'[s])
    BY <1>2, <2>5, <2>8 DEF v
  <2>10. ASSUME NEW w \in Range(executed'[s]) PROVE \E k \in 1..i : committed[k].Value = w
    BY <1>2, <2>6, <2>8 DEF v
  <2>11. QED
    BY <2>1, <2>8, <2>9, <2>10
<1>6. CASE Done(s)' = Done(s) /\ executed'[s] = executed[s]
  BY <1>0, <1>1, <1>2, <1>6
<1>7. QED
  BY <1>4, <1>5, <1>6, LocalStep

\* Every step preserves StoresFollow: a message that is skipped would not change the store.
LEMMA StoresFollowStep ==
    ASSUME Separate, KvTypeOK, Issued, InOrder, TakenCommitted, LastIds, StoresFollow, Next
    PROVE  StoresFollow'
<1> SUFFICES ASSUME NEW s \in Server, s \notin lowered' PROVE LeftBy(Done(s), m_skipList[s])'
  BY DEF StoresFollow
<1>9. s \notin lowered
  BY LoweredGrows
<1> DEFINE L(n, v) ==
        \/ v = Nothing /\ \A i \in 1..n : ~Fresh(i)'
        \/ \E i \in 1..n : /\ Fresh(i)' /\ v = committed'[i].Value
                           /\ \A j \in (i + 1)..n : ~Fresh(j)'
<1>0. SUFFICES ASSUME NEW n, n = Done(s)', NEW v, v = m_skipList'[s] PROVE L(n, v)
  BY DEF LeftBy, Fresh
<1>1. \A i \in 1..Len(committed) : (Fresh(i)' <=> Fresh(i)) /\ committed'[i] = committed[i]
  BY CommittedKept
<1>2. LeftBy(Done(s), m_skipList[s])
  BY <1>9 DEF StoresFollow
<1>3. m_skipList \in [Server -> Stored] /\ Done(s) \in Nat /\ Done(s) <= Len(committed) /\ Len(committed) \in Nat
  BY DoneStep DEF KvTypeOK
<1>4. L(Done(s), m_skipList[s])
  <2>1. \A i \in 1..Done(s) : i \in 1..Len(committed) /\ \A j \in (i + 1)..Done(s) : j \in 1..Len(committed)
    BY <1>3
  <2>2. QED
    BY <1>1, <1>2, <2>1 DEF LeftBy
<1> HIDE DEF L
<1>5. CASE Done(s)' = Done(s) /\ m_skipList'[s] = m_skipList[s]
  BY <1>0, <1>4, <1>5
<1>6. CASE PopMessage(s)
  <2>0. PICK i : i = applied[s] + 1
    OBVIOUS
  <2>1. /\ i \in 1..Len(committed) /\ Done(s) = i - 1
        /\ \/ Done(s)' = i - 1
           \/ ~(IsWrite(committed[i]) /\ ~ifRequestDuplicate(s, committed[i])) /\ Done(s)' = i
        /\ UNCHANGED storeVars
    BY <1>6, <2>0, PopMoves
  <2>2. ifRequestDuplicate(s, committed[i]) => ~Fresh(i)
    BY <1>6, <2>0, PopFresh
  <2>3. m_skipList'[s] = m_skipList[s]
    BY <2>1 DEF storeVars
  <2>4. ASSUME Done(s)' = i, ~Fresh(i) PROVE L(n, v)
    <3>1. ~Fresh(i)' /\ n = i /\ v = m_skipList[s]
      BY <1>0, <1>1, <2>1, <2>3, <2>4
    <3>2. \A k \in 1..i : k \in 1..Done(s) \/ k = i
      BY <2>1
    <3>3. \A k \in 1..Done(s) : k \in 1..i /\ \A j \in (k + 1)..i : j \in (k + 1)..Done(s) \/ j = i
      BY <2>1
    <3>4. QED
      BY <1>4, <3>1, <3>2, <3>3 DEF L
  <2>5. ~(IsWrite(committed[i]) /\ ~ifRequestDuplicate(s, committed[i])) => ~Fresh(i)
    BY <2>2 DEF Fresh
  <2>6. QED
    BY <1>5, <2>1, <2>3, <2>4, <2>5
<1>7. CASE ExecuteOnKVDB(s)
  <2>0. PICK i : i = applied[s]
    OBVIOUS
  <2>1. /\ i \in 1..Len(committed) /\ loop[s].pc = "Execute" /\ Done(s)' = i
        /\ m_skipList' = [m_skipList EXCEPT ![s] = committed[i].Value]
    BY <1>7, <2>0, ExecuteMoves
  <2>2. Fresh(i)
    BY <1>9, <2>0, <2>1 DEF LastIds
  <2>3. n = i /\ v = committed'[i].Value /\ Fresh(i)'
    BY <1>0, <1>1, <1>3, <2>1, <2>2
  <2>4. i \in 1..i /\ \A j \in (i + 1)..i : FALSE
    BY <2>1
  <2>5. QED
    BY <2>3, <2>4 DEF L
<1>8. QED
  BY <1>5, <1>6, <1>7, LocalStep

\* The acknowledged values of a step.
LEMMA AckedOnly ==
    ASSUME KvTypeOK, ClerksWait, Next, NEW v \in acked'
    PROVE  \/ v \in acked
           \/ \E h \in DOMAIN handler : /\ handler[h].err \in {"OK", "ErrNoKey"} /\ IsWrite(handler[h].op)
                                        /\ v = handler[h].op.Value
<1>1. ASSUME NEW s \in Server, ConsensusStep(s) \/ LoopStep(s) PROVE UNCHANGED acked
  BY <1>1, QuietMoves
<1>2. ASSUME NEW h \in DOMAIN handler, HandlerStep(h) PROVE UNCHANGED acked
  BY <1>2, HandlerMoves
<1>3. ASSUME NEW c \in Clerk, ClerkStep(c), ~Return(c) PROVE UNCHANGED acked
  BY <1>3 DEF ClerkStep, Request, Retry, CallFails
<1>4. ASSUME NEW c \in Clerk, Return(c)
      PROVE  \/ v \in acked
             \/ \E h \in DOMAIN handler : /\ handler[h].err \in {"OK", "ErrNoKey"} /\ IsWrite(handler[h].op)
                                          /\ v = handler[h].op.Value
  <2>1. v \in acked \/ (IsWrite(clerk[c].op) /\ v = clerk[c].op.Value)
    BY <1>4 DEF Return
  <2>2. clerk[c].call # 0 /\ handler[clerk[c].call].err \in {"OK", "ErrNoKey"}
    BY <1>4 DEF Return
  <2>3. clerk[c].call \in DOMAIN handler /\ handler[clerk[c].call].op = clerk[c].op
    BY <2>2 DEF ClerksWait
  <2>4. QED
    BY <2>1, <2>2, <2>3
<1>5. QED
  BY <1>1, <1>2, <1>3, <1>4 DEF Next

\* Every step preserves AckedCommitted.
LEMMA AckedCommittedStep ==
    ASSUME Separate, KvTypeOK, ClerksWait, Issued, AnsweredCommitted, AckedCommitted, Next
    PROVE  AckedCommitted'
<1>1. SUFFICES ASSUME NEW v \in acked'
               PROVE  \E i \in 1..Len(committed) : committed[i].Value = v /\ IsWrite(committed[i])
  <2>1. \A i \in 1..Len(committed) : i \in 1..Len(committed') /\ committed'[i] = committed[i]
    BY CommittedKept
  <2>2. QED
    BY <1>1, <2>1 DEF AckedCommitted
<1>2. CASE v \in acked
  BY <1>2 DEF AckedCommitted
<1>3. ASSUME NEW h \in DOMAIN handler, handler[h].err \in {"OK", "ErrNoKey"}, IsWrite(handler[h].op),
             v = handler[h].op.Value
      PROVE  \E i \in 1..Len(committed) : committed[i].Value = v /\ IsWrite(committed[i])
  <2>1. PICK i \in 1..Len(committed) : SameRequest(committed[i], handler[h].op)
    BY <1>3 DEF AnsweredCommitted, Committed
  <2>2. committed[i] \in Used /\ handler[h].op \in Used /\ committed[i] \in Op /\ handler[h].op \in Op
    BY UsedThere
  <2>3. IsWrite(committed[i])
    BY <1>3, <2>1, <2>2 DEF Issued
  <2>4. committed[i].Value = v
    BY <1>3, <2>1, <2>2, SameValue
  <2>5. QED
    BY <2>3, <2>4
<1>4. QED
  BY <1>2, <1>3, AckedOnly

-----------------------------------------------------------------------------
\* The invariant holds initially.
LEMMA KvInvInit ==
    ASSUME Init PROVE KvInv
<1>1. /\ committed = <<>> /\ DOMAIN handler = {} /\ acked = {}
      /\ \A s \in Server : /\ raftLog[s] = <<>> /\ applied[s] = 0 /\ loop[s] = Idle /\ m_skipList[s] = Nothing
                           /\ executed[s] = <<>> /\ DOMAIN waitApplyCh[s] = {}
                           /\ \A c \in ClientId : m_lastRequestId[s][c] = 0
  BY DEF Init
<1>2. Len(committed) = 0 /\ \A s \in Server : Len(raftLog[s]) = 0
  BY <1>1
<1>3. Used = {}
  BY <1>1, <1>2 DEF Used, InUse
<1>4. \A s \in Server : Done(s) = 0 /\ loop[s].pc = "Pop"
  BY <1>1 DEF Done, Idle
<1>5. Issued /\ PriorCommitted /\ AnsweredCommitted /\ InOrder /\ ReadsDone /\ AckedCommitted
  BY <1>1, <1>2, <1>3 DEF Issued, PriorCommitted, AnsweredCommitted, InOrder, ReadsDone, AckedCommitted
<1>6. TakenCommitted
  BY <1>1, <1>2 DEF TakenCommitted
<1>7. LastIds
  BY <1>1, <1>4 DEF LastIds
<1>8. \A s \in Server : Range(executed[s]) = {} /\ IsInjective(executed[s])
  BY <1>1 DEF Range, IsInjective
<1>9. ExecutedWrites
  BY <1>4, <1>8 DEF ExecutedWrites
<1>10. StoresFollow
  BY <1>1, <1>4 DEF StoresFollow, LeftBy
<1>11. QED
  BY <1>5, <1>6, <1>7, <1>9, <1>10 DEF KvInv

\* The invariant is preserved by every step.
LEMMA KvInvStep ==
    ASSUME Separate, KvBase, KvInv, [Next]_vars PROVE KvInv'
<1>1. CASE Next
  <2>1. /\ KvTypeOK /\ ClerksWait /\ ChannelsOwned /\ ReadSteps
        /\ Issued /\ PriorCommitted /\ AnsweredCommitted /\ InOrder /\ TakenCommitted
        /\ LastIds /\ ReadsDone /\ ExecutedWrites /\ StoresFollow /\ AckedCommitted
    BY DEF KvBase, KvInv
  <2>2. Issued' /\ PriorCommitted' /\ AnsweredCommitted' /\ InOrder' /\ TakenCommitted'
    BY <1>1, <2>1, IssuedStep, PriorCommittedStep, AnsweredCommittedStep, InOrderStep, TakenCommittedStep
  <2>3. LastIds' /\ ReadsDone' /\ ExecutedWrites' /\ StoresFollow' /\ AckedCommitted'
    BY <1>1, <2>1, LastIdsStep, ReadsDoneStep, ExecutedWritesStep, StoresFollowStep, AckedCommittedStep
  <2>4. QED
    BY <2>2, <2>3 DEF KvInv
<1>2. CASE UNCHANGED vars
  <2>1. UNCHANGED <<raftLog, committed, applied, loop, m_skipList, m_lastRequestId, executed, lowered, waitApplyCh,
                    handler, clerk, acked>>
    BY <1>2 DEF vars, raftVars, storeVars, loopVars, clerkVars
  <2>2. Issued' /\ PriorCommitted' /\ AnsweredCommitted' /\ InOrder' /\ AckedCommitted'
    BY <2>1 DEF KvInv, Issued, PriorCommitted, AnsweredCommitted, InOrder, AckedCommitted, Used, InUse, Committed
  <2>3. TakenCommitted' /\ LastIds' /\ ReadsDone'
    BY <2>1 DEF KvInv, TakenCommitted, LastIds, ReadsDone, Done, Fresh
  <2>4. ExecutedWrites' /\ StoresFollow'
    BY <2>1 DEF KvInv, ExecutedWrites, StoresFollow, LeftBy, Done, Fresh
  <2>5. QED
    BY <2>2, <2>3, <2>4 DEF KvInv
<1>3. QED
  BY <1>1, <1>2

\* The inductive invariant of the three theorems below: clerks, handlers, wait
\* channels and apply loops agree on which requests are committed and executed.
THEOREM KvInvariant ==
    ASSUME Separate PROVE Spec => [](KvBase /\ KvInv)
<1>1. Init => KvBase /\ KvInv
  BY KvBaseInit, KvInvInit
<1>2. KvBase /\ KvInv /\ [Next]_vars => (KvBase /\ KvInv)'
  BY KvBaseStep, KvInvStep
<1>3. QED
  BY <1>1, <1>2, PTL DEF Spec

\* No server executes a write twice, however often its clerk has repeated it and in
\* whatever order the copies are committed: ifRequestDuplicate, which compares with
\* the last id only (kvServer.cpp), skips every copy but the first.  The one way to get
\* a write executed again is the late read that takes the last id back.
THEOREM WritesOnce ==
    ASSUME Separate PROVE Spec => []AppliedOnce
<1>1. KvInv => AppliedOnce
  BY DEF KvInv, ExecutedWrites, AppliedOnce
<1>2. QED
  BY <1>1, KvInvariant, PTL

\* Servers whose apply loops have taken the same messages hold the same data,
\* whichever of them were leaders and whichever handlers ran beside the loops, but for
\* a late read that takes the last id back.
THEOREM StoresAgree ==
    ASSUME Separate PROVE Spec => []ReplicasAgree
<1>1. ASSUME KvBase, KvInv PROVE ReplicasAgree
  <2>1. SUFFICES ASSUME NEW s \in Server \ lowered, NEW t \in Server \ lowered, loop[s] = Idle, loop[t] = Idle, applied[s] = applied[t]
                 PROVE  m_skipList[s] = m_skipList[t]
    BY DEF ReplicasAgree
  <2> DEFINE n == applied[s]
  <2>2. Done(s) = n /\ Done(t) = n
    BY <2>1 DEF Done, Idle
  <2>3. LeftBy(n, m_skipList[s]) /\ LeftBy(n, m_skipList[t]) /\ n \in Nat
    BY <1>1, <2>2 DEF KvInv, StoresFollow, KvBase, KvTypeOK
  <2> HIDE DEF n
  <2>4. ASSUME NEW v, NEW w, LeftBy(n, v), LeftBy(n, w) PROVE v = w
    <3>1. ASSUME NEW i \in 1..n, NEW j \in 1..n, Fresh(i), Fresh(j),
                 \A k \in (i + 1)..n : ~Fresh(k), \A k \in (j + 1)..n : ~Fresh(k)
          PROVE  i = j
      <4>1. ~(i < j)
        <5>1. i < j => j \in (i + 1)..n
          BY <2>3
        <5>2. QED
          BY <3>1, <5>1
      <4>2. ~(j < i)
        <5>1. j < i => i \in (j + 1)..n
          BY <2>3
        <5>2. QED
          BY <3>1, <5>1
      <4>3. QED
        BY <2>3, <4>1, <4>2
    <3>2. QED
      BY <2>4, <3>1 DEF LeftBy
  <2>5. QED
    BY <2>3, <2>4
<1>2. QED
  BY <1>1, KvInvariant, PTL

\* A write that PutAppend has answered with OK is committed, and executed by every
\* server that has got so far: no message in a wait channel of another request and
\* no time-out that finds the request executed makes the answer wrong.
THEOREM AcknowledgedKept ==
    ASSUME Separate PROVE Spec => []OkMeansApplied
<1>1. ASSUME KvBase, KvInv PROVE OkMeansApplied
  <2>1. SUFFICES ASSUME NEW v \in acked
                 PROVE  \E i \in 1..Len(committed) :
                           /\ committed[i].Value = v
                           /\ \A s \in Server : applied[s] > i \/ (applied[s] = i /\ loop[s] = Idle)
                                 => v \in Range(executed[s])
    BY DEF OkMeansApplied
  <2>2. PICK i \in 1..Len(committed) : committed[i].Value = v /\ IsWrite(committed[i])
    BY <1>1 DEF KvInv, AckedCommitted
  <2>3. ASSUME NEW s \in Server, applied[s] > i \/ (applied[s] = i /\ loop[s] = Idle)
        PROVE  v \in Range(executed[s])
    <3>1. applied[s] \in Nat /\ committed \in Seq(Op)
      BY <1>1 DEF KvBase, KvTypeOK
    <3>2. i \in Nat /\ i >= 1
      BY <3>1
    <3>3. i \in 1..Done(s)
      <4>1. CASE applied[s] > i
        <5>1. Done(s) = applied[s] \/ Done(s) = applied[s] - 1
          BY DEF Done
        <5>2. QED
          BY <3>1, <3>2, <4>1, <5>1
      <4>2. CASE applied[s] = i /\ loop[s] = Idle
        <5>1. Done(s) = applied[s]
          BY <4>2 DEF Done, Idle
        <5>2. QED
          BY <3>1, <3>2, <4>2, <5>1
      <4>3. QED
        BY <2>3, <4>1, <4>2
    <3>4. QED
      BY <1>1, <2>2, <3>3 DEF KvInv, ExecutedWrites
  <2>4. QED
    BY <2>2, <2>3
<1>2. QED
  BY <1>1, KvInvariant, PTL

-----------------------------------------------------------------------------
\* All requests are from one clerk.
OneClerk == \A c, d \in Clerk : c = d

\* v is the last of the acknowledged values that clerk c has written, if any.
Latest(values, c, v) ==
    \/ v = Nothing /\ \A w \in values : w[1] # c
    \/ v \in values /\ v[1] = c /\ \A w \in values : w[1] = c => w[2] <= v[2]

\* A write its clerk no longer waits for is acknowledged.
WritesAcked ==
    \A a \in Used :
        IsWrite(a) /\ (a.RequestId < clerk[Owner(a)].m_requestId \/ clerk[Owner(a)].call = 0)
            => a.Value \in acked

\* A read its clerk waits for is answered with the latest value, unless it has to be
\* tried again or the server is lowered.
ReadsAnswered ==
    \A h \in DOMAIN handler :
        /\ clerk[Owner(handler[h].op)].call = h /\ handler[h].server \notin lowered
        /\ ~IsWrite(handler[h].op) /\ handler[h].err \in {"OK", "ErrNoKey"}
        => Latest(acked, Owner(handler[h].op), handler[h].value)

\* A clerk has got the latest value from its last read.
ReadsReturned ==
    \A c \in Clerk :
        /\ clerk[c].call = 0 /\ clerk[c].op # Nothing /\ ~IsWrite(clerk[c].op)
        /\ clerk[c].server \notin lowered
        => Latest(acked, c, clerk[c].got)

\* What clerks have been told, on top of KvInv.
ReadInv == WritesAcked /\ ReadsAnswered /\ ReadsReturned

\* Of every committed write the first copy is Fresh.
LEMMA FreshCopy ==
    ASSUME KvTypeOK, Issued, InOrder, NEW i \in 1..Len(committed), IsWrite(committed[i])
    PROVE  \E k \in 1..i : Fresh(k) /\ SameRequest(committed[k], committed[i])
<1> DEFINE S == {k \in 1..i : SameRequest(committed[k], committed[i])}
           k == Min(S)
<1>0. i \in Nat /\ Len(committed) \in Nat /\ i >= 1 /\ i <= Len(committed)
  BY DEF KvTypeOK
<1>1. i \in S /\ S \in SUBSET Nat
  BY <1>0 DEF SameRequest
<1>2. k \in S /\ \A y \in S : k <= y
  BY <1>1, MinInSet
<1> HIDE DEF k
<1>3. k \in 1..i /\ k \in 1..Len(committed) /\ SameRequest(committed[k], committed[i])
  BY <1>0, <1>2
<1>4. IsWrite(committed[k])
  BY <1>3, UsedThere DEF Issued
<1>5. ASSUME NEW j \in 1..(k - 1), committed[j].ClientId = committed[k].ClientId
      PROVE  committed[j].RequestId < committed[k].RequestId
  <2>1. j \in 1..Len(committed) /\ j \in Nat /\ k \in Nat /\ j < k
    BY <1>0, <1>3
  <2>2. committed[j].RequestId \in Nat /\ committed[k].RequestId \in Nat
    BY <1>3, <2>1, UsedThere
  <2>3. ASSUME committed[k].RequestId <= committed[j].RequestId PROVE FALSE
    <3>1. PICK l \in 1..j : SameRequest(committed[l], committed[k])
      BY <1>3, <1>4, <1>5, <2>3, EarlierCopy
    <3>2. SameRequest(committed[l], committed[i])
      BY <1>3, <3>1 DEF SameRequest
    <3>3. l \in 1..i /\ l < k
      BY <1>0, <1>3, <2>1
    <3>4. QED
      BY <1>2, <2>1, <3>2, <3>3
  <2>4. QED
    BY <2>2, <2>3
<1>6. Fresh(k)
  BY <1>4, <1>5 DEF Fresh
<1>7. QED
  BY <1>3, <1>6

\* What a clerk with a read has written before is acknowledged, and the other way round.
LEMMA AckedBefore ==
    ASSUME Separate, OneClerk, KvTypeOK, ClerksWait, Issued, InOrder, AckedCommitted, WritesAcked,
           NEW h \in DOMAIN handler, clerk[Owner(handler[h].op)].call = h, ~IsWrite(handler[h].op),
           NEW j \in 1..Len(committed), SameRequest(committed[j], handler[h].op)
    PROVE  /\ \A i \in 1..Len(committed) : IsWrite(committed[i]) => committed[i].Value \in acked
           /\ \A w \in acked : w \in Written /\ \E k \in 1..j : Fresh(k) /\ committed[k].Value = w
<1> DEFINE o == handler[h].op
           c == Owner(o)
<1>0. /\ Len(committed) \in Nat /\ h # 0 /\ o \in Op /\ c \in Clerk /\ o.RequestId \in Nat /\ o \in Used
      /\ j \in Nat /\ j >= 1
  BY HandlerFields, OpFields, UsedThere, BoundsAssumption DEF KvTypeOK
<1>1. clerk[c].call = h
  OBVIOUS
<1>2. o.RequestId = clerk[c].m_requestId
  BY <1>0, <1>1 DEF ClerksWait
<1>3. ASSUME NEW i \in 1..Len(committed), IsWrite(committed[i])
      PROVE  /\ committed[i] \in Used /\ committed[i] \in Op /\ Owner(committed[i]) = c
             /\ committed[i].ClientId = o.ClientId
             /\ committed[i].RequestId \in Nat /\ committed[i].RequestId < o.RequestId
  <2>1. committed[i] \in Used /\ committed[i] \in Op /\ committed[i].RequestId \in Nat
        /\ Owner(committed[i]) \in Clerk
    BY UsedThere
  <2>2. Owner(committed[i]) = c
    BY <1>0, <2>1 DEF OneClerk
  <2>3. committed[i].ClientId = o.ClientId
    BY <1>0, <2>1, <2>2, OpFields
  <2>4. committed[i].RequestId <= o.RequestId
    BY <1>2, <2>1, <2>2 DEF Issued
  <2>5. committed[i].RequestId # o.RequestId
    BY <1>0, <1>3, <2>1, <2>3 DEF Issued, SameRequest
  <2>6. QED
    BY <1>0, <2>1, <2>2, <2>3, <2>4, <2>5
<1>4. ASSUME NEW i \in 1..Len(committed), IsWrite(committed[i]) PROVE committed[i].Value \in acked
  BY <1>2, <1>3, <1>4 DEF WritesAcked
<1>5. ASSUME NEW w \in acked
      PROVE  w \in Written /\ \E k \in 1..j : Fresh(k) /\ committed[k].Value = w
  <2>1. PICK i \in 1..Len(committed) : committed[i].Value = w /\ IsWrite(committed[i])
    BY DEF AckedCommitted
  <2>2. /\ committed[i] \in Op /\ committed[i].ClientId = o.ClientId
        /\ committed[i].RequestId \in Nat /\ committed[i].RequestId < o.RequestId
    BY <1>3, <2>1
  <2>3. PICK l \in 1..j : l \in 1..Len(committed) /\ SameRequest(committed[l], committed[i])
    <3>1. CASE i <= j
      BY <1>0, <3>1 DEF SameRequest
    <3>2. CASE j < i
      <4>1. committed[i].ClientId = committed[j].ClientId /\ committed[i].RequestId < committed[j].RequestId
        BY <2>2 DEF SameRequest
      <4>2. PICK l \in 1..(j - 1) : SameRequest(committed[l], committed[i])
        BY <2>1, <3>2, <4>1 DEF InOrder
      <4>3. QED
        BY <1>0, <4>2
    <3>3. QED
      BY <1>0, <3>1, <3>2
  <2>4. committed[l] \in Op /\ committed[l] \in Used /\ committed[i] \in Used
    BY <2>3, UsedThere
  <2>5. IsWrite(committed[l])
    BY <2>1, <2>3, <2>4 DEF Issued
  <2>6. PICK k \in 1..l : Fresh(k) /\ SameRequest(committed[k], committed[l])
    BY <2>3, <2>5, FreshCopy
  <2>7. k \in 1..j /\ k \in 1..Len(committed) /\ SameRequest(committed[k], committed[i])
    BY <1>0, <2>3, <2>6 DEF SameRequest
  <2>8. committed[k].Value = w
    BY <2>1, <2>2, <2>7, UsedThere, SameValue
  <2>9. w \in Written
    BY <2>1, <2>2, OpFields
  <2>10. QED
    BY <2>6, <2>7, <2>8, <2>9
<1>6. QED
  BY <1>4, <1>5

\* A read its clerk waits for finds the latest value in a store that follows the log.
LEMMA StoreIsLatest ==
    ASSUME Separate, OneClerk, KvBase, KvInv, WritesAcked, Next,
           NEW h \in DOMAIN handler, handler[h].pc = "Execute",
           clerk[Owner(handler[h].op)].call = h, handler[h].server \notin lowered
    PROVE  Latest(acked, Owner(handler[h].op), m_skipList[handler[h].server])
<1> DEFINE s == handler[h].server
           c == Owner(handler[h].op)
           v == m_skipList[s]
<1>0. /\ KvTypeOK /\ ClerksWait /\ ReadSteps
      /\ Issued /\ InOrder /\ TakenCommitted /\ ReadsDone /\ StoresFollow /\ AckedCommitted
  BY DEF KvBase, KvInv
<1>1. s \in Server /\ handler[h].op \in Op /\ c \in Clerk /\ ~IsWrite(handler[h].op)
  BY <1>0, HandlerFields, OpFields DEF ReadSteps
<1>2. PICK j \in 1..Done(s) : SameRequest(committed[j], handler[h].op)
  BY <1>0 DEF ReadsDone
<1>3. Done(s) \in Nat /\ Done(s) <= Len(committed) /\ Len(committed) \in Nat
  BY <1>0, <1>1, DoneStep
<1>4. PICK n : n = Done(s)
  OBVIOUS
<1>5. LeftBy(n, v)
  BY <1>0, <1>1, <1>4 DEF StoresFollow
<1> HIDE DEF s, c, v
<1>6. j \in 1..Len(committed) /\ j \in 1..n /\ n \in Nat /\ n <= Len(committed)
  BY <1>2, <1>3, <1>4
<1>7. /\ \A i \in 1..Len(committed) : IsWrite(committed[i]) => committed[i].Value \in acked
      /\ \A w \in acked : w \in Written /\ \E k \in 1..j : Fresh(k) /\ committed[k].Value = w
  BY <1>0, <1>1, <1>2, <1>6, AckedBefore
<1>8. \A w \in acked : w \in Written /\ \E k \in 1..n : Fresh(k) /\ committed[k].Value = w
  <2>1. 1..j \subseteq 1..n
    BY <1>6
  <2>2. QED
    BY <1>7, <2>1
<1>9. ASSUME v = Nothing, \A i \in 1..n : ~Fresh(i) PROVE Latest(acked, c, v)
  BY <1>8, <1>9 DEF Latest
<1>10. ASSUME NEW i \in 1..n, Fresh(i), v = committed[i].Value, \A k \in (i + 1)..n : ~Fresh(k)
       PROVE  Latest(acked, c, v)
  <2>1. i \in 1..Len(committed) /\ i \in Nat
    BY <1>6
  <2>2. v \in acked
    BY <1>7, <1>10, <2>1 DEF Fresh
  <2>3. committed[i] \in Op /\ Owner(committed[i]) \in Clerk
    BY <1>0, <2>1, UsedThere
  <2>4. v[1] = c /\ v[2] = committed[i].RequestId /\ committed[i].RequestId \in Nat
    BY <1>1, <1>10, <2>3, OpFields DEF OneClerk
  <2>5. ASSUME NEW w \in acked PROVE w[2] <= v[2]
    <3>1. PICK k \in 1..n : Fresh(k) /\ committed[k].Value = w
      BY <1>8
    <3>2. k \in 1..Len(committed) /\ k \in Nat
      BY <1>6
    <3>3. committed[k] \in Op /\ Owner(committed[k]) \in Clerk
      BY <1>0, <3>2, UsedThere
    <3>4. w[2] = committed[k].RequestId /\ committed[k].RequestId \in Nat
      BY <3>1, <3>3, OpFields
    <3>5. committed[k].ClientId = committed[i].ClientId
      BY <2>3, <3>3, OpFields DEF OneClerk
    <3>6. ~(i < k)
      <4>1. i < k => k \in (i + 1)..n
        BY <1>6, <2>1, <3>2
      <4>2. QED
        BY <1>10, <3>1, <4>1
    <3>7. CASE k = i
      BY <2>4, <3>4, <3>7
    <3>8. CASE k < i
      <4>1. k \in 1..(i - 1)
        BY <2>1, <3>2, <3>8
      <4>2. committed[k].RequestId < committed[i].RequestId
        BY <1>10, <3>5, <4>1 DEF Fresh
      <4>3. QED
        BY <2>4, <3>4, <4>2
    <3>9. QED
      BY <2>1, <3>2, <3>6, <3>7, <3>8
  <2>6. QED
    BY <2>2, <2>4, <2>5 DEF Latest
<1>11. Latest(acked, c, v)
  BY <1>5, <1>9, <1>10 DEF LeftBy
<1>12. QED
  BY <1>11 DEF s, c, v

-----------------------------------------------------------------------------
\* What a read has as its answer comes from the store, or is no value.
LEMMA ReadAnswers ==
    ASSUME KvTypeOK, NEW h \in DOMAIN handler, HandlerStep(h), ~Unclaimed(h), ~IsWrite(handler[h].op)
    PROVE  \/ handler'[h].err = "ErrWrongLeader"
           \/ handler'[h].err = handler[h].err /\ handler'[h].value = handler[h].value
           \/ handler[h].pc = "Execute" /\ handler'[h].value = m_skipList[handler[h].server]
<1>0. handler[h] \in Handler
  BY HandlerFields
<1>1. ASSUME NEW pc, Goto(h, pc)
      PROVE  handler'[h].err = handler[h].err /\ handler'[h].value = handler[h].value
  BY <1>0, <1>1 DEF Goto, Handler
<1>2. ASSUME NEW err, NEW value, NEW pc, Answer(h, err, value, pc)
      PROVE  handler'[h].err = err /\ handler'[h].value = value
  BY <1>0, <1>2 DEF Answer, Handler
<1>3. CASE Start(h)
  <2>1. CASE isLeader[handler[h].server]
    BY <1>0, <1>3, <2>1 DEF Start, Handler
  <2>2. CASE ~isLeader[handler[h].server]
    BY <1>2, <1>3, <2>2 DEF Start
  <2>3. QED
    BY <2>1, <2>2
<1>4. CASE MakeChannel(h)
  BY <1>1, <1>4 DEF MakeChannel
<1>5. CASE PopChannel(h)
  BY <1>1, <1>2, <1>5 DEF PopChannel
<1>6. CASE TimeOut(h)
  BY <1>1, <1>6 DEF TimeOut
<1>7. CASE GetState(h)
  BY <1>0, <1>7 DEF GetState, Handler
<1>8. CASE CheckDuplicate(h)
  BY <1>1, <1>2, <1>8 DEF CheckDuplicate
<1>9. CASE ExecuteGetOpOnKVDB(h)
  BY <1>2, <1>9 DEF ExecuteGetOpOnKVDB
<1>10. CASE EraseChannel(h)
  BY <1>1, <1>10 DEF EraseChannel
<1>11. QED
  BY <1>3, <1>4, <1>5, <1>6, <1>7, <1>8, <1>9, <1>10 DEF HandlerStep

\* Only a clerk that returns changes what is acknowledged.
LEMMA AckedByReturn ==
    ASSUME Next
    PROVE  /\ acked \subseteq acked'
           /\ UNCHANGED acked \/ \E c \in Clerk : Return(c)
<1>1. ASSUME NEW s \in Server, ConsensusStep(s) \/ LoopStep(s) PROVE UNCHANGED acked
  BY <1>1, QuietMoves
<1>2. ASSUME NEW h \in DOMAIN handler, HandlerStep(h) PROVE UNCHANGED acked
  BY <1>2 DEF HandlerStep, Start, MakeChannel, PopChannel, TimeOut, GetState, CheckDuplicate,
              ExecuteGetOpOnKVDB, EraseChannel, Unclaimed, clerkVars
<1>3. ASSUME NEW c \in Clerk, ClerkStep(c), ~Return(c) PROVE UNCHANGED acked
  BY <1>3 DEF ClerkStep, Request, Retry, CallFails
<1>4. ASSUME NEW c \in Clerk, Return(c) PROVE acked \subseteq acked'
  BY <1>4 DEF Return
<1>5. QED
  BY <1>1, <1>2, <1>3, <1>4 DEF Next

\* A clerk whose call ends returns, or begins another.
LEMMA ReturnsOnly ==
    ASSUME KvTypeOK, ClerksWait, Next, NEW c \in Clerk, clerk'[c].call = 0
    PROVE  clerk'[c] = clerk[c] \/ Return(c)
<1>1. ASSUME NEW s \in Server, ConsensusStep(s) \/ LoopStep(s) PROVE clerk'[c] = clerk[c]
  <2>1. UNCHANGED clerk
    BY <1>1, QuietMoves
  <2>2. QED
    BY <2>1
<1>2. ASSUME NEW h \in DOMAIN handler, HandlerStep(h) PROVE clerk'[c] = clerk[c]
  <2>1. UNCHANGED clerk
    BY <1>2, HandlerMoves
  <2>2. QED
    BY <2>1
<1>3. ASSUME NEW d \in Clerk, ClerkStep(d), d # c PROVE clerk'[c] = clerk[c]
  BY <1>3, ClerkHandlers
<1>4. ASSUME ClerkStep(c) PROVE Return(c)
  <2>0. clerk[c].server \in Server /\ NextServer(clerk[c].server) \in Server
    <3>1. clerk[c] \in ClerkState
      BY DEF KvTypeOK
    <3>2. QED
      BY <3>1, ServerNumbers DEF ClerkState
  <2>1. ASSUME NEW op \in Operation, Request(c, op) PROVE clerk'[c].call # 0
    BY <2>1, RequestMakes DEF Requested
  <2>2. ASSUME Retry(c) PROVE clerk'[c].call # 0
    <3>1. clerk[c].call # 0 /\ Try(c, NextServer(clerk[c].server), DOMAIN handler \ {clerk[c].call})
      BY <2>2 DEF Retry
    <3>2. \E n : Retried(c, n, DOMAIN handler \ {clerk[c].call})
      BY <2>0, <3>1, TryMakes
    <3>3. QED
      BY <3>2 DEF Retried
  <2>3. ASSUME CallFails(c) PROVE clerk'[c].call # 0
    <3>1. clerk[c].call # 0 /\ \E server \in Server : Try(c, server, DOMAIN handler)
      BY <2>0, <2>3 DEF CallFails
    <3>2. \E n : Retried(c, n, DOMAIN handler)
      BY <3>1, TryMakes
    <3>3. QED
      BY <3>2 DEF Retried
  <2>4. QED
    BY <1>4, <2>1, <2>2, <2>3 DEF ClerkStep
<1>5. QED
  BY <1>1, <1>2, <1>3, <1>4 DEF Next

\* Every step preserves WritesAcked: a clerk begins a request after the one before has returned.
LEMMA WritesAckedStep ==
    ASSUME Separate, KvTypeOK, ClerksWait, Issued, WritesAcked, Next
    PROVE  WritesAcked'
<1>1. SUFFICES ASSUME NEW a \in Used', IsWrite(a),
                      a.RequestId < clerk'[Owner(a)].m_requestId \/ clerk'[Owner(a)].call = 0
               PROVE  a.Value \in acked'
  BY DEF WritesAcked
<1> DEFINE c == Owner(a)
<1>2. ASSUME NEW n, NEW d \in Clerk, Requested(d, n, a) PROVE FALSE
  <2>1. /\ clerk'[c].m_requestId = a.RequestId /\ clerk'[c].call # 0 /\ a \in Op
    BY <1>2 DEF Requested
  <2>2. QED
    BY <1>1, <2>1, OpFields
<1>3. a \in Used
  BY <1>2, UsedStep
<1>4. c \in Clerk /\ a.RequestId \in Nat /\ clerk[c].m_requestId \in Nat /\ a \in Op
      /\ a.RequestId <= clerk[c].m_requestId
  BY <1>3, UsedThere DEF Issued
<1> HIDE DEF c
<1>5. ASSUME a.RequestId < clerk[c].m_requestId \/ clerk[c].call = 0 PROVE a.Value \in acked'
  BY <1>1, <1>3, <1>5, AckedByReturn DEF WritesAcked, c
<1>6. ASSUME NEW n, NEW op, Requested(c, n, op) PROVE a.Value \in acked'
  BY <1>5, <1>6 DEF Requested
<1>7. ASSUME Return(c), ~(a.RequestId < clerk[c].m_requestId) PROVE a.Value \in acked'
  <2>1. /\ clerk[c].call # 0
        /\ acked' = acked \cup (IF IsWrite(clerk[c].op) THEN {clerk[c].op.Value} ELSE {})
    BY <1>7 DEF Return
  <2>2. PICK o : o = clerk[c].op
    OBVIOUS
  <2>3. /\ clerk[c].call \in DOMAIN handler /\ handler[clerk[c].call].op = o
        /\ o \in Op /\ Owner(o) = c /\ o.RequestId = clerk[c].m_requestId
    BY <1>4, <2>1, <2>2 DEF ClerksWait
  <2>4. o \in Used
    BY <2>3, UsedThere
  <2>5. a.RequestId = o.RequestId
    BY <1>4, <1>7, <2>3
  <2>6. SameRequest(a, o)
    BY <1>4, <2>3, <2>5, OpFields DEF SameRequest, c
  <2>7. IsWrite(o) /\ a.Value = o.Value
    BY <1>1, <1>3, <1>4, <2>3, <2>4, <2>6, SameValue DEF Issued
  <2>8. QED
    BY <2>1, <2>2, <2>7
<1>8. CASE clerk'[c].m_requestId = clerk[c].m_requestId /\ clerk'[c].call = 0 /\ clerk[c].call # 0
  <2>1. Return(c)
    BY <1>4, <1>8, ReturnsOnly
  <2>2. QED
    BY <1>5, <1>7, <2>1
<1>9. QED
  BY <1>1, <1>4, <1>5, <1>6, <1>8, ClerkCounts DEF c

\* A call that has been answered is the one its clerk has waited for.
LEMMA AnsweredCall ==
    ASSUME KvTypeOK, ClerksWait, Next, NEW c \in Clerk, NEW h \in DOMAIN handler',
           clerk'[c].call = h, h # 0, handler'[h].err # ""
    PROVE  clerk[c].call = h
<1>1. ASSUME NEW s \in Server, ConsensusStep(s) \/ LoopStep(s) PROVE UNCHANGED clerk
  BY <1>1, QuietMoves
<1>2. ASSUME NEW g \in DOMAIN handler, HandlerStep(g) PROVE UNCHANGED clerk
  BY <1>2, HandlerMoves
<1>3. ASSUME NEW d \in Clerk, d # c, ClerkStep(d) PROVE clerk'[c] = clerk[c]
  BY <1>3, ClerkHandlers
<1>4. ASSUME ClerkStep(c) PROVE FALSE
  <2>1. ASSUME NEW n, NEW op, Requested(c, n, op) PROVE FALSE
    BY <2>1 DEF Requested
  <2>2. ASSUME NEW n, NEW others, Retried(c, n, others) PROVE FALSE
    BY <2>2 DEF Retried
  <2>3. ASSUME Returned(c, clerk[c].call) PROVE FALSE
    BY <2>3 DEF Returned
  <2>4. QED
    BY <1>4, <2>1, <2>2, <2>3, ClerkMoves
<1>5. QED
  BY <1>1, <1>2, <1>3, <1>4 DEF Next

\* Every step preserves ReadsAnswered: nothing is acknowledged while the only clerk waits for a read.
LEMMA ReadsAnsweredStep ==
    ASSUME Separate, OneClerk, KvBase, KvInv, WritesAcked, ReadsAnswered, Next
    PROVE  ReadsAnswered'
<1>0. KvTypeOK /\ ClerksWait /\ KvTypeOK'
  BY KvBaseStep DEF KvBase
<1>1. SUFFICES ASSUME NEW h \in DOMAIN handler', clerk'[Owner(handler'[h].op)].call = h,
                      handler'[h].server \notin lowered',
                      ~IsWrite(handler'[h].op), handler'[h].err \in {"OK", "ErrNoKey"}
               PROVE  Latest(acked', Owner(handler'[h].op), handler'[h].value)
  BY DEF ReadsAnswered
<1>6. h \in 1..MaxCalls /\ handler'[h] \in Handler /\ h # 0
  BY <1>0, BoundsAssumption DEF KvTypeOK
<1>7. Owner(handler'[h].op) \in Clerk
  BY <1>6, OpFields DEF Handler
<1>8. clerk[Owner(handler'[h].op)].call = h
  <2>1. handler'[h].err # ""
    BY <1>1
  <2>2. QED
    BY <1>0, <1>1, <1>6, <1>7, <2>1, AnsweredCall
<1>9. handler'[h].server \notin lowered
  BY <1>0, <1>1, LoweredGrows
<1>2. UNCHANGED acked
  <2>1. ASSUME NEW c \in Clerk, Return(c) PROVE FALSE
    <3>1. clerk'[c].call = 0
      BY <1>0, <2>1, ReturnMakes DEF Returned
    <3>2. Owner(handler'[h].op) = c
      BY <1>7 DEF OneClerk
    <3>3. QED
      BY <1>1, <1>6, <3>1, <3>2
  <2>2. QED
    BY <2>1, AckedByReturn
<1>3. CASE h \in DOMAIN handler /\ handler'[h] = handler[h]
  BY <1>1, <1>2, <1>3, <1>8, <1>9 DEF ReadsAnswered
<1>4. ASSUME h \in DOMAIN handler, HandlerStep(h), ~Unclaimed(h)
      PROVE  Latest(acked', Owner(handler'[h].op), handler'[h].value)
  <2>1. handler'[h].op = handler[h].op /\ handler'[h].server = handler[h].server
    BY <1>0, <1>4, HandlerMoves DEF Moved
  <2>2. ~IsWrite(handler[h].op)
    BY <1>1, <2>1
  <2>3. CASE handler'[h].err = handler[h].err /\ handler'[h].value = handler[h].value
    BY <1>1, <1>2, <1>4, <1>8, <1>9, <2>1, <2>2, <2>3 DEF ReadsAnswered
  <2>4. CASE handler[h].pc = "Execute" /\ handler'[h].value = m_skipList[handler[h].server]
    <3>1. Latest(acked, Owner(handler[h].op), m_skipList[handler[h].server])
      BY <1>4, <1>8, <1>9, <2>1, <2>4, StoreIsLatest
    <3>2. QED
      BY <1>2, <2>1, <2>4, <3>1
  <2>5. QED
    BY <1>0, <1>1, <1>4, <2>2, <2>3, <2>4, ReadAnswers
<1>5. QED
  BY <1>0, <1>1, <1>3, <1>4, HandlerKept

\* Every step preserves ReadsReturned: a clerk takes the answer of its call.
LEMMA ReadsReturnedStep ==
    ASSUME OneClerk, KvBase, ReadsAnswered, ReadsReturned, Next
    PROVE  ReadsReturned'
<1>0. KvTypeOK /\ ClerksWait
  BY DEF KvBase
<1>1. SUFFICES ASSUME NEW c \in Clerk, clerk'[c].call = 0, clerk'[c].op # Nothing, ~IsWrite(clerk'[c].op),
                      clerk'[c].server \notin lowered'
               PROVE  Latest(acked', c, clerk'[c].got)
  BY DEF ReadsReturned
<1>5. clerk'[c].server \notin lowered
  BY <1>0, <1>1, LoweredGrows
<1>2. CASE Return(c)
  <2>1. PICK h : h = clerk[c].call
    OBVIOUS
  <2>2. /\ h # 0 /\ h \in DOMAIN handler /\ handler[h].err \in {"OK", "ErrNoKey"}
        /\ handler[h].op = clerk[c].op /\ Owner(handler[h].op) = c
        /\ handler[h].server = clerk[c].server
    BY <1>0, <1>2, <2>1 DEF Return, ClerksWait
  <2>3. clerk'[c].op = clerk[c].op /\ clerk'[c].server = clerk[c].server
    BY <1>0, <1>2, ReturnMakes DEF Returned
  <2>4. clerk'[c].got = handler[h].value
    <3>1. clerk \in [Clerk -> ClerkState] /\ clerk[c] \in ClerkState
      BY <1>0 DEF KvTypeOK
    <3>2. QED
      BY <1>2, <2>1, <3>1 DEF Return, ClerkState
  <2>5. UNCHANGED acked
    BY <1>1, <1>2, <2>3 DEF Return
  <2>6. Latest(acked, c, handler[h].value)
    BY <1>1, <1>5, <2>1, <2>2, <2>3 DEF ReadsAnswered
  <2>7. QED
    BY <2>4, <2>5, <2>6
<1>3. CASE ~Return(c)
  <2>1. clerk'[c] = clerk[c]
    BY <1>0, <1>1, <1>3, ReturnsOnly
  <2>2. UNCHANGED acked
    BY <1>3, AckedByReturn DEF OneClerk
  <2>3. Latest(acked, c, clerk[c].got)
    BY <1>1, <1>5, <2>1 DEF ReadsReturned
  <2>4. QED
    BY <2>1, <2>2, <2>3
<1>4. QED
  BY <1>2, <1>3

\* What a Get returns is the last value its clerk has written, whichever server answers
\* it, from the wait channel or after a time-out, and however often the writes before it
\* have been repeated: Get reads the store after its own request has been applied, and
\* a copy of an older write that is committed later changes nothing (kvServer.cpp), but
\* on a server where a late read has taken the last id back.
THEOREM LastWriteRead ==
    ASSUME Separate, OneClerk PROVE Spec => []ReadYourWrites
<1>1. Init => ReadInv
  <2>1. SUFFICES ASSUME Init PROVE ReadInv
    OBVIOUS
  <2>2. /\ committed = <<>> /\ DOMAIN handler = {} /\ \A s \in Server : raftLog[s] = <<>>
        /\ \A c \in Clerk : clerk[c].op = Nothing
    BY <2>1 DEF Init
  <2>3. Used = {}
    BY <2>2 DEF Used, InUse
  <2>4. QED
    BY <2>2, <2>3 DEF ReadInv, WritesAcked, ReadsAnswered, ReadsReturned
<1>2. KvBase /\ KvInv /\ ReadInv /\ [Next]_vars => ReadInv'
  <2>1. SUFFICES ASSUME KvBase, KvInv, ReadInv, [Next]_vars PROVE ReadInv'
    OBVIOUS
  <2>2. CASE Next
    <3>1. KvTypeOK /\ ClerksWait /\ Issued /\ WritesAcked /\ ReadsAnswered /\ ReadsReturned
      BY <2>1 DEF KvBase, KvInv, ReadInv
    <3>2. QED
      BY <2>1, <2>2, <3>1, WritesAckedStep, ReadsAnsweredStep, ReadsReturnedStep DEF ReadInv
  <2>3. CASE UNCHANGED vars
    <3>1. UNCHANGED <<raftLog, committed, handler, clerk, acked, lowered>>
      BY <2>3 DEF vars, raftVars, storeVars, clerkVars
    <3>2. QED
      BY <2>1, <3>1 DEF ReadInv, WritesAcked, ReadsAnswered, ReadsReturned, Latest, Used, InUse
  <2>4. QED
    BY <2>1, <2>2, <2>3
<1>3. KvBase /\ KvInv /\ ReadInv => ReadYourWrites
  <2>1. SUFFICES ASSUME KvBase, KvInv, ReadInv, NEW c \in Clerk,
                        clerk[c].call = 0, clerk[c].op # Nothing, ~IsWrite(clerk[c].op),
                        clerk[c].server \notin lowered
                 PROVE  clerk[c].got = LET mine == {v[2] : v \in {w \in acked : w[1] = c}} IN
                                       IF mine = {} THEN Nothing ELSE <<c, Max(mine)>>
    BY DEF ReadYourWrites
  <2> DEFINE mine == {v[2] : v \in {w \in acked : w[1] = c}}
  <2>2. PICK v : v = clerk[c].got
    OBVIOUS
  <2>3. Latest(acked, c, v)
    BY <2>1, <2>2 DEF ReadInv, ReadsReturned
  <2>4. acked \subseteq Written
    <3>1. ASSUME NEW w \in acked PROVE w \in Written
      <4>1. PICK i \in 1..Len(committed) : committed[i].Value = w
        BY <2>1 DEF KvInv, AckedCommitted
      <4>2. committed[i] \in Op
        BY <2>1, <4>1, UsedThere DEF KvBase
      <4>3. QED
        BY <4>1, <4>2, OpFields
    <3>2. QED
      BY <3>1
  <2>5. CASE v = Nothing /\ \A w \in acked : w[1] # c
    <3>1. mine = {}
      BY <2>5
    <3>2. QED
      BY <2>2, <2>5, <3>1
  <2>6. CASE v \in acked /\ v[1] = c /\ \A w \in acked : w[1] = c => w[2] <= v[2]
    <3>1. v = <<c, v[2]>> /\ v[2] \in mine
      BY <2>4, <2>6 DEF Written
    <3>2. mine \subseteq Nat
      BY <2>4 DEF Written
    <3>3. \A y \in mine : v[2] >= y
      BY <2>4, <2>6 DEF Written
    <3> HIDE DEF mine
    <3>4. Max(mine) = v[2]
      <4>1. Max(mine) \in mine /\ \A y \in mine : Max(mine) >= y
        BY <3>1, <3>3 DEF Max
      <4>2. PICK x : x = Max(mine)
        OBVIOUS
      <4>3. PICK y : y = v[2]
        OBVIOUS
      <4>4. x \in Nat /\ y \in Nat /\ x >= y /\ y >= x
        BY <3>1, <3>2, <3>3, <4>1, <4>2, <4>3
      <4>5. x = y
        BY <4>4
      <4>6. QED
        BY <4>2, <4>3, <4>5
    <3>5. QED
      BY <2>2, <3>1, <3>4 DEF mine
  <2>7. QED
    BY <2>3, <2>5, <2>6 DEF Latest
<1>4. QED
  BY <1>1, <1>2, <1>3, KvInvariant, PTL DEF Spec
=============================================================================
