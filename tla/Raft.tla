-------------------------------- MODULE Raft --------------------------------
(***************************************************************************)
(* The consensus core, src/raftCore/raft.cpp.                              *)
(*                                                                         *)
(* Every member function of class Raft that changes state runs under       *)
(* m_mtx, so one action is one critical section.  A function that sends an *)
(* RPC does so from a detached thread without the lock and takes it again  *)
(* when the call returns; it is split there: the request, its execution by *)
(* the callee and the treatment of the answer are three actions, with any  *)
(* other step in between.  Requests and answers in flight are sets of      *)
(* records.  They are taken in any order, and none is taken twice, since a *)
(* call is executed and answered at most once; a call may fail before or   *)
(* after it is executed (CallFails).                                       *)
(*                                                                         *)
(* A failed myAssert (common/util.cpp) ends the process: the server's      *)
(* "exited" names the function whose assertion failed and it takes no      *)
(* further step.                                                           *)
(*                                                                         *)
(* Time is left out: an election or heartbeat timer may expire whenever    *)
(* the ticker's own conditions allow it.  persist() is left out too: what  *)
(* it writes is erased before it could be read (module Persister's         *)
(* constructor), see Restart.                                              *)
(***************************************************************************)
EXTENDS Integers, Sequences, FiniteSets

CONSTANTS
    Server,            \* the peers (m_peers, m_me)
    Command,           \* what a client may submit, serialised
    NoVote,            \* the -1 of m_votedFor
    MaxTerm,           \* bound on elections
    MaxLogIndex,       \* bound on Start
    MaxRound,          \* bound on the heartbeat rounds of one server
    MaxSnapshotIndex   \* bound on Snapshot; 0: no snapshots are taken

ASSUME ServerAssumption == IsFiniteSet(Server) /\ Cardinality(Server) > 1
ASSUME NoVoteAssumption == NoVote \notin Server
ASSUME BoundsAssumption ==
    MaxTerm \in Nat /\ MaxLogIndex \in Nat /\ MaxRound \in Nat /\ MaxSnapshotIndex \in Nat

VARIABLES
    exited,                      \* "running", or where a myAssert failed
    m_currentTerm, m_votedFor, m_status,
    m_logs,                      \* the entries after the snapshot
    m_lastSnapshotIncludeIndex, m_lastSnapshotIncludeTerm,
    m_commitIndex, m_lastApplied,
    m_nextIndex, m_matchIndex,
    votedNum,                    \* whom the latest election's counter has counted
    round,                       \* heartbeat rounds begun
    appendNums,                  \* per round: whom the round's counter has counted
    voteReq, voteRep,            \* RequestVote calls in flight, and their answers
    appendReq, appendRep,        \* AppendEntries
    snapThread,                  \* leaderSendSnapShot threads not yet holding the lock
    snapReq, snapRep,            \* InstallSnapshot
    elected                      \* history: every election won, and by whose votes

nodeVars   == <<m_currentTerm, m_votedFor, m_status>>
logVars    == <<m_logs, m_lastSnapshotIncludeIndex, m_lastSnapshotIncludeTerm>>
applyVars  == <<m_commitIndex, m_lastApplied>>
peerVars   == <<m_nextIndex, m_matchIndex>>
roundVars  == <<round, appendNums>>
voteVars   == <<voteReq, voteRep, votedNum, elected>>
appendVars == <<appendReq, appendRep>>
snapVars   == <<snapThread, snapReq, snapRep>>
vars == <<exited, nodeVars, logVars, applyVars, peerVars, roundVars,
          voteVars, appendVars, snapVars>>

Entry == [logterm: Nat, logindex: Nat, command: Command]

VoteArgs == [caller: Server, callee: Server, term: Nat,
             lastlogindex: Nat, lastlogterm: Nat]
VoteReply == [args: VoteArgs, term: Nat, votegranted: BOOLEAN]

AppendArgs == [caller: Server, callee: Server, round: Nat, term: Nat,
               prevlogindex: Nat, prevlogterm: Nat,
               entries: Seq(Entry), leadercommit: Nat]
AppendReply == [args: AppendArgs, term: Nat, success: BOOLEAN, updatenextindex: Int]

SnapCall == [caller: Server, callee: Server, round: Nat]
SnapArgs == [call: SnapCall, term: Nat,
             lastsnapshotincludeindex: Nat, lastsnapshotincludeterm: Nat]
SnapReply == [args: SnapArgs, term: Nat]

-----------------------------------------------------------------------------
\* Helpers, named after the functions they model.

Running(s) == exited[s] = "running"

\* m_peers.size() / 2 + 1
Majority == Cardinality(Server) \div 2 + 1

MaxOf(a, b) == IF a > b THEN a ELSE b
MinOf(a, b) == IF a < b THEN a ELSE b

\* Mutation: the snapshot is forgotten when the log is empty.
LastIndexOf_Mutant(log, snapIndex) == IF log = <<>> THEN -1 ELSE log[Len(log)].logindex

LastIndexOf(log, snapIndex) == IF log = <<>> THEN snapIndex ELSE log[Len(log)].logindex

getLastLogIndex(s) == LastIndexOf(m_logs[s], m_lastSnapshotIncludeIndex[s])

getLastLogTerm(s) ==
    IF m_logs[s] = <<>> THEN m_lastSnapshotIncludeTerm[s]
    ELSE m_logs[s][Len(m_logs[s])].logterm

\* The slot of a log index, counted from 1; the callers respect the two
\* assertions of the function: the index is after the snapshot, up to the last.
getSlicesIndexFromLogIndex(s, i) == i - m_lastSnapshotIncludeIndex[s]

InLog(s, i) == m_lastSnapshotIncludeIndex[s] < i /\ i <= getLastLogIndex(s)

EntryAt(s, i) == m_logs[s][getSlicesIndexFromLogIndex(s, i)]

\* Mutation: the first entry is left out.
EntriesAfter_Mutant(s, i) ==
    SubSeq(m_logs[s], getSlicesIndexFromLogIndex(s, i) + 2, Len(m_logs[s]))

\* The entries that follow index i, which is the snapshot's index or in the log.
EntriesAfter(s, i) ==
    SubSeq(m_logs[s], getSlicesIndexFromLogIndex(s, i) + 1, Len(m_logs[s]))

getLogTermFromLogIndex(s, i) ==
    IF i = m_lastSnapshotIncludeIndex[s] THEN m_lastSnapshotIncludeTerm[s]
    ELSE EntryAt(s, i).logterm

\* The assertion of matchLog, and its result.
MatchLogDefined(s, i) == m_lastSnapshotIncludeIndex[s] <= i /\ i <= getLastLogIndex(s)
matchLog(s, i, t) == t = getLogTermFromLogIndex(s, i)

UpToDate(s, index, term) ==
    \/ term > getLastLogTerm(s)
    \/ term = getLastLogTerm(s) /\ index >= getLastLogIndex(s)

\* myAssert(false, ...) in the named function: the process is gone.
Exit(s, where) == exited' = [exited EXCEPT ![s] = where]

\* What every function does that meets a higher term.
StepDown(s, t) ==
    /\ m_status' = [m_status EXCEPT ![s] = "Follower"]
    /\ m_currentTerm' = [m_currentTerm EXCEPT ![s] = t]
    /\ m_votedFor' = [m_votedFor EXCEPT ![s] = NoVote]

\* AppendEntries1 and InstallSnapshot at a callee whose term is not higher.
FollowCaller(s, t) ==
    /\ m_status' = [m_status EXCEPT ![s] = "Follower"]
    /\ m_currentTerm' = [m_currentTerm EXCEPT ![s] = t]
    /\ m_votedFor' = [m_votedFor EXCEPT ![s] = IF t > m_currentTerm[s] THEN NoVote ELSE @]

-----------------------------------------------------------------------------
\* Raft::init, with a persister whose files its constructor has just emptied.
Init ==
    /\ exited = [s \in Server |-> "running"]
    /\ m_currentTerm = [s \in Server |-> 0]
    /\ m_votedFor = [s \in Server |-> NoVote]
    /\ m_status = [s \in Server |-> "Follower"]
    /\ m_logs = [s \in Server |-> <<>>]
    /\ m_lastSnapshotIncludeIndex = [s \in Server |-> 0]
    /\ m_lastSnapshotIncludeTerm = [s \in Server |-> 0]
    /\ m_commitIndex = [s \in Server |-> 0]
    /\ m_lastApplied = [s \in Server |-> 0]
    /\ m_nextIndex = [s \in Server |-> [i \in Server |-> 0]]
    /\ m_matchIndex = [s \in Server |-> [i \in Server |-> 0]]
    /\ votedNum = [s \in Server |-> {}]
    /\ round = [s \in Server |-> 0]
    /\ appendNums = [s \in Server |-> [r \in 1..MaxRound |-> {}]]
    /\ voteReq = {} /\ voteRep = {}
    /\ appendReq = {} /\ appendRep = {}
    /\ snapThread = {} /\ snapReq = {} /\ snapRep = {}
    /\ elected = {}

-----------------------------------------------------------------------------
\* Elections.

RequestVoteArgs(s, i) ==
    [caller |-> s, callee |-> i, term |-> m_currentTerm[s] + 1,
     lastlogindex |-> getLastLogIndex(s), lastlogterm |-> getLastLogTerm(s)]

doElection(s) ==
    /\ m_status[s] # "Leader"
    /\ m_currentTerm[s] < MaxTerm
    /\ m_status' = [m_status EXCEPT ![s] = "Candidate"]
    /\ m_currentTerm' = [m_currentTerm EXCEPT ![s] = @ + 1]
    /\ m_votedFor' = [m_votedFor EXCEPT ![s] = s]
    /\ votedNum' = [votedNum EXCEPT ![s] = {s}]
    /\ voteReq' = voteReq \cup {RequestVoteArgs(s, i) : i \in Server \ {s}}
    /\ UNCHANGED <<exited, logVars, applyVars, peerVars, roundVars,
                   voteRep, elected, appendVars, snapVars>>

\* The ticker reads m_status and m_lastResetElectionTime without the lock and
\* may call doElection although a heartbeat has just reset the timer: the timer
\* restrains nothing, only doElection's own test under the lock does.
electionTimeOutTicker(s) == Running(s) /\ doElection(s)

RejectVote(s, m) ==
    /\ m.term < m_currentTerm[s]
    /\ voteRep' = voteRep \cup {[args |-> m, term |-> m_currentTerm[s], votegranted |-> FALSE]}
    /\ UNCHANGED nodeVars

\* The vote of the term of call m as far as it is given.
VoteOfTerm(s, m) == IF m.term > m_currentTerm[s] THEN NoVote ELSE m_votedFor[s]

\* Mutation: a vote already given in this term is not looked at.
FreeToVote_Mutant(s, m) == TRUE

FreeToVote(s, m) == VoteOfTerm(s, m) \in {NoVote, m.caller}

\* Mutation: a call of the same term resets the status as well.
StatusAfterVote_Mutant(s, m) == "Follower"

StatusAfterVote(s, m) == IF m.term > m_currentTerm[s] THEN "Follower" ELSE m_status[s]

DecideVote(s, m) ==
    LET grant == UpToDate(s, m.lastlogindex, m.lastlogterm) /\ FreeToVote(s, m) IN
    /\ m.term >= m_currentTerm[s]
    /\ m_status' = [m_status EXCEPT ![s] = StatusAfterVote(s, m)]
    /\ m_currentTerm' = [m_currentTerm EXCEPT ![s] = m.term]
    /\ m_votedFor' = [m_votedFor EXCEPT ![s] = IF grant THEN m.caller ELSE VoteOfTerm(s, m)]
    /\ voteRep' = voteRep \cup {[args |-> m, term |-> m.term, votegranted |-> grant]}

RequestVote(s) ==
    /\ Running(s)
    /\ \E m \in voteReq :
        /\ m.callee = s
        /\ voteReq' = voteReq \ {m}
        /\ RejectVote(s, m) \/ DecideVote(s, m)
    /\ UNCHANGED <<exited, logVars, applyVars, peerVars, roundVars,
                   votedNum, elected, appendVars, snapVars>>

\* What is left in the counter of votes, or of a round's answers.
Tally(counted) == IF Cardinality(counted) >= Majority THEN {} ELSE counted

\* A granted vote of the current term is counted; the counter is emptied when
\* it reaches the majority and the candidate becomes leader.
CountVote(s, r) ==
    LET counted == votedNum[s] \cup {r.args.callee}
        wins == Cardinality(counted) >= Majority
    IN
    IF wins /\ m_status[s] = "Leader"
    THEN /\ Exit(s, "sendRequestVote")
         /\ UNCHANGED <<nodeVars, peerVars, votedNum, elected>>
    ELSE /\ votedNum' = [votedNum EXCEPT ![s] = Tally(counted)]
         /\ m_status' = [m_status EXCEPT ![s] = IF wins THEN "Leader" ELSE @]
         /\ m_nextIndex' = [m_nextIndex EXCEPT ![s] =
                IF wins THEN [i \in Server |-> getLastLogIndex(s) + 1] ELSE @]
         /\ m_matchIndex' = [m_matchIndex EXCEPT ![s] =
                IF wins THEN [i \in Server |-> 0] ELSE @]
         /\ elected' = elected \cup
                (IF wins THEN {[term |-> m_currentTerm[s], leader |-> s, quorum |-> counted]}
                 ELSE {})
         /\ UNCHANGED <<exited, m_currentTerm, m_votedFor>>

\* The part of sendRequestVote after the call has returned.
sendRequestVote(s) ==
    /\ Running(s)
    /\ \E r \in voteRep :
        /\ r.args.caller = s
        /\ voteRep' = voteRep \ {r}
        /\ \/ /\ r.term > m_currentTerm[s]
              /\ StepDown(s, r.term)
              /\ UNCHANGED <<exited, peerVars, votedNum, elected>>
           \/ /\ r.term < m_currentTerm[s] \/ (r.term = m_currentTerm[s] /\ ~r.votegranted)
              /\ UNCHANGED <<exited, nodeVars, peerVars, votedNum, elected>>
           \/ /\ r.term = m_currentTerm[s] /\ r.votegranted
              /\ CountVote(s, r)
    /\ UNCHANGED <<logVars, applyVars, roundVars, voteReq, appendVars, snapVars>>

-----------------------------------------------------------------------------
\* Replication.

\* Mutation: a server that is not leader accepts commands, too.
AcceptsCommands_Mutant(s) == TRUE

AcceptsCommands(s) == m_status[s] = "Leader"

Start(s, command) ==
    /\ Running(s)
    /\ AcceptsCommands(s)
    /\ getLastLogIndex(s) < MaxLogIndex
    /\ m_logs' = [m_logs EXCEPT ![s] =
           Append(@, [logterm |-> m_currentTerm[s],
                      logindex |-> getLastLogIndex(s) + 1,
                      command |-> command])]
    /\ UNCHANGED <<exited, nodeVars, m_lastSnapshotIncludeIndex, m_lastSnapshotIncludeTerm,
                   applyVars, peerVars, roundVars, voteVars, appendVars, snapVars>>

\* The assertions of doHeartBeat and of getPrevLogInfo for one peer.
NextIndexUsable(s, i) ==
    /\ m_nextIndex[s][i] >= 1
    /\ m_nextIndex[s][i] <= getLastLogIndex(s) + 1

NeedsSnapshot(s) ==
    {i \in Server \ {s} : m_nextIndex[s][i] <= m_lastSnapshotIncludeIndex[s]}

\* Everything after nextIndex - 1, with the term at nextIndex - 1 (getPrevLogInfo).
AppendEntriesArgs(s, i) ==
    LET prev == m_nextIndex[s][i] - 1 IN
    [caller |-> s, callee |-> i, round |-> round[s] + 1, term |-> m_currentTerm[s],
     prevlogindex |-> prev,
     prevlogterm |-> getLogTermFromLogIndex(s, prev),
     entries |-> EntriesAfter(s, prev),
     leadercommit |-> m_commitIndex[s]]

doHeartBeat(s) ==
    /\ m_status[s] = "Leader"
    /\ round[s] < MaxRound
    /\ IF \A i \in Server \ {s} : NextIndexUsable(s, i)
       THEN /\ round' = [round EXCEPT ![s] = @ + 1]
            /\ appendNums' = [appendNums EXCEPT ![s][round[s] + 1] = {s}]
            /\ appendReq' = appendReq \cup
                 {AppendEntriesArgs(s, i) : i \in (Server \ {s}) \ NeedsSnapshot(s)}
            /\ snapThread' = snapThread \cup
                 {[caller |-> s, callee |-> i, round |-> round[s] + 1] : i \in NeedsSnapshot(s)}
            /\ UNCHANGED exited
       ELSE Exit(s, "doHeartBeat") /\ UNCHANGED <<roundVars, appendReq, snapThread>>
    /\ UNCHANGED <<nodeVars, logVars, applyVars, peerVars, voteVars, appendRep,
                   snapReq, snapRep>>

\* Called by the ticker when the heartbeat is due and from a thread of its own
\* after an election: in either case at any later moment, and it does something
\* only if the server is still, or again, leader.
leaderHearBeatTicker(s) == Running(s) /\ doHeartBeat(s)

AnswerAppend(m, t, ok, next) ==
    appendRep' = appendRep \cup
        {[args |-> m, term |-> t, success |-> ok, updatenextindex |-> next]}

RejectStaleAppend(s, m) ==
    /\ m.term < m_currentTerm[s]
    /\ AnswerAppend(m, m_currentTerm[s], FALSE, -100)
    /\ UNCHANGED <<exited, nodeVars, m_logs, m_commitIndex>>

RejectGap(s, m) ==
    /\ m.term >= m_currentTerm[s]
    /\ m.prevlogindex > getLastLogIndex(s)
    /\ FollowCaller(s, m.term)
    /\ AnswerAppend(m, m.term, FALSE, getLastLogIndex(s) + 1)
    /\ UNCHANGED <<exited, m_logs, m_commitIndex>>

\* The branch for prevlogindex below the snapshot fills in the answer but does
\* not return; matchLog then fails its assertion.
FailInMatchLog(s, m) ==
    /\ m.term >= m_currentTerm[s]
    /\ m.prevlogindex <= getLastLogIndex(s)
    /\ ~MatchLogDefined(s, m.prevlogindex)
    /\ Exit(s, "matchLog")
    /\ UNCHANGED <<nodeVars, m_logs, m_commitIndex, appendRep>>

\* Mutation: the log is cut behind the entries received, even if nothing conflicts.
Merged_Mutant(s, m) ==
    SubSeq(m_logs[s], 1, getSlicesIndexFromLogIndex(s, m.prevlogindex)) \o m.entries

\* Slot k of the log after the loop over the entries: an entry beyond the end is
\* appended, one with another term than the slot's replaces it, nothing is removed.
Merged(s, m) ==
    LET off == getSlicesIndexFromLogIndex(s, m.prevlogindex)
        log == m_logs[s]
    IN  [k \in 1..MaxOf(Len(log), off + Len(m.entries)) |->
            IF k \in (off + 1)..(off + Len(m.entries))
               /\ (k > Len(log) \/ log[k].logterm # m.entries[k - off].logterm)
            THEN m.entries[k - off]
            ELSE log[k]]

\* The loop's assertion: same index and term, same command.
CommandsAgree(s, m) ==
    \A k \in 1..Len(m.entries) :
        LET e == m.entries[k] IN
        InLog(s, e.logindex) /\ EntryAt(s, e.logindex).logterm = e.logterm
            => EntryAt(s, e.logindex).command = e.command

AcceptAppend(s, m) ==
    LET log == Merged(s, m)
        last == LastIndexOf(log, m_lastSnapshotIncludeIndex[s])
        commit == IF m.leadercommit > m_commitIndex[s]
                  THEN MinOf(m.leadercommit, last) ELSE m_commitIndex[s]
    IN
    /\ m.term >= m_currentTerm[s]
    /\ MatchLogDefined(s, m.prevlogindex)
    /\ matchLog(s, m.prevlogindex, m.prevlogterm)
    /\ IF /\ CommandsAgree(s, m)
          /\ last >= m.prevlogindex + Len(m.entries)
          /\ last >= commit
       THEN /\ FollowCaller(s, m.term)
            /\ m_logs' = [m_logs EXCEPT ![s] = log]
            /\ m_commitIndex' = [m_commitIndex EXCEPT ![s] = commit]
            /\ AnswerAppend(m, m.term, TRUE, 0)
            /\ UNCHANGED exited
       ELSE /\ Exit(s, "AppendEntries1")
            /\ UNCHANGED <<nodeVars, m_logs, m_commitIndex, appendRep>>

\* Mutation: the index found is returned instead of the one after it.
BacksUpTo_Mutant(s, prev, next) ==
    /\ next >= m_lastSnapshotIncludeIndex[s]
    /\ getLogTermFromLogIndex(s, next) # getLogTermFromLogIndex(s, prev)
    /\ \A i \in (next + 1)..prev : getLogTermFromLogIndex(s, i) = getLogTermFromLogIndex(s, prev)

\* Where the leader is to continue: the loop searches backwards from prev for an
\* entry of another term, and stops at the snapshot.
BacksUpTo(s, prev, next) ==
    LET differs(i) == getLogTermFromLogIndex(s, i) # getLogTermFromLogIndex(s, prev)
        snap == m_lastSnapshotIncludeIndex[s]
    IN  \/ next = prev /\ \A i \in snap..prev : ~differs(i)
        \/ /\ next > snap
           /\ differs(next - 1)
           /\ \A i \in next..prev : ~differs(i)

RejectMismatch(s, m) ==
    /\ m.term >= m_currentTerm[s]
    /\ MatchLogDefined(s, m.prevlogindex)
    /\ ~matchLog(s, m.prevlogindex, m.prevlogterm)
    /\ FollowCaller(s, m.term)
    /\ \E next \in 0..m.prevlogindex :
          /\ BacksUpTo(s, m.prevlogindex, next)
          /\ AnswerAppend(m, m.term, FALSE, next)
    /\ UNCHANGED <<exited, m_logs, m_commitIndex>>

AppendEntries1(s) ==
    /\ Running(s)
    /\ \E m \in appendReq :
        /\ m.callee = s
        /\ appendReq' = appendReq \ {m}
        /\ \/ RejectStaleAppend(s, m)
           \/ RejectGap(s, m)
           \/ FailInMatchLog(s, m)
           \/ AcceptAppend(s, m)
           \/ RejectMismatch(s, m)
    /\ UNCHANGED <<m_lastSnapshotIncludeIndex, m_lastSnapshotIncludeTerm, m_lastApplied,
                   peerVars, roundVars, voteVars, snapVars>>

\* Mutation: the leader commits its own last entry, not the last one of the call.
CommitAfter_Mutant(s, args) ==
    IF getLastLogTerm(s) = m_currentTerm[s] THEN getLastLogIndex(s) ELSE m_commitIndex[s]

CommitAfter(s, args) ==
    LET n == Len(args.entries) IN
    IF n > 0 /\ args.entries[n].logterm = m_currentTerm[s]
    THEN MaxOf(m_commitIndex[s], args.prevlogindex + n)
    ELSE m_commitIndex[s]

\* success: count the answer and, when this round's counter reaches the majority,
\* commit what THIS call carried if it ends in an entry of the current term.
CountAppend(s, r) ==
    LET i == r.args.callee
        match == MaxOf(m_matchIndex[s][i], r.args.prevlogindex + Len(r.args.entries))
        counted == appendNums[s][r.args.round] \cup {i}
        reached == Cardinality(counted) >= Majority
        commit == IF reached THEN CommitAfter(s, r.args) ELSE m_commitIndex[s]
    IN
    IF match <= getLastLogIndex(s) /\ (reached => commit <= getLastLogIndex(s))
    THEN /\ appendNums' = [appendNums EXCEPT ![s][r.args.round] = Tally(counted)]
         /\ m_matchIndex' = [m_matchIndex EXCEPT ![s][i] = match]
         /\ m_nextIndex' = [m_nextIndex EXCEPT ![s][i] = match + 1]
         /\ m_commitIndex' = [m_commitIndex EXCEPT ![s] = commit]
         /\ UNCHANGED exited
    ELSE /\ Exit(s, "sendAppendEntries")
         /\ UNCHANGED <<appendNums, peerVars, m_commitIndex>>

\* The part of sendAppendEntries after the call has returned.
sendAppendEntries(s) ==
    /\ Running(s)
    /\ \E r \in appendRep :
        /\ r.args.caller = s
        /\ appendRep' = appendRep \ {r}
        /\ \/ /\ r.term > m_currentTerm[s]
              /\ StepDown(s, r.term)
              /\ UNCHANGED <<exited, peerVars, appendNums, m_commitIndex>>
           \/ /\ \/ r.term < m_currentTerm[s]
                 \/ r.term = m_currentTerm[s] /\ m_status[s] # "Leader"
              /\ UNCHANGED <<exited, nodeVars, peerVars, appendNums, m_commitIndex>>
           \/ /\ r.term = m_currentTerm[s] /\ m_status[s] = "Leader" /\ ~r.success
              /\ m_nextIndex' = [m_nextIndex EXCEPT ![s][r.args.callee] =
                     IF r.updatenextindex # -100 THEN r.updatenextindex ELSE @]
              /\ UNCHANGED <<exited, nodeVars, m_matchIndex, appendNums, m_commitIndex>>
           \/ /\ r.term = m_currentTerm[s] /\ m_status[s] = "Leader" /\ r.success
              /\ CountAppend(s, r)
              /\ UNCHANGED nodeVars
    /\ UNCHANGED <<logVars, m_lastApplied, round, voteVars, appendReq, snapVars>>

-----------------------------------------------------------------------------
\* Applying and snapshots.

\* The loop of getApplyLogs takes over everything committed; the messages for
\* the key-value server are pushed after the lock is released.
getApplyLogs(s) ==
    IF /\ m_commitIndex[s] <= getLastLogIndex(s)
       /\ \A i \in (m_lastApplied[s] + 1)..m_commitIndex[s] :
             InLog(s, i) /\ EntryAt(s, i).logindex = i
    THEN /\ m_lastApplied' = [m_lastApplied EXCEPT ![s] = m_commitIndex[s]]
         /\ UNCHANGED exited
    ELSE Exit(s, "getApplyLogs") /\ UNCHANGED m_lastApplied

applierTicker(s) ==
    /\ Running(s)
    /\ m_lastApplied[s] < m_commitIndex[s]
    /\ getApplyLogs(s)
    /\ UNCHANGED <<nodeVars, logVars, m_commitIndex, peerVars, roundVars,
                   voteVars, appendVars, snapVars>>

\* Mutation: m_lastApplied is not moved past the entries that are cut off.
AppliedAfterCut_Mutant(s, index) == m_lastApplied[s]

AppliedAfterCut(s, index) == MaxOf(m_lastApplied[s], index)

\* Mutation: a higher m_commitIndex is lowered to the snapshot's index.
CommitAfterCut_Mutant(s, index) == index

CommitAfterCut(s, index) == MaxOf(m_commitIndex[s], index)

\* The server's state when its log up to index is replaced by a snapshot.
CutLog(s, index, term, rest) ==
    /\ m_logs' = [m_logs EXCEPT ![s] = rest]
    /\ m_lastSnapshotIncludeIndex' = [m_lastSnapshotIncludeIndex EXCEPT ![s] = index]
    /\ m_lastSnapshotIncludeTerm' = [m_lastSnapshotIncludeTerm EXCEPT ![s] = term]
    /\ m_commitIndex' = [m_commitIndex EXCEPT ![s] = CommitAfterCut(s, index)]
    /\ m_lastApplied' = [m_lastApplied EXCEPT ![s] = AppliedAfterCut(s, index)]

\* The key-value server hands down a snapshot of what it has applied so far.
Snapshot(s, index) ==
    LET rest == EntriesAfter(s, index) IN
    /\ Running(s)
    /\ index <= m_lastApplied[s]
    /\ m_lastSnapshotIncludeIndex[s] < index /\ index <= m_commitIndex[s]
    /\ IF InLog(s, index) /\ Len(rest) + index = getLastLogIndex(s)
       THEN CutLog(s, index, EntryAt(s, index).logterm, rest) /\ UNCHANGED exited
       ELSE Exit(s, "Snapshot") /\ UNCHANGED <<logVars, applyVars>>
    /\ UNCHANGED <<nodeVars, peerVars, roundVars, voteVars, appendVars, snapVars>>

\* The first part of leaderSendSnapShot.  The thread was started by a leader's
\* heartbeat but takes term and snapshot from the server as it is now, whether
\* it still is leader or not.
SendSnapShot(s) ==
    /\ Running(s)
    /\ \E c \in snapThread :
        /\ c.caller = s
        /\ snapThread' = snapThread \ {c}
        /\ snapReq' = snapReq \cup
             {[call |-> c, term |-> m_currentTerm[s],
               lastsnapshotincludeindex |-> m_lastSnapshotIncludeIndex[s],
               lastsnapshotincludeterm |-> m_lastSnapshotIncludeTerm[s]]}
    /\ UNCHANGED <<exited, nodeVars, logVars, applyVars, peerVars, roundVars,
                   voteVars, appendVars, snapRep>>

AnswerSnapshot(m, t) == snapRep' = snapRep \cup {[args |-> m, term |-> t]}

\* A snapshot not newer than the callee's is ignored, and the answer's term left
\* at its default.
IgnoreSnapshot(s, m) ==
    /\ m.term >= m_currentTerm[s]
    /\ m.lastsnapshotincludeindex <= m_lastSnapshotIncludeIndex[s]
    /\ FollowCaller(s, m.term)
    /\ AnswerSnapshot(m, 0)
    /\ UNCHANGED <<logVars, applyVars>>

\* What follows the snapshot stays in the log, whatever term the entry at the
\* snapshot's index has.
TakeSnapshot(s, m) ==
    LET index == m.lastsnapshotincludeindex
        rest == IF getLastLogIndex(s) > index THEN EntriesAfter(s, index) ELSE <<>>
    IN
    /\ m.term >= m_currentTerm[s]
    /\ index > m_lastSnapshotIncludeIndex[s]
    /\ FollowCaller(s, m.term)
    /\ CutLog(s, index, m.lastsnapshotincludeterm, rest)
    /\ AnswerSnapshot(m, m.term)

InstallSnapshot(s) ==
    /\ Running(s)
    /\ \E m \in snapReq :
        /\ m.call.callee = s
        /\ snapReq' = snapReq \ {m}
        /\ \/ /\ m.term < m_currentTerm[s]
              /\ AnswerSnapshot(m, m_currentTerm[s])
              /\ UNCHANGED <<nodeVars, logVars, applyVars>>
           \/ IgnoreSnapshot(s, m)
           \/ TakeSnapshot(s, m)
    /\ UNCHANGED <<exited, peerVars, roundVars, voteVars, appendVars, snapThread>>

\* The second part of leaderSendSnapShot.
leaderSendSnapShot(s) ==
    /\ Running(s)
    /\ \E r \in snapRep :
        LET i == r.args.call.callee
            index == r.args.lastsnapshotincludeindex
        IN
        /\ r.args.call.caller = s
        /\ snapRep' = snapRep \ {r}
        /\ \/ /\ m_status[s] # "Leader" \/ m_currentTerm[s] # r.args.term
              /\ UNCHANGED <<nodeVars, peerVars>>
           \/ /\ m_status[s] = "Leader" /\ m_currentTerm[s] = r.args.term
              /\ r.term > m_currentTerm[s]
              /\ StepDown(s, r.term)
              /\ UNCHANGED peerVars
           \/ /\ m_status[s] = "Leader" /\ m_currentTerm[s] = r.args.term
              /\ r.term <= m_currentTerm[s]
              /\ m_matchIndex' = [m_matchIndex EXCEPT ![s][i] = index]
              /\ m_nextIndex' = [m_nextIndex EXCEPT ![s][i] = index + 1]
              /\ UNCHANGED nodeVars
    /\ UNCHANGED <<exited, logVars, applyVars, roundVars, voteVars, appendVars,
                   snapThread, snapReq>>

\* External (the RPC channel): a callee that has exited closes its connection,
\* which the channel parses as an empty, successful answer.  Only
\* leaderSendSnapShot takes a term of 0 for one.
ConnectionClosed(s) ==
    /\ ~Running(s)
    /\ \E m \in snapReq :
        /\ m.call.callee = s
        /\ snapReq' = snapReq \ {m}
        /\ AnswerSnapshot(m, 0)
    /\ UNCHANGED <<exited, nodeVars, logVars, applyVars, peerVars, roundVars,
                   voteVars, appendVars, snapThread>>

\* ok is false: the call was not executed or its answer is lost, and the sending
\* thread ends without effect.
CallFails(s) ==
    /\ Running(s)
    /\ \/ /\ \E m \in voteReq : m.caller = s /\ voteReq' = voteReq \ {m}
          /\ UNCHANGED <<voteRep, appendVars, snapReq, snapRep>>
       \/ /\ \E r \in voteRep : r.args.caller = s /\ voteRep' = voteRep \ {r}
          /\ UNCHANGED <<voteReq, appendVars, snapReq, snapRep>>
       \/ /\ \E m \in appendReq : m.caller = s /\ appendReq' = appendReq \ {m}
          /\ UNCHANGED <<voteReq, voteRep, appendRep, snapReq, snapRep>>
       \/ /\ \E r \in appendRep : r.args.caller = s /\ appendRep' = appendRep \ {r}
          /\ UNCHANGED <<voteReq, voteRep, appendReq, snapReq, snapRep>>
       \/ /\ \E m \in snapReq : m.call.caller = s /\ snapReq' = snapReq \ {m}
          /\ UNCHANGED <<voteReq, voteRep, appendVars, snapRep>>
       \/ /\ \E r \in snapRep : r.args.call.caller = s /\ snapRep' = snapRep \ {r}
          /\ UNCHANGED <<voteReq, voteRep, appendVars, snapReq>>
    /\ UNCHANGED <<exited, nodeVars, logVars, applyVars, peerVars, roundVars,
                   votedNum, elected, snapThread>>

-----------------------------------------------------------------------------
ElectionStep(s) == electionTimeOutTicker(s) \/ RequestVote(s) \/ sendRequestVote(s)

ReplicationStep(s) ==
    \/ \E c \in Command : Start(s, c)
    \/ leaderHearBeatTicker(s)
    \/ AppendEntries1(s)
    \/ sendAppendEntries(s)
    \/ applierTicker(s)

SnapshotStep(s) ==
    \/ \E i \in 1..MaxSnapshotIndex : Snapshot(s, i)
    \/ SendSnapShot(s)
    \/ InstallSnapshot(s)
    \/ leaderSendSnapShot(s)
    \/ ConnectionClosed(s)

Next ==
    \E s \in Server :
        ElectionStep(s) \/ ReplicationStep(s) \/ SnapshotStep(s) \/ CallFails(s)

Spec == Init /\ [][Next]_vars

-----------------------------------------------------------------------------
\* A process that has exited, or is killed, is started again.  The constructor of
\* Persister empties the files it is about to read, so init finds nothing and the
\* server begins with the state of Init; its threads and the calls it had not
\* executed are gone, the answers it had sent are not.
Restart(s) ==
    /\ exited' = [exited EXCEPT ![s] = "running"]
    /\ m_currentTerm' = [m_currentTerm EXCEPT ![s] = 0]
    /\ m_votedFor' = [m_votedFor EXCEPT ![s] = NoVote]
    /\ m_status' = [m_status EXCEPT ![s] = "Follower"]
    /\ m_logs' = [m_logs EXCEPT ![s] = <<>>]
    /\ m_lastSnapshotIncludeIndex' = [m_lastSnapshotIncludeIndex EXCEPT ![s] = 0]
    /\ m_lastSnapshotIncludeTerm' = [m_lastSnapshotIncludeTerm EXCEPT ![s] = 0]
    /\ m_commitIndex' = [m_commitIndex EXCEPT ![s] = 0]
    /\ m_lastApplied' = [m_lastApplied EXCEPT ![s] = 0]
    /\ m_nextIndex' = [m_nextIndex EXCEPT ![s] = [i \in Server |-> 0]]
    /\ m_matchIndex' = [m_matchIndex EXCEPT ![s] = [i \in Server |-> 0]]
    /\ votedNum' = [votedNum EXCEPT ![s] = {}]
    /\ voteReq' = {m \in voteReq : m.caller # s /\ m.callee # s}
    /\ voteRep' = {r \in voteRep : r.args.caller # s}
    /\ appendReq' = {m \in appendReq : m.caller # s /\ m.callee # s}
    /\ appendRep' = {r \in appendRep : r.args.caller # s}
    /\ snapThread' = {c \in snapThread : c.caller # s}
    /\ snapReq' = {m \in snapReq : m.call.caller # s /\ m.call.callee # s}
    /\ snapRep' = {r \in snapRep : r.args.call.caller # s}
    /\ UNCHANGED <<roundVars, elected>>

RestartSpec == Init /\ [][Next \/ \E s \in Server : Restart(s)]_vars
=============================================================================
