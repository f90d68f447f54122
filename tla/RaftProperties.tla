--------------------------- MODULE RaftProperties ---------------------------
(***************************************************************************)
(* What module Raft is checked and proved to satisfy.                      *)
(***************************************************************************)
EXTENDS Raft

NodeTypeOK ==
    /\ exited \in [Server -> {"running", "sendRequestVote", "doHeartBeat", "matchLog",
                              "AppendEntries1", "sendAppendEntries", "getApplyLogs",
                              "Snapshot"}]
    /\ m_currentTerm \in [Server -> Nat]
    /\ m_votedFor \in [Server -> Server \cup {NoVote}]
    /\ m_status \in [Server -> {"Follower", "Candidate", "Leader"}]

LogTypeOK ==
    /\ m_logs \in [Server -> Seq(Entry)]
    /\ m_lastSnapshotIncludeIndex \in [Server -> Nat]
    /\ m_lastSnapshotIncludeTerm \in [Server -> Nat]

ApplyTypeOK == m_commitIndex \in [Server -> Nat] /\ m_lastApplied \in [Server -> Nat]

PeerTypeOK ==
    /\ m_nextIndex \in [Server -> [Server -> Int]]
    /\ m_matchIndex \in [Server -> [Server -> Nat]]

RoundTypeOK ==
    /\ round \in [Server -> 0..MaxRound]
    /\ appendNums \in [Server -> [1..MaxRound -> SUBSET Server]]

VoteTypeOK ==
    /\ votedNum \in [Server -> SUBSET Server]
    /\ voteReq \subseteq VoteArgs
    /\ voteRep \subseteq VoteReply
    /\ elected \subseteq [term: Nat, leader: Server, quorum: SUBSET Server]

AppendTypeOK ==
    /\ appendReq \subseteq AppendArgs
    /\ appendRep \subseteq AppendReply
    /\ \A m \in appendReq : m.round \in 1..MaxRound
    /\ \A r \in appendRep : r.args.round \in 1..MaxRound

SnapTypeOK ==
    /\ snapThread \subseteq SnapCall
    /\ snapReq \subseteq SnapArgs
    /\ snapRep \subseteq SnapReply

\* The types of all variables: indexes and terms never become negative, whatever
\* answers the leader takes them from, and no call names a round never begun.
TypeOK ==
    /\ NodeTypeOK /\ LogTypeOK /\ ApplyTypeOK /\ PeerTypeOK
    /\ RoundTypeOK /\ VoteTypeOK /\ AppendTypeOK /\ SnapTypeOK

\* At most one server ever wins the election of a term (RequestVote's single
\* m_votedFor per term, sendRequestVote's count), although requests and answers
\* of several elections are delivered late and in any order.
ElectionSafety ==
    \A e, f \in elected : e.term = f.term => e.leader = f.leader

\* Two entries of the same index and term carry the same command on all servers:
\* what the assertion in AppendEntries1's loop demands of the log it finds.
SameIndexSameTermSameCommand ==
    \A s, t \in Server :
        \A j \in 1..Len(m_logs[s]), k \in 1..Len(m_logs[t]) :
            /\ m_logs[s][j].logindex = m_logs[t][k].logindex
            /\ m_logs[s][j].logterm = m_logs[t][k].logterm
            => m_logs[s][j].command = m_logs[t][k].command

\* The slot of an entry tells its index: after any mixture of Start, the loop of
\* AppendEntries1, Snapshot and InstallSnapshot, m_logs[k] is the entry of index
\* m_lastSnapshotIncludeIndex + k, which all of getSlicesIndexFromLogIndex's
\* callers rely on.
LogContiguous ==
    \A s \in Server : \A k \in 1..Len(m_logs[s]) :
        m_logs[s][k].logindex = m_lastSnapshotIncludeIndex[s] + k

\* Snapshot <= applied <= committed <= last: the loop of getApplyLogs finds every
\* entry it is to apply, whichever of AppendEntries1, sendAppendEntries, Snapshot
\* and InstallSnapshot has moved one of the four last.
IndexOrder ==
    \A s \in Server :
        /\ m_lastSnapshotIncludeIndex[s] <= m_lastApplied[s]
        /\ m_lastApplied[s] <= m_commitIndex[s]
        /\ m_commitIndex[s] <= getLastLogIndex(s)

\* None of the assertions of raft.cpp fails: no server ever exits.
NeverExits == \A s \in Server : Running(s)

\* Whoever holds entry (k, t), or can no longer be asked for it by a leader of
\* term t.
Holds(v, k, t) ==
    \/ m_currentTerm[v] > t
    \/ m_lastSnapshotIncludeIndex[v] >= k
    \/ InLog(v, k) /\ EntryAt(v, k).logterm = t

\* An entry a leader has committed in its own term is on a majority, as far as
\* the majority has not moved on to a later term: the counters of sendAppendEntries
\* never count an answer for entries its server does not have, whichever rounds
\* the answers arrive from.
CommitBackedByMajority ==
    \A s \in Server : m_status[s] = "Leader" =>
        \A k \in 1..m_commitIndex[s] :
            InLog(s, k) /\ EntryAt(s, k).logterm = m_currentTerm[s] =>
                2 * Cardinality({v \in Server : Holds(v, k, m_currentTerm[s])}) > Cardinality(Server)

\* A leader never believes a peer that is up to have more than it has: neither a
\* late answer, nor a snapshot call answered by a callee that ignored it, nor the
\* empty answer of a connection closed by a server that exited makes m_matchIndex
\* pass the end of a running peer's log.
MatchedIsHeld ==
    \A s, v \in Server :
        m_status[s] = "Leader" /\ Running(v) => m_matchIndex[s][v] <= getLastLogIndex(v)

\* A leader has every entry that a server not ahead of it has committed.
LeaderCompleteness ==
    \A s, v \in Server :
        m_status[s] = "Leader" /\ m_currentTerm[v] <= m_currentTerm[s] =>
            \A k \in 1..m_commitIndex[v] :
                InLog(v, k) /\ m_lastSnapshotIncludeIndex[s] < k =>
                    InLog(s, k) /\ EntryAt(s, k) = EntryAt(v, k)

-----------------------------------------------------------------------------
\* Until it meets a higher term a leader stays leader and keeps every entry of its
\* log: no late AppendEntries or RequestVote call of its own or an earlier term
\* makes it a follower or changes an entry.
LeaderUndisturbed ==
    [][\A s \in Server :
          m_status[s] = "Leader" /\ m_currentTerm'[s] = m_currentTerm[s] =>
              /\ m_status'[s] = "Leader"
              /\ \A k \in 1..getLastLogIndex(s) :
                    InLog(s, k) /\ InLog(s, k)' => EntryAt(s, k)' = EntryAt(s, k)]_vars

\* No index of a running server goes back: committed and applied entries stay so,
\* a snapshot is never replaced by an older one, and the last index (from which
\* Start numbers the commands that KvServer waits for) never shrinks.
IndexesNeverGoBack ==
    [][\A s \in Server :
          /\ getLastLogIndex(s)' >= getLastLogIndex(s)
          /\ m_commitIndex'[s] >= m_commitIndex[s]
          /\ m_lastApplied'[s] >= m_lastApplied[s]
          /\ m_lastSnapshotIncludeIndex'[s] >= m_lastSnapshotIncludeIndex[s]]_vars
=============================================================================
