-------------------------- MODULE RaftSafetyProofs --------------------------
(***************************************************************************)
(* Without snapshots no assertion of raft.cpp ever fails and nothing of    *)
(* its own or an earlier term disturbs a leader, for any number of servers *)
(* and any other bounds.  With snapshots both are false: a call older than *)
(* the callee's snapshot fails an assertion (run raft_exit), and a thread  *)
(* of a deposed leader sends its snapshot with the term it meets when it   *)
(* gets the lock, so that the leader of that term follows it.              *)
(***************************************************************************)
EXTENDS RaftLogProofs

\* The RequestVote calls in flight, answered or not.
VoteCalls == voteReq \cup {r.args : r \in voteRep}

SameVoteCall(a, b) == a.caller = b.caller /\ a.callee = b.callee /\ a.term = b.term

\* A candidate calls a peer once in a term, and the call is answered once.
CalledOnce ==
    /\ \A a, b \in voteReq : SameVoteCall(a, b) => a = b
    /\ \A p, r \in voteRep : SameVoteCall(p.args, r.args) => p = r
    /\ \A a \in voteReq, r \in voteRep : ~SameVoteCall(a, r.args)

\* A peer whose vote is counted, or has won the election, has no call in flight.
CountedOnce ==
    \A s \in Server :
        /\ \A a \in VoteCalls :
              a.caller = s /\ a.term = m_currentTerm[s] => a.callee \notin votedNum[s]
        /\ \A e \in elected : e.leader = s /\ e.term = m_currentTerm[s] =>
              /\ \A v \in e.quorum : v \notin votedNum[s]
              /\ \A a \in VoteCalls : a.caller = s /\ a.term = e.term => a.callee \notin e.quorum

\* Nobody has won an election of a term it has not reached.
WinnersInTerm == \A e \in elected : e.term <= m_currentTerm[e.leader]

CountInv == CalledOnce /\ CountedOnce /\ WinnersInTerm

-----------------------------------------------------------------------------
\* No server has a snapshot and none is on its way.
NoSnapshots ==
    /\ \A s \in Server : m_lastSnapshotIncludeIndex[s] = 0 /\ m_lastSnapshotIncludeTerm[s] = 0
    /\ snapThread = {} /\ snapReq = {} /\ snapRep = {}

\* The AppendEntries calls in flight, answered or not.
AppendCalls == appendReq \cup {r.args : r \in appendRep}

\* A call comes from the winner of its term, goes to another server, and carries
\* no more than its caller has.
CallWithin(m) ==
    /\ m.caller # m.callee
    /\ \E e \in elected : e.term = m.term /\ e.leader = m.caller
    /\ m.prevlogindex + Len(m.entries) <= Known(m.caller)
    /\ m.prevlogindex = 0 => m.prevlogterm = 0

\* A refusal names an index to go on from, unless it comes from a later term.
RefusalUsable(r) ==
    \/ r.success
    \/ r.updatenextindex = -100
    \/ 1 <= r.updatenextindex /\ r.updatenextindex <= r.args.prevlogindex

\* What a leader believes of its peers stays within its own log.
PeersWithin ==
    \A s, i \in Server :
        /\ m_matchIndex[s][i] <= Known(s)
        /\ m_status[s] = "Leader" => 1 <= m_nextIndex[s][i] /\ m_nextIndex[s][i] <= Known(s) + 1

\* The winner of an election is leader as long as it stays in the term.
WinnersLead ==
    \A e \in elected : e.term = m_currentTerm[e.leader] => m_status[e.leader] = "Leader"

SafeInv ==
    /\ NoSnapshots
    /\ \A m \in AppendCalls : CallWithin(m)
    /\ \A r \in appendRep : RefusalUsable(r)
    /\ PeersWithin
    /\ WinnersLead
    /\ NeverExits

-----------------------------------------------------------------------------
\* Terms only grow.
LEMMA TermsGrow ==
    ASSUME TypeOK, [Next]_vars
    PROVE  \A v \in Server : m_currentTerm'[v] >= m_currentTerm[v]
<1> USE DEF nodeVars
<1>1. m_currentTerm \in [Server -> Nat]
  BY DEF TypeOK, NodeTypeOK
<1>2. CASE UNCHANGED m_currentTerm
  BY <1>1, <1>2
<1>3. ASSUME NEW s \in Server, NEW t \in Nat, t >= m_currentTerm[s],
             m_currentTerm' = [m_currentTerm EXCEPT ![s] = t]
      PROVE  \A v \in Server : m_currentTerm'[v] >= m_currentTerm[v]
  BY <1>1, <1>3
<1>4. ASSUME NEW s \in Server, ElectionStep(s)
      PROVE  \A v \in Server : m_currentTerm'[v] >= m_currentTerm[v]
  <2>1. CASE electionTimeOutTicker(s)
    BY <1>1, <2>1 DEF electionTimeOutTicker, doElection
  <2>2. CASE RequestVote(s)
    <3>1. PICK m \in voteReq : UNCHANGED m_currentTerm
                 \/ (m.term >= m_currentTerm[s] /\ m_currentTerm' = [m_currentTerm EXCEPT ![s] = m.term])
      BY <2>2 DEF RequestVote, RejectVote, DecideVote
    <3>2. m.term \in Nat
      BY DEF TypeOK, VoteTypeOK, VoteArgs
    <3>3. QED
      BY <1>2, <1>3, <3>1, <3>2
  <2>3. CASE sendRequestVote(s)
    <3>1. PICK r \in voteRep : UNCHANGED m_currentTerm
                 \/ (r.term > m_currentTerm[s] /\ m_currentTerm' = [m_currentTerm EXCEPT ![s] = r.term])
      <4>1. \A r : CountVote(s, r) => UNCHANGED m_currentTerm
        BY DEF CountVote
      <4>2. QED
        BY <2>3, <4>1 DEF sendRequestVote, StepDown
    <3>2. r.term \in Nat /\ m_currentTerm[s] \in Nat
      BY <1>1 DEF TypeOK, VoteTypeOK, VoteReply
    <3>3. QED
      BY <1>2, <1>3, <3>1, <3>2
  <2>4. QED
    BY <1>4, <2>1, <2>2, <2>3 DEF ElectionStep
<1>5. ASSUME NEW s \in Server, ReplicationStep(s)
      PROVE  \A v \in Server : m_currentTerm'[v] >= m_currentTerm[v]
  <2>1. CASE AppendEntries1(s)
    <3>1. PICK m \in appendReq : UNCHANGED m_currentTerm
                 \/ (m.term >= m_currentTerm[s] /\ m_currentTerm' = [m_currentTerm EXCEPT ![s] = m.term])
      <4>1. \A m : AcceptAppend(s, m) => UNCHANGED m_currentTerm
                 \/ (m.term >= m_currentTerm[s] /\ m_currentTerm' = [m_currentTerm EXCEPT ![s] = m.term])
        BY DEF AcceptAppend, FollowCaller
      <4>2. QED
        BY <2>1, <4>1 DEF AppendEntries1, RejectStaleAppend, RejectGap, FailInMatchLog,
          RejectMismatch, FollowCaller
    <3>2. m.term \in Nat
      BY DEF TypeOK, AppendTypeOK, AppendArgs
    <3>3. QED
      BY <1>2, <1>3, <3>1, <3>2
  <2>2. CASE sendAppendEntries(s)
    <3>1. PICK r \in appendRep : UNCHANGED m_currentTerm
                 \/ (r.term > m_currentTerm[s] /\ m_currentTerm' = [m_currentTerm EXCEPT ![s] = r.term])
      BY <2>2 DEF sendAppendEntries, StepDown
    <3>2. r.term \in Nat /\ m_currentTerm[s] \in Nat
      BY <1>1 DEF TypeOK, AppendTypeOK, AppendReply
    <3>3. QED
      BY <1>2, <1>3, <3>1, <3>2
  <2>3. QED
    BY <1>2, <1>5, <2>1, <2>2 DEF ReplicationStep, Start, leaderHearBeatTicker, doHeartBeat,
      applierTicker
<1>6. ASSUME NEW s \in Server, SnapshotStep(s)
      PROVE  \A v \in Server : m_currentTerm'[v] >= m_currentTerm[v]
  <2>1. CASE InstallSnapshot(s)
    <3>1. PICK m \in snapReq : UNCHANGED m_currentTerm
                 \/ (m.term >= m_currentTerm[s] /\ m_currentTerm' = [m_currentTerm EXCEPT ![s] = m.term])
      BY <2>1 DEF InstallSnapshot, IgnoreSnapshot, TakeSnapshot, FollowCaller
    <3>2. m.term \in Nat
      BY DEF TypeOK, SnapTypeOK, SnapArgs
    <3>3. QED
      BY <1>2, <1>3, <3>1, <3>2
  <2>2. CASE leaderSendSnapShot(s)
    <3>1. PICK r \in snapRep : UNCHANGED m_currentTerm
                 \/ (r.term > m_currentTerm[s] /\ m_currentTerm' = [m_currentTerm EXCEPT ![s] = r.term])
      BY <2>2 DEF leaderSendSnapShot, StepDown
    <3>2. r.term \in Nat /\ m_currentTerm[s] \in Nat
      BY <1>1 DEF TypeOK, SnapTypeOK, SnapReply
    <3>3. QED
      BY <1>2, <1>3, <3>1, <3>2
  <2>3. QED
    BY <1>2, <1>6, <2>1, <2>2 DEF SnapshotStep, Snapshot, SendSnapShot, ConnectionClosed
<1>7. ASSUME NEW s \in Server, CallFails(s) PROVE UNCHANGED m_currentTerm
  BY <1>7 DEF CallFails
<1>8. CASE UNCHANGED vars
  BY <1>2, <1>8 DEF vars
<1>9. QED
  BY <1>2, <1>4, <1>5, <1>6, <1>7, <1>8 DEF Next

\* Steps that send, answer and count no vote: calls and answers may be lost, and a
\* server that moves to a later term has no calls of it in flight.
LEMMA NothingCounted ==
    ASSUME TypeOK, TypeOK', CallsOfCandidates, CountInv,
           \A v \in Server : m_currentTerm'[v] >= m_currentTerm[v],
           voteReq' \subseteq voteReq, voteRep' \subseteq voteRep,
           UNCHANGED <<votedNum, elected>>
    PROVE  CountInv'
<1>1. CalledOnce'
  BY DEF CountInv, CalledOnce
<1>2. \A v \in Server : m_currentTerm[v] \in Nat /\ m_currentTerm'[v] \in Nat
  BY DEF TypeOK, NodeTypeOK
<1>3. \A e \in elected : e.term \in Nat /\ e.leader \in Server
  BY DEF TypeOK, VoteTypeOK
<1>4. VoteCalls' \subseteq VoteCalls
  BY DEF VoteCalls
<1>5. \A a \in VoteCalls : a.caller \in Server /\ a.term \in Nat /\ a.term <= m_currentTerm[a.caller]
  BY DEF VoteCalls, CallsOfCandidates, CandidateVoted, TypeOK, VoteTypeOK, VoteArgs, VoteReply
<1>6. WinnersInTerm'
  BY <1>2, <1>3 DEF CountInv, WinnersInTerm
<1>7. CountedOnce'
  <2> SUFFICES ASSUME NEW s \in Server
               PROVE  /\ \A a \in VoteCalls :
                            a.caller = s /\ a.term = m_currentTerm'[s] => a.callee \notin votedNum[s]
                      /\ \A e \in elected : e.leader = s /\ e.term = m_currentTerm'[s] =>
                            /\ \A v \in e.quorum : v \notin votedNum[s]
                            /\ \A a \in VoteCalls : a.caller = s /\ a.term = e.term => a.callee \notin e.quorum
    BY <1>4 DEF CountedOnce
  <2>1. CASE m_currentTerm'[s] = m_currentTerm[s]
    BY <2>1 DEF CountInv, CountedOnce
  <2>2. CASE m_currentTerm'[s] > m_currentTerm[s]
    <3>1. \A a \in VoteCalls : a.caller = s => a.term # m_currentTerm'[s]
      BY <1>2, <1>5, <2>2
    <3>2. \A e \in elected : e.leader = s => e.term # m_currentTerm'[s]
      BY <1>2, <1>3, <2>2 DEF CountInv, WinnersInTerm
    <3>3. QED
      BY <3>1, <3>2
  <2>3. QED
    BY <1>2, <2>1, <2>2
<1>8. QED
  BY <1>1, <1>6, <1>7 DEF CountInv

\* An election asks every peer once, in a term no call has named before.
LEMMA ElectionCounts ==
    ASSUME TypeOK, TypeOK', CallsOfCandidates, CountInv, NEW s \in Server, electionTimeOutTicker(s)
    PROVE  CountInv'
<1> DEFINE t == m_currentTerm[s] + 1
           args(i) == RequestVoteArgs(s, i)
<1>1. /\ m_currentTerm' = [m_currentTerm EXCEPT ![s] = t]
      /\ votedNum' = [votedNum EXCEPT ![s] = {s}]
      /\ voteReq' = voteReq \cup {args(i) : i \in Server \ {s}}
      /\ UNCHANGED <<voteRep, elected>>
  BY DEF electionTimeOutTicker, doElection
<1>2. m_currentTerm \in [Server -> Nat] /\ votedNum \in [Server -> SUBSET Server]
  BY DEF TypeOK, NodeTypeOK, VoteTypeOK
<1>3. \A i : args(i).caller = s /\ args(i).callee = i /\ args(i).term = t
  BY DEF RequestVoteArgs
<1>4. \A a \in VoteCalls : a.caller \in Server /\ a.term \in Nat /\ a.term <= m_currentTerm[a.caller]
  BY DEF VoteCalls, CallsOfCandidates, CandidateVoted, TypeOK, VoteTypeOK, VoteArgs, VoteReply
<1>5. \A a \in VoteCalls : a.caller = s => a.term # t
  BY <1>2, <1>4
<1>6. \A e \in elected : e.term \in Nat /\ e.leader \in Server /\ (e.leader = s => e.term # t)
  <2>1. \A e \in elected : e.term \in Nat /\ e.leader \in Server
    BY DEF TypeOK, VoteTypeOK
  <2>2. QED
    BY <1>2, <2>1 DEF CountInv, WinnersInTerm
<1>7. voteReq \subseteq VoteCalls /\ \A r \in voteRep : r.args \in VoteCalls
  BY DEF VoteCalls
<1>8. m_currentTerm'[s] = t /\ \A v \in Server \ {s} : m_currentTerm'[v] = m_currentTerm[v]
  BY <1>1, <1>2
<1>9. votedNum'[s] = {s} /\ \A v \in Server \ {s} : votedNum'[v] = votedNum[v]
  BY <1>1, <1>2
<1>10. \A a \in VoteCalls' : a \in VoteCalls \/ \E i \in Server \ {s} : a = args(i)
  BY <1>1 DEF VoteCalls
<1>11. t \in Nat /\ t > m_currentTerm[s]
  BY <1>2
<1> HIDE DEF t, args
<1>12. CalledOnce'
  BY <1>1, <1>3, <1>5, <1>7 DEF CountInv, CalledOnce, SameVoteCall
<1>13. WinnersInTerm'
  BY <1>1, <1>2, <1>6, <1>8, <1>11 DEF CountInv, WinnersInTerm
<1>14. CountedOnce'
  <2> SUFFICES ASSUME NEW v \in Server
               PROVE  /\ \A a \in VoteCalls' :
                            a.caller = v /\ a.term = m_currentTerm'[v] => a.callee \notin votedNum'[v]
                      /\ \A e \in elected : e.leader = v /\ e.term = m_currentTerm'[v] =>
                            /\ \A u \in e.quorum : u \notin votedNum'[v]
                            /\ \A a \in VoteCalls' : a.caller = v /\ a.term = e.term => a.callee \notin e.quorum
    BY <1>1 DEF CountedOnce
  <2>1. CASE v = s
    BY <1>3, <1>5, <1>6, <1>8, <1>9, <1>10, <2>1
  <2>2. CASE v # s
    BY <1>3, <1>8, <1>9, <1>10, <2>2 DEF CountInv, CountedOnce
  <2>3. QED
    BY <2>1, <2>2
<1>15. QED
  BY <1>12, <1>13, <1>14 DEF CountInv

\* A call that is executed becomes an answer.
LEMMA RequestVoteCounts ==
    ASSUME TypeOK, TypeOK', CallsOfCandidates, CountInv, NEW s \in Server, RequestVote(s)
    PROVE  CountInv'
<1>1. PICK m \in voteReq : \E rep :
        /\ voteReq' = voteReq \ {m} /\ voteRep' = voteRep \cup {rep} /\ rep.args = m
  BY DEF RequestVote, RejectVote, DecideVote
<1>2. UNCHANGED <<votedNum, elected>>
  BY DEF RequestVote
<1>3. \A v \in Server : m_currentTerm'[v] >= m_currentTerm[v]
  BY TermsGrow DEF Next, ElectionStep
<1>4. VoteCalls' \subseteq VoteCalls
  BY <1>1 DEF VoteCalls
<1>5. CalledOnce'
  BY <1>1 DEF CountInv, CalledOnce, SameVoteCall
<1>6. \A v \in Server : m_currentTerm[v] \in Nat /\ m_currentTerm'[v] \in Nat
  BY DEF TypeOK, NodeTypeOK
<1>7. \A e \in elected : e.term \in Nat /\ e.leader \in Server
  BY DEF TypeOK, VoteTypeOK
<1>8. \A a \in VoteCalls : a.caller \in Server /\ a.term \in Nat /\ a.term <= m_currentTerm[a.caller]
  BY DEF VoteCalls, CallsOfCandidates, CandidateVoted, TypeOK, VoteTypeOK, VoteArgs, VoteReply
<1>9. WinnersInTerm'
  BY <1>2, <1>3, <1>6, <1>7 DEF CountInv, WinnersInTerm
<1>10. CountedOnce'
  <2> SUFFICES ASSUME NEW v \in Server
               PROVE  /\ \A a \in VoteCalls :
                            a.caller = v /\ a.term = m_currentTerm'[v] => a.callee \notin votedNum[v]
                      /\ \A e \in elected : e.leader = v /\ e.term = m_currentTerm'[v] =>
                            /\ \A u \in e.quorum : u \notin votedNum[v]
                            /\ \A a \in VoteCalls : a.caller = v /\ a.term = e.term => a.callee \notin e.quorum
    BY <1>2, <1>4 DEF CountedOnce
  <2>1. CASE m_currentTerm'[v] = m_currentTerm[v]
    BY <2>1 DEF CountInv, CountedOnce
  <2>2. CASE m_currentTerm'[v] > m_currentTerm[v]
    <3>1. \A a \in VoteCalls : a.caller = v => a.term # m_currentTerm'[v]
      BY <1>6, <1>8, <2>2
    <3>2. \A e \in elected : e.leader = v => e.term # m_currentTerm'[v]
      BY <1>6, <1>7, <2>2 DEF CountInv, WinnersInTerm
    <3>3. QED
      BY <3>1, <3>2
  <2>3. QED
    BY <1>3, <1>6, <2>1, <2>2
<1>11. QED
  BY <1>5, <1>9, <1>10 DEF CountInv

\* A counted vote moves from the answers to the counter, or to the quorum.
LEMMA CountVoteCounts ==
    ASSUME TypeOK, CallsOfCandidates, CountInv, NEW s \in Server, NEW r \in voteRep,
           r.args.caller = s, voteRep' = voteRep \ {r}, UNCHANGED voteReq,
           r.term = m_currentTerm[s], r.votegranted, CountVote(s, r)
    PROVE  CountInv'
<1> DEFINE counted == votedNum[s] \cup {r.args.callee}
           wins == Cardinality(counted) >= Majority
           won == [term |-> m_currentTerm[s], leader |-> s, quorum |-> counted]
<1>1. UNCHANGED m_currentTerm
  BY DEF CountVote, nodeVars
<1>2. /\ votedNum \in [Server -> SUBSET Server]
      /\ \A v \in Server : m_currentTerm[v] \in Nat
      /\ r.args \in VoteCalls /\ r.args.term = m_currentTerm[s]
  BY DEF TypeOK, NodeTypeOK, VoteTypeOK, VoteCalls, CallsOfCandidates
<1>3. CalledOnce'
  BY DEF CountInv, CalledOnce
<1>4. VoteCalls' \subseteq VoteCalls
  BY DEF VoteCalls
<1>5. \A a \in VoteCalls' : a.caller = s /\ a.term = m_currentTerm[s] => a.callee # r.args.callee
  BY <1>2 DEF VoteCalls, CountInv, CalledOnce, SameVoteCall
<1>6. CASE UNCHANGED <<votedNum, elected>>
  <2>1. CountedOnce'
    BY <1>1, <1>4, <1>6 DEF CountInv, CountedOnce
  <2>2. WinnersInTerm'
    BY <1>1, <1>6 DEF CountInv, WinnersInTerm
  <2>3. QED
    BY <1>3, <2>1, <2>2 DEF CountInv
<1>7. CASE ~UNCHANGED <<votedNum, elected>>
  <2>1. /\ votedNum' = [votedNum EXCEPT ![s] = Tally(counted)]
        /\ elected' = elected \cup (IF wins THEN {won} ELSE {})
    BY <1>7 DEF CountVote
  <2>2. Tally(counted) = IF wins THEN {} ELSE counted
    BY DEF Tally
  <2>3. won.term = m_currentTerm[s] /\ won.leader = s /\ won.quorum = counted
    OBVIOUS
  <2>4. /\ votedNum'[s] = IF wins THEN {} ELSE counted
        /\ \A v \in Server \ {s} : votedNum'[v] = votedNum[v]
    BY <1>2, <2>1, <2>2
  <2> HIDE DEF wins, won
  <2>5. WinnersInTerm'
    BY <1>1, <1>2, <2>1, <2>3 DEF CountInv, WinnersInTerm
  <2>6. CountedOnce'
    <3> SUFFICES ASSUME NEW v \in Server
                 PROVE  /\ \A a \in VoteCalls' :
                              a.caller = v /\ a.term = m_currentTerm[v] => a.callee \notin votedNum'[v]
                        /\ \A e \in elected' : e.leader = v /\ e.term = m_currentTerm[v] =>
                              /\ \A u \in e.quorum : u \notin votedNum'[v]
                              /\ \A a \in VoteCalls' : a.caller = v /\ a.term = e.term => a.callee \notin e.quorum
      BY <1>1 DEF CountedOnce
    <3>1. CASE v # s
      BY <1>4, <2>1, <2>3, <2>4, <3>1 DEF CountInv, CountedOnce
    <3>2. CASE v = s
      <4>1. \A a \in VoteCalls' : a.caller = s /\ a.term = m_currentTerm[s] => a.callee \notin counted
        BY <1>4, <1>5 DEF CountInv, CountedOnce
      <4>2. \A e \in elected : e.leader = s /\ e.term = m_currentTerm[s] =>
              \A u \in e.quorum : u \notin counted
        BY <1>2 DEF CountInv, CountedOnce
      <4>3. \A e \in elected : e.leader = s /\ e.term = m_currentTerm[s] =>
              \A a \in VoteCalls' : a.caller = s /\ a.term = e.term => a.callee \notin e.quorum
        BY <1>4 DEF CountInv, CountedOnce
      <4> HIDE DEF counted
      <4>4. CASE wins
        BY <2>1, <2>3, <2>4, <3>2, <4>1, <4>3, <4>4
      <4>5. CASE ~wins
        BY <2>1, <2>4, <3>2, <4>1, <4>2, <4>3, <4>5
      <4>6. QED
        BY <4>4, <4>5
    <3>3. QED
      BY <3>1, <3>2
  <2>7. QED
    BY <1>3, <2>5, <2>6 DEF CountInv
<1>8. QED
  BY <1>6, <1>7

\* Every step keeps the books of the elections.
LEMMA NextCountInv ==
    ASSUME TypeOK, TypeOK', CallsOfCandidates, CountInv, [Next]_vars
    PROVE  CountInv'
<1>1. \A v \in Server : m_currentTerm'[v] >= m_currentTerm[v]
  BY TermsGrow
<1>2. CASE voteReq' \subseteq voteReq /\ voteRep' \subseteq voteRep /\ UNCHANGED <<votedNum, elected>>
  BY <1>1, <1>2, NothingCounted
<1>3. ASSUME NEW s \in Server, sendRequestVote(s) PROVE CountInv'
  <2>1. PICK r \in voteRep :
          /\ r.args.caller = s
          /\ voteRep' = voteRep \ {r}
          /\ \/ UNCHANGED <<votedNum, elected>>
             \/ r.term = m_currentTerm[s] /\ r.votegranted /\ CountVote(s, r)
    BY <1>3 DEF sendRequestVote
  <2>2. UNCHANGED voteReq
    BY <1>3 DEF sendRequestVote
  <2>3. QED
    BY <1>2, <2>1, <2>2, CountVoteCounts
<1>4. ASSUME NEW s \in Server, ReplicationStep(s) PROVE UNCHANGED voteVars
  BY <1>4 DEF ReplicationStep, Start, leaderHearBeatTicker, doHeartBeat, AppendEntries1,
    sendAppendEntries, applierTicker
<1>5. ASSUME NEW s \in Server, SnapshotStep(s) PROVE UNCHANGED voteVars
  BY <1>5 DEF SnapshotStep, Snapshot, SendSnapShot, InstallSnapshot, leaderSendSnapShot,
    ConnectionClosed
<1>6. ASSUME NEW s \in Server, CallFails(s)
      PROVE  voteReq' \subseteq voteReq /\ voteRep' \subseteq voteRep /\ UNCHANGED <<votedNum, elected>>
  BY <1>6 DEF CallFails
<1>7. UNCHANGED vars => UNCHANGED voteVars
  BY DEF vars
<1>8. UNCHANGED voteVars => CountInv'
  BY <1>2 DEF voteVars
<1>9. QED
  BY <1>2, <1>3, <1>4, <1>5, <1>6, <1>7, <1>8, ElectionCounts, RequestVoteCounts DEF Next, ElectionStep

\* The majority that elected a leader leaves no second one among the votes still
\* to come: a leader never fails the assertion of sendRequestVote.
LEMMA NoSecondMajority ==
    ASSUME TypeOK, VoteInv, CountInv, LeadersElected, NEW s \in Server, NEW r \in voteRep,
           r.args.caller = s, r.term = m_currentTerm[s], r.votegranted, m_status[s] = "Leader"
    PROVE  ~(Cardinality(votedNum[s] \cup {r.args.callee}) >= Majority)
<1> DEFINE counted == votedNum[s] \cup {r.args.callee}
<1>1. PICK e \in elected : e.term = m_currentTerm[s] /\ e.leader = s
  BY DEF LeadersElected
<1>2. r.args \in VoteCalls /\ r.args.term = m_currentTerm[s]
  BY DEF VoteCalls, VoteInv, CallsOfCandidates
<1>3. e.quorum \subseteq Server /\ counted \subseteq Server
  BY DEF TypeOK, VoteTypeOK, VoteReply, VoteArgs
<1>4. e.quorum \cap counted = {}
  BY <1>1, <1>2 DEF CountInv, CountedOnce
<1>5. Cardinality(e.quorum) >= Majority
  BY DEF VoteInv, WonByMajority
<1>6. /\ Cardinality(e.quorum) \in Nat /\ Cardinality(counted) \in Nat
      /\ Cardinality(Server) \in Nat
  BY <1>3, ServerAssumption, FS_Subset, FS_CardinalityType
<1> HIDE DEF counted
<1>7. ~(Cardinality(e.quorum) + Cardinality(counted) > Cardinality(Server))
  BY <1>3, <1>4, ServerAssumption, FS_MajoritiesIntersect
<1>8. ~(Cardinality(counted) >= Majority)
  BY <1>5, <1>6, <1>7 DEF Majority
<1>9. QED
  BY <1>8 DEF counted
-----------------------------------------------------------------------------
\* Without snapshots there is nothing for the snapshot functions to do.
LEMMA NoSnapshotSteps ==
    ASSUME MaxSnapshotIndex = 0, NoSnapshots, NEW s \in Server
    PROVE  ~SnapshotStep(s)
<1>1. 1..MaxSnapshotIndex = {}
  OBVIOUS
<1>2. QED
  BY <1>1 DEF NoSnapshots, SnapshotStep, SendSnapShot, InstallSnapshot, leaderSendSnapShot,
    ConnectionClosed

\* A leader whose indexes are usable has no peer to send a snapshot to.
LEMMA NoPeerNeedsSnapshot ==
    ASSUME TypeOK, NoSnapshots, NEW s \in Server, \A i \in Server \ {s} : NextIndexUsable(s, i)
    PROVE  NeedsSnapshot(s) = {}
BY DEF TypeOK, PeerTypeOK, NoSnapshots, NextIndexUsable, NeedsSnapshot

\* No step makes a snapshot.
LEMMA NextNoSnapshots ==
    ASSUME MaxSnapshotIndex = 0, TypeOK, NoSnapshots, [Next]_vars
    PROVE  NoSnapshots'
<1>1. CASE UNCHANGED <<m_lastSnapshotIncludeIndex, m_lastSnapshotIncludeTerm, snapVars>>
  BY <1>1 DEF NoSnapshots, snapVars
<1>2. ASSUME NEW s \in Server, ElectionStep(s) PROVE UNCHANGED <<logVars, snapVars>>
  BY <1>2 DEF ElectionStep, electionTimeOutTicker, doElection, RequestVote, sendRequestVote
<1>3. ASSUME NEW s \in Server, leaderHearBeatTicker(s) PROVE NoSnapshots'
  <2>1. UNCHANGED <<logVars, snapReq, snapRep>>
    BY <1>3 DEF leaderHearBeatTicker, doHeartBeat
  <2>2. snapThread' = {}
    <3>1. CASE \A i \in Server \ {s} : NextIndexUsable(s, i)
      <4>1. NeedsSnapshot(s) = {}
        BY <3>1, NoPeerNeedsSnapshot
      <4>2. snapThread' = snapThread \cup
             {[caller |-> s, callee |-> i, round |-> round[s] + 1] : i \in NeedsSnapshot(s)}
        BY <1>3, <3>1 DEF leaderHearBeatTicker, doHeartBeat
      <4>3. QED
        BY <4>1, <4>2 DEF NoSnapshots
    <3>2. CASE ~\A i \in Server \ {s} : NextIndexUsable(s, i)
      BY <1>3, <3>2 DEF leaderHearBeatTicker, doHeartBeat, NoSnapshots
    <3>3. QED
      BY <3>1, <3>2
  <2>3. QED
    BY <2>1, <2>2 DEF NoSnapshots, logVars
<1>4. ASSUME NEW s \in Server, ReplicationStep(s), ~leaderHearBeatTicker(s)
      PROVE  UNCHANGED <<m_lastSnapshotIncludeIndex, m_lastSnapshotIncludeTerm, snapVars>>
  BY <1>4 DEF ReplicationStep, Start, AppendEntries1, sendAppendEntries, applierTicker, logVars
<1>5. ASSUME NEW s \in Server, CallFails(s) PROVE NoSnapshots'
  BY <1>5 DEF CallFails, logVars, NoSnapshots
<1>6. UNCHANGED vars => UNCHANGED <<logVars, snapVars>>
  BY DEF vars
<1>7. UNCHANGED <<logVars, snapVars>> => NoSnapshots'
  BY <1>1 DEF logVars
<1>8. QED
  BY <1>1, <1>2, <1>3, <1>4, <1>5, <1>6, <1>7, NoSnapshotSteps DEF Next

\* A leader gets no AppendEntries call of its own term: it would be its own.
LEMMA LeaderNotCalled ==
    ASSUME ElectionSafety, LeadersElected, \A m \in AppendCalls : CallWithin(m),
           NEW s \in Server, m_status[s] = "Leader", NEW m \in appendReq, m.callee = s
    PROVE  m.term # m_currentTerm[s]
<1>1. CallWithin(m)
  BY DEF AppendCalls
<1>2. QED
  BY <1>1 DEF ElectionSafety, LeadersElected, CallWithin

\* A leader that stays in its term stays leader, and only Start changes its log.
LEMMA LeaderKept ==
    ASSUME MaxSnapshotIndex = 0, TypeInv, NoSnapshots, ElectionSafety, LeadersElected,
           \A m \in AppendCalls : CallWithin(m), [Next]_vars,
           NEW s \in Server, m_status[s] = "Leader", m_currentTerm'[s] = m_currentTerm[s]
    PROVE  m_status'[s] = "Leader" /\ (m_logs'[s] = m_logs[s] \/ \E c \in Command : Start(s, c))
<1>1. /\ m_status \in [Server -> {"Follower", "Candidate", "Leader"}]
      /\ m_currentTerm \in [Server -> Nat] /\ m_logs \in [Server -> Seq(Entry)]
  BY DEF TypeInv, TypeOK, NodeTypeOK, LogTypeOK
<1>2. CASE UNCHANGED <<nodeVars, m_logs>>
  BY <1>2 DEF nodeVars
<1>3. ASSUME NEW v \in Server, ElectionStep(v) PROVE m_status'[s] = "Leader" /\ m_logs'[s] = m_logs[s]
  <2>1. UNCHANGED m_logs
    BY <1>3 DEF ElectionStep, electionTimeOutTicker, doElection, RequestVote, sendRequestVote, logVars
  <2>2. CASE electionTimeOutTicker(v)
    BY <1>1, <2>1, <2>2 DEF electionTimeOutTicker, doElection
  <2>3. CASE RequestVote(v)
    <3>1. PICK m \in voteReq : RejectVote(v, m) \/ DecideVote(v, m)
      BY <2>3 DEF RequestVote
    <3>2. CASE RejectVote(v, m)
      BY <2>1, <3>2 DEF RejectVote, nodeVars
    <3>3. CASE DecideVote(v, m)
      <4>1. /\ m_status' = [m_status EXCEPT ![v] = StatusAfterVote(v, m)]
            /\ m_currentTerm' = [m_currentTerm EXCEPT ![v] = m.term]
        BY <3>3 DEF DecideVote
      <4>2. m.term \in Nat
        BY DEF TypeInv, TypeOK, VoteTypeOK, VoteArgs
      <4>3. QED
        BY <1>1, <2>1, <4>1, <4>2 DEF StatusAfterVote
    <3>4. QED
      BY <3>1, <3>2, <3>3
  <2>4. CASE sendRequestVote(v)
    <3>1. PICK r \in voteRep :
            \/ r.term > m_currentTerm[v] /\ StepDown(v, r.term)
            \/ UNCHANGED nodeVars
            \/ CountVote(v, r)
      BY <2>4 DEF sendRequestVote
    <3>2. CASE r.term > m_currentTerm[v] /\ StepDown(v, r.term)
      <4>1. r.term \in Nat
        BY DEF TypeInv, TypeOK, VoteTypeOK, VoteReply
      <4>2. QED
        BY <1>1, <2>1, <3>2, <4>1 DEF StepDown
    <3>3. CASE UNCHANGED nodeVars
      BY <2>1, <3>3 DEF nodeVars
    <3>4. CASE CountVote(v, r)
      <4>1. UNCHANGED m_status \/ m_status' = [m_status EXCEPT ![v] = @]
              \/ m_status' = [m_status EXCEPT ![v] = "Leader"]
        BY <3>4 DEF CountVote, nodeVars
      <4>2. QED
        BY <1>1, <2>1, <4>1
    <3>5. QED
      BY <3>1, <3>2, <3>3, <3>4
  <2>5. QED
    BY <1>3, <2>2, <2>3, <2>4 DEF ElectionStep
<1>4. ASSUME NEW v \in Server, NEW c \in Command, Start(v, c)
      PROVE  m_status'[s] = "Leader" /\ (m_logs'[s] = m_logs[s] \/ \E d \in Command : Start(s, d))
  <2>1. UNCHANGED m_status
    BY <1>4 DEF Start, nodeVars
  <2>2. v # s => m_logs'[s] = m_logs[s]
    BY <1>1, <1>4 DEF Start
  <2>3. QED
    BY <1>4, <2>1, <2>2
<1>5. ASSUME NEW v \in Server, AppendEntries1(v) PROVE m_status'[s] = "Leader" /\ m_logs'[s] = m_logs[s]
  <2>1. PICK m \in appendReq :
          /\ m.callee = v
          /\ \/ UNCHANGED <<nodeVars, m_logs>>
             \/ /\ m.term >= m_currentTerm[v] /\ FollowCaller(v, m.term)
                /\ m_logs' = m_logs \/ m_logs' = [m_logs EXCEPT ![v] = Merged(v, m)]
    <3>1. \A m : AcceptAppend(v, m) =>
             \/ UNCHANGED <<nodeVars, m_logs>>
             \/ /\ m.term >= m_currentTerm[v] /\ FollowCaller(v, m.term)
                /\ m_logs' = m_logs \/ m_logs' = [m_logs EXCEPT ![v] = Merged(v, m)]
      BY DEF AcceptAppend
    <3>2. QED
      BY <1>5, <3>1 DEF AppendEntries1, RejectStaleAppend, RejectGap, FailInMatchLog, RejectMismatch
  <2>2. CASE UNCHANGED <<nodeVars, m_logs>>
    BY <2>2 DEF nodeVars
  <2>3. CASE /\ m.term >= m_currentTerm[v] /\ FollowCaller(v, m.term)
             /\ m_logs' = m_logs \/ m_logs' = [m_logs EXCEPT ![v] = Merged(v, m)]
    <3>1. m.term \in Nat
      BY DEF TypeInv, TypeOK, AppendTypeOK, AppendArgs
    <3>2. v # s
      BY <1>1, <2>1, <2>3, <3>1, LeaderNotCalled DEF FollowCaller
    <3>3. QED
      BY <1>1, <2>3, <3>2 DEF FollowCaller
  <2>4. QED
    BY <2>1, <2>2, <2>3
<1>6. ASSUME NEW v \in Server, sendAppendEntries(v) PROVE m_status'[s] = "Leader" /\ m_logs'[s] = m_logs[s]
  <2>1. PICK r \in appendRep :
          \/ r.term > m_currentTerm[v] /\ StepDown(v, r.term)
          \/ UNCHANGED nodeVars
    BY <1>6 DEF sendAppendEntries
  <2>2. r.term \in Nat
    BY DEF TypeInv, TypeOK, AppendTypeOK, AppendReply
  <2>3. UNCHANGED m_logs
    BY <1>6 DEF sendAppendEntries, logVars
  <2>4. CASE r.term > m_currentTerm[v] /\ StepDown(v, r.term)
    BY <1>1, <2>2, <2>3, <2>4 DEF StepDown
  <2>5. QED
    BY <1>2, <2>1, <2>3, <2>4 DEF nodeVars
<1>7. ASSUME NEW v \in Server, leaderHearBeatTicker(v) \/ applierTicker(v) \/ CallFails(v)
      PROVE  UNCHANGED <<nodeVars, m_logs>>
  BY <1>7 DEF leaderHearBeatTicker, doHeartBeat, applierTicker, CallFails, logVars
<1>8. UNCHANGED vars => UNCHANGED <<nodeVars, m_logs>>
  BY DEF vars, logVars
<1>9. QED
  BY <1>2, <1>3, <1>4, <1>5, <1>6, <1>7, <1>8, NoSnapshotSteps DEF Next, ReplicationStep
\* The calls of a round carry what the leader has, up to its end.
LEMMA HeartBeatCalls ==
    ASSUME TypeInv, NoSnapshots, LeadersElected, NEW s \in Server, NEW i \in Server \ {s},
           m_status[s] = "Leader", NextIndexUsable(s, i)
    PROVE  /\ CallWithin(AppendEntriesArgs(s, i))
           /\ AppendEntriesArgs(s, i).prevlogindex + Len(AppendEntriesArgs(s, i).entries) = Known(s)
<1> DEFINE prev == m_nextIndex[s][i] - 1
<1>1. /\ m_nextIndex[s][i] \in Int /\ m_lastSnapshotIncludeIndex[s] = 0
      /\ m_lastSnapshotIncludeTerm[s] = 0
  BY DEF TypeInv, TypeOK, PeerTypeOK, NoSnapshots
<1>2. getLastLogIndex(s) = Known(s) /\ Known(s) \in Nat
  BY LastIndexOfLog DEF TypeInv, Known
<1>3. prev \in Nat /\ MatchLogDefined(s, prev)
  BY <1>1, <1>2 DEF NextIndexUsable, MatchLogDefined
<1>4. /\ AppendEntriesArgs(s, i).caller = s /\ AppendEntriesArgs(s, i).callee = i
      /\ AppendEntriesArgs(s, i).term = m_currentTerm[s]
      /\ AppendEntriesArgs(s, i).prevlogindex = prev
      /\ AppendEntriesArgs(s, i).prevlogterm = getLogTermFromLogIndex(s, prev)
      /\ AppendEntriesArgs(s, i).entries = EntriesAfter(s, prev)
  BY DEF AppendEntriesArgs
<1> HIDE DEF prev
<1>5. Len(EntriesAfter(s, prev)) = Known(s) - prev
  BY <1>2, <1>3, EntriesAfterIndex DEF TypeInv
<1>6. prev = 0 => getLogTermFromLogIndex(s, prev) = 0
  BY <1>1 DEF getLogTermFromLogIndex
<1>7. prev + Len(EntriesAfter(s, prev)) = Known(s)
  BY <1>2, <1>3, <1>5
<1>8. \E e \in elected : e.term = m_currentTerm[s] /\ e.leader = s
  BY DEF LeadersElected
<1>9. QED
  BY <1>2, <1>4, <1>6, <1>7, <1>8 DEF CallWithin

\* What a call carries stays within its caller's log.
LEMMA NextCallsWithin ==
    ASSUME MaxSnapshotIndex = 0, TypeInv, TypeInv', IndexOrder, LeadersElected, NoSnapshots,
           \A m \in AppendCalls : CallWithin(m), [Next]_vars
    PROVE  \A m \in AppendCalls' : CallWithin(m)'
<1>1. \A v \in Server : Known(v) \in Nat /\ Known(v)' \in Nat /\ Known(v)' >= Known(v)
  BY KnownGrows
<1>2. elected \subseteq elected'
  BY LeadersStayElected DEF TypeInv
<1>3. ASSUME NEW m, CallWithin(m), m.caller \in Server, m.prevlogindex + Len(m.entries) \in Nat
      PROVE  CallWithin(m)'
  BY <1>1, <1>2, <1>3 DEF CallWithin
<1>4. ASSUME NEW m \in AppendCalls PROVE CallWithin(m)'
  <2>1. m \in AppendArgs
    BY DEF AppendCalls, TypeInv, TypeOK, AppendTypeOK, AppendReply
  <2>2. m.caller \in Server /\ m.prevlogindex \in Nat /\ m.entries \in Seq(Entry)
    BY <2>1 DEF AppendArgs
  <2>3. m.prevlogindex + Len(m.entries) \in Nat
    BY <2>2
  <2>4. QED
    BY <1>3, <2>2, <2>3
<1>5. CASE AppendCalls' \subseteq AppendCalls
  BY <1>4, <1>5
<1>6. CASE appendReq' \subseteq appendReq /\ appendRep' \subseteq appendRep
  <2>1. AppendCalls' \subseteq AppendCalls
    BY <1>6 DEF AppendCalls
  <2>2. QED
    BY <1>5, <2>1
<1>7. ASSUME NEW s \in Server, ElectionStep(s) PROVE UNCHANGED appendVars
  BY <1>7 DEF ElectionStep, electionTimeOutTicker, doElection, RequestVote, sendRequestVote
<1>8. ASSUME NEW s \in Server, leaderHearBeatTicker(s) PROVE \A m \in AppendCalls' : CallWithin(m)'
  <2>1. m_status[s] = "Leader" /\ UNCHANGED appendRep
    BY <1>8 DEF leaderHearBeatTicker, doHeartBeat
  <2>2. CASE \A i \in Server \ {s} : NextIndexUsable(s, i)
    <3>1. appendReq' = appendReq \cup
                 {AppendEntriesArgs(s, i) : i \in (Server \ {s}) \ NeedsSnapshot(s)}
      BY <1>8, <2>2 DEF leaderHearBeatTicker, doHeartBeat
    <3>2. \A m \in AppendCalls' : m \in AppendCalls \/ \E i \in Server \ {s} : m = AppendEntriesArgs(s, i)
      BY <2>1, <3>1 DEF AppendCalls
    <3>3. ASSUME NEW m \in AppendCalls', NEW i \in Server \ {s}, m = AppendEntriesArgs(s, i)
          PROVE  CallWithin(m)'
      <4>1. CallWithin(m) /\ m.prevlogindex + Len(m.entries) = Known(s)
        BY <2>1, <2>2, <3>3, HeartBeatCalls
      <4>2. m.caller = s
        BY <3>3 DEF AppendEntriesArgs
      <4>3. QED
        BY <1>1, <1>3, <4>1, <4>2
    <3>4. QED
      BY <1>4, <3>2, <3>3
  <2>3. CASE ~\A i \in Server \ {s} : NextIndexUsable(s, i)
    BY <1>6, <1>8, <2>3 DEF leaderHearBeatTicker, doHeartBeat
  <2>4. QED
    BY <2>2, <2>3
<1>9. ASSUME NEW s \in Server, AppendEntries1(s) PROVE AppendCalls' \subseteq AppendCalls
  <2>1. PICK m \in appendReq :
          /\ appendReq' = appendReq \ {m}
          /\ appendRep' = appendRep \/ \E t, ok, next : AnswerAppend(m, t, ok, next)
    <3>1. \A m : AcceptAppend(s, m) => appendRep' = appendRep \/ AnswerAppend(m, m.term, TRUE, 0)
      BY DEF AcceptAppend
    <3>2. QED
      BY <1>9, <3>1 DEF AppendEntries1, RejectStaleAppend, RejectGap, FailInMatchLog, RejectMismatch
  <2>2. QED
    BY <2>1 DEF AppendCalls, AnswerAppend
<1>10. ASSUME NEW s \in Server,
              sendAppendEntries(s) \/ applierTicker(s) \/ CallFails(s) \/ \E c \in Command : Start(s, c)
       PROVE  appendReq' \subseteq appendReq /\ appendRep' \subseteq appendRep
  BY <1>10 DEF sendAppendEntries, applierTicker, CallFails, Start, appendVars
<1>11. UNCHANGED vars => UNCHANGED appendVars
  BY DEF vars
<1>12. UNCHANGED appendVars => \A m \in AppendCalls' : CallWithin(m)'
  BY <1>6 DEF appendVars
<1>13. QED
  BY <1>5, <1>6, <1>7, <1>8, <1>9, <1>10, <1>11, <1>12, NoSnapshotSteps DEF Next, ReplicationStep

\* A refusal asks the leader to go on from an index it can use.
LEMMA NextRefusalsUsable ==
    ASSUME MaxSnapshotIndex = 0, TypeInv, NoSnapshots, \A m \in AppendCalls : CallWithin(m),
           \A r \in appendRep : RefusalUsable(r), [Next]_vars
    PROVE  \A r \in appendRep' : RefusalUsable(r)
<1>1. CASE appendRep' \subseteq appendRep
  BY <1>1
<1>2. ASSUME NEW s \in Server, AppendEntries1(s) PROVE \A r \in appendRep' : RefusalUsable(r)
  <2>1. PICK m \in appendReq :
          \/ RejectStaleAppend(s, m) \/ RejectGap(s, m) \/ FailInMatchLog(s, m)
          \/ AcceptAppend(s, m) \/ RejectMismatch(s, m)
    BY <1>2 DEF AppendEntries1
  <2>2. ASSUME NEW t, NEW ok, NEW next, AnswerAppend(m, t, ok, next),
               ok \/ next = -100 \/ (1 <= next /\ next <= m.prevlogindex)
        PROVE  \A r \in appendRep' : RefusalUsable(r)
    BY <2>2 DEF AnswerAppend, RefusalUsable
  <2>3. CASE RejectStaleAppend(s, m)
    BY <2>2, <2>3 DEF RejectStaleAppend
  <2>4. getLastLogIndex(s) \in Nat /\ m.prevlogindex \in Nat /\ m_lastSnapshotIncludeIndex[s] = 0
        /\ m_lastSnapshotIncludeTerm[s] = 0
    BY LastIndexOfLog DEF TypeInv, TypeOK, AppendTypeOK, AppendArgs, NoSnapshots
  <2>5. CASE RejectGap(s, m)
    <3>1. /\ AnswerAppend(m, m.term, FALSE, getLastLogIndex(s) + 1)
          /\ m.prevlogindex > getLastLogIndex(s)
      BY <2>5 DEF RejectGap
    <3>2. 1 <= getLastLogIndex(s) + 1 /\ getLastLogIndex(s) + 1 <= m.prevlogindex
      BY <2>4, <3>1
    <3>3. QED
      BY <2>2, <3>1, <3>2
  <2>6. CASE FailInMatchLog(s, m)
    BY <1>1, <2>6 DEF FailInMatchLog
  <2>7. CASE AcceptAppend(s, m)
    <3>1. appendRep' = appendRep \/ AnswerAppend(m, m.term, TRUE, 0)
      BY <2>7 DEF AcceptAppend
    <3>2. QED
      BY <1>1, <2>2, <3>1
  <2>8. CASE RejectMismatch(s, m)
    <3>1. PICK next \in 0..m.prevlogindex :
            BacksUpTo(s, m.prevlogindex, next) /\ AnswerAppend(m, m.term, FALSE, next)
      BY <2>8 DEF RejectMismatch
    <3>2. m.prevlogindex # 0
      <4>1. m.prevlogindex = 0 => m.prevlogterm = 0
        BY DEF AppendCalls, CallWithin
      <4>2. ~matchLog(s, m.prevlogindex, m.prevlogterm)
        BY <2>8 DEF RejectMismatch
      <4>3. QED
        BY <2>4, <4>1, <4>2 DEF matchLog, getLogTermFromLogIndex
    <3>3. next = m.prevlogindex \/ next > 0
      BY <2>4, <3>1 DEF BacksUpTo
    <3>4. 1 <= next /\ next <= m.prevlogindex
      BY <2>4, <3>2, <3>3
    <3>5. QED
      BY <2>2, <3>1, <3>4
  <2>9. QED
    BY <2>1, <2>3, <2>5, <2>6, <2>7, <2>8
<1>3. ASSUME NEW s \in Server, ~AppendEntries1(s), ElectionStep(s) \/ ReplicationStep(s) \/ CallFails(s)
      PROVE  appendRep' \subseteq appendRep
  <2>1. CASE ElectionStep(s)
    BY <2>1 DEF ElectionStep, electionTimeOutTicker, doElection, RequestVote, sendRequestVote, appendVars
  <2>2. CASE ReplicationStep(s)
    BY <1>3, <2>2 DEF ReplicationStep, Start, leaderHearBeatTicker, doHeartBeat,
      sendAppendEntries, applierTicker, appendVars
  <2>3. CASE CallFails(s)
    BY <2>3 DEF CallFails, appendVars
  <2>4. QED
    BY <1>3, <2>1, <2>2, <2>3
<1>4. UNCHANGED vars => appendRep' \subseteq appendRep
  BY DEF vars, appendVars
<1>5. QED
  BY <1>1, <1>2, <1>3, <1>4, NoSnapshotSteps DEF Next

\* What a leader believes of its peers stays within its log.
LEMMA NextPeersWithin ==
    ASSUME MaxSnapshotIndex = 0, TypeInv, TypeInv', IndexOrder, NoSnapshots, LeadersElected,
           \A m \in AppendCalls : CallWithin(m), \A r \in appendRep : RefusalUsable(r),
           PeersWithin, [Next]_vars
    PROVE  PeersWithin'
<1>1. \A v \in Server : Known(v) \in Nat /\ Known(v)' \in Nat /\ Known(v)' >= Known(v)
  BY KnownGrows
<1>2. /\ m_matchIndex \in [Server -> [Server -> Nat]] /\ m_nextIndex \in [Server -> [Server -> Int]]
      /\ m_status \in [Server -> {"Follower", "Candidate", "Leader"}]
  BY DEF TypeInv, TypeOK, NodeTypeOK, PeerTypeOK
<1>3. ASSUME UNCHANGED peerVars, \A v \in Server : m_status'[v] = "Leader" => m_status[v] = "Leader"
      PROVE  PeersWithin'
  BY <1>1, <1>2, <1>3 DEF PeersWithin, peerVars
<1>4. ASSUME NEW s \in Server, NEW i \in Server, NEW n \in Int, NEW k \in Nat,
             m_status'[s] = "Leader" => m_status[s] = "Leader" /\ 1 <= n /\ n <= Known(s) + 1,
             k <= Known(s),
             m_nextIndex' = [m_nextIndex EXCEPT ![s][i] = n],
             m_matchIndex' = [m_matchIndex EXCEPT ![s][i] = k],
             \A v \in Server : m_status'[v] = "Leader" => m_status[v] = "Leader"
      PROVE  PeersWithin'
  <2>1. ASSUME NEW u \in Server, NEW v \in Server
        PROVE  /\ m_nextIndex'[u][v] = IF u = s /\ v = i THEN n ELSE m_nextIndex[u][v]
               /\ m_matchIndex'[u][v] = IF u = s /\ v = i THEN k ELSE m_matchIndex[u][v]
    BY <1>2, <1>4
  <2>2. ASSUME NEW u \in Server, NEW v \in Server
        PROVE  m_nextIndex[u][v] \in Int /\ m_matchIndex[u][v] \in Nat
    BY <1>2
  <2>3. QED
    BY <1>1, <1>4, <2>1, <2>2 DEF PeersWithin
<1>5. ASSUME NEW s \in Server, ElectionStep(s) PROVE PeersWithin'
  <2>1. CASE electionTimeOutTicker(s)
    BY <1>2, <1>3, <2>1 DEF electionTimeOutTicker, doElection
  <2>2. CASE RequestVote(s)
    <3>1. UNCHANGED peerVars
      BY <2>2 DEF RequestVote
    <3>2. PICK m \in voteReq : UNCHANGED m_status
                 \/ m_status' = [m_status EXCEPT ![s] = StatusAfterVote(s, m)]
      BY <2>2 DEF RequestVote, RejectVote, DecideVote, nodeVars
    <3>3. QED
      BY <1>2, <1>3, <3>1, <3>2 DEF StatusAfterVote
  <2>3. CASE sendRequestVote(s)
    <3>1. PICK r \in voteRep :
            \/ StepDown(s, r.term) /\ UNCHANGED peerVars
            \/ UNCHANGED <<nodeVars, peerVars>>
            \/ CountVote(s, r)
      BY <2>3 DEF sendRequestVote
    <3>2. CASE StepDown(s, r.term) /\ UNCHANGED peerVars
      BY <1>2, <1>3, <3>2 DEF StepDown
    <3>3. CASE UNCHANGED <<nodeVars, peerVars>>
      BY <1>3, <3>3 DEF nodeVars
    <3>4. CASE CountVote(s, r) /\ ~UNCHANGED <<nodeVars, peerVars>>
      <4> DEFINE wins == Cardinality(votedNum[s] \cup {r.args.callee}) >= Majority
      <4>1. /\ m_status' = [m_status EXCEPT ![s] = IF wins THEN "Leader" ELSE @]
            /\ m_nextIndex' = [m_nextIndex EXCEPT ![s] =
                  IF wins THEN [i \in Server |-> getLastLogIndex(s) + 1] ELSE @]
            /\ m_matchIndex' = [m_matchIndex EXCEPT ![s] =
                  IF wins THEN [i \in Server |-> 0] ELSE @]
        BY <3>4 DEF CountVote
      <4>2. getLastLogIndex(s) = Known(s)
        BY LastIndexOfLog DEF TypeInv, Known
      <4> HIDE DEF wins
      <4>3. CASE ~wins
        <5>1. UNCHANGED <<m_status, peerVars>>
          BY <1>2, <4>1, <4>3 DEF peerVars
        <5>2. QED
          BY <1>3, <5>1
      <4>4. CASE wins
        <5>1. ASSUME NEW u \in Server, NEW v \in Server
              PROVE  /\ m_nextIndex'[u][v] = IF u = s THEN Known(s) + 1 ELSE m_nextIndex[u][v]
                     /\ m_matchIndex'[u][v] = IF u = s THEN 0 ELSE m_matchIndex[u][v]
                     /\ u # s => m_status'[u] = m_status[u]
                     /\ m_nextIndex[u][v] \in Int /\ m_matchIndex[u][v] \in Nat
          BY <1>2, <4>1, <4>2, <4>4
        <5>2. QED
          BY <1>1, <5>1 DEF PeersWithin
      <4>5. QED
        BY <4>3, <4>4
    <3>5. QED
      BY <3>1, <3>2, <3>3, <3>4
  <2>4. QED
    BY <1>5, <2>1, <2>2, <2>3 DEF ElectionStep
<1>6. ASSUME NEW s \in Server, AppendEntries1(s) PROVE PeersWithin'
  <2>1. UNCHANGED peerVars
    BY <1>6 DEF AppendEntries1
  <2>2. PICK m \in appendReq : UNCHANGED m_status \/ m_status' = [m_status EXCEPT ![s] = "Follower"]
    <3>1. \A m : AcceptAppend(s, m) => UNCHANGED m_status \/ m_status' = [m_status EXCEPT ![s] = "Follower"]
      BY DEF AcceptAppend, FollowCaller, nodeVars
    <3>2. QED
      BY <1>6, <3>1 DEF AppendEntries1, RejectStaleAppend, RejectGap, FailInMatchLog,
        RejectMismatch, FollowCaller, nodeVars
  <2>3. QED
    BY <1>2, <1>3, <2>1, <2>2
<1>7. ASSUME NEW s \in Server, sendAppendEntries(s) PROVE PeersWithin'
  <2>1. PICK r \in appendRep :
          /\ r.args.caller = s
          /\ \/ StepDown(s, r.term) /\ UNCHANGED peerVars
             \/ UNCHANGED <<nodeVars, peerVars>>
             \/ /\ m_status[s] = "Leader" /\ ~r.success /\ UNCHANGED <<nodeVars, m_matchIndex>>
                /\ m_nextIndex' = [m_nextIndex EXCEPT ![s][r.args.callee] =
                     IF r.updatenextindex # -100 THEN r.updatenextindex ELSE @]
             \/ CountAppend(s, r) /\ UNCHANGED nodeVars
    BY <1>7 DEF sendAppendEntries
  <2> DEFINE i == r.args.callee
  <2>2. /\ i \in Server /\ r.args.prevlogindex \in Nat /\ r.args.entries \in Seq(Entry)
        /\ r.updatenextindex \in Int
    BY DEF TypeInv, TypeOK, AppendTypeOK, AppendReply, AppendArgs
  <2>3. /\ Known(s) \in Nat /\ getLastLogIndex(s) = Known(s)
    BY <1>1, LastIndexOfLog DEF TypeInv, Known
  <2>4. r.args.prevlogindex <= Known(s)
    <3>1. r.args.prevlogindex + Len(r.args.entries) <= Known(s) /\ Len(r.args.entries) \in Nat
      BY <2>1, <2>2 DEF AppendCalls, CallWithin
    <3>2. QED
      BY <2>2, <2>3, <3>1
  <2>5. CASE StepDown(s, r.term) /\ UNCHANGED peerVars
    BY <1>2, <1>3, <2>5 DEF StepDown
  <2>6. CASE UNCHANGED <<nodeVars, peerVars>>
    BY <1>3, <2>6 DEF nodeVars
  <2>7. CASE /\ m_status[s] = "Leader" /\ ~r.success /\ UNCHANGED <<nodeVars, m_matchIndex>>
             /\ m_nextIndex' = [m_nextIndex EXCEPT ![s][i] =
                     IF r.updatenextindex # -100 THEN r.updatenextindex ELSE @]
    <3> DEFINE n == IF r.updatenextindex # -100 THEN r.updatenextindex ELSE m_nextIndex[s][i]
    <3>1. n \in Int /\ 1 <= n /\ n <= Known(s) + 1
      <4>1. m_nextIndex[s][i] \in Int /\ 1 <= m_nextIndex[s][i] /\ m_nextIndex[s][i] <= Known(s) + 1
        BY <1>2, <2>2, <2>7 DEF PeersWithin
      <4>2. RefusalUsable(r)
        OBVIOUS
      <4>3. QED
        BY <2>2, <2>3, <2>4, <2>7, <4>1, <4>2 DEF RefusalUsable
    <3>2. m_nextIndex' = [m_nextIndex EXCEPT ![s][i] = n]
      BY <1>2, <2>2, <2>7
    <3>3. m_matchIndex' = [m_matchIndex EXCEPT ![s][i] = m_matchIndex[s][i]]
      BY <1>2, <2>2, <2>7
    <3>4. m_matchIndex[s][i] \in Nat /\ m_matchIndex[s][i] <= Known(s)
      BY <1>2, <2>2 DEF PeersWithin
    <3> HIDE DEF n, i
    <3>5. QED
      BY <1>4, <2>2, <2>7, <3>1, <3>2, <3>3, <3>4 DEF nodeVars
  <2>8. CASE CountAppend(s, r) /\ UNCHANGED nodeVars /\ ~UNCHANGED peerVars
    <3> DEFINE match == MaxOf(m_matchIndex[s][i], r.args.prevlogindex + Len(r.args.entries))
    <3>1. /\ match <= getLastLogIndex(s)
          /\ m_matchIndex' = [m_matchIndex EXCEPT ![s][i] = match]
          /\ m_nextIndex' = [m_nextIndex EXCEPT ![s][i] = match + 1]
      BY <2>8 DEF CountAppend
    <3>2. match \in Nat
      <4>1. m_matchIndex[s][i] \in Nat
        BY <1>2, <2>2
      <4>2. Len(r.args.entries) \in Nat /\ r.args.prevlogindex \in Nat
        BY <2>2
      <4>3. QED
        BY <4>1, <4>2 DEF MaxOf
    <3> HIDE DEF match, i
    <3>3. match + 1 \in Int /\ 1 <= match + 1 /\ match + 1 <= Known(s) + 1 /\ match <= Known(s)
      BY <2>3, <3>1, <3>2
    <3>4. QED
      BY <1>4, <2>2, <2>8, <3>1, <3>2, <3>3 DEF nodeVars
  <2>9. QED
    BY <2>1, <2>5, <2>6, <2>7, <2>8 DEF nodeVars
<1>8. ASSUME NEW s \in Server,
             \/ leaderHearBeatTicker(s) \/ applierTicker(s) \/ CallFails(s)
             \/ \E c \in Command : Start(s, c)
      PROVE  UNCHANGED <<nodeVars, peerVars>>
  BY <1>8 DEF leaderHearBeatTicker, doHeartBeat, applierTicker, CallFails, Start
<1>9. UNCHANGED vars => UNCHANGED <<nodeVars, peerVars>>
  BY DEF vars
<1>10. UNCHANGED <<nodeVars, peerVars>> => PeersWithin'
  BY <1>3 DEF nodeVars
<1>11. QED
  BY <1>5, <1>6, <1>7, <1>8, <1>9, <1>10, NoSnapshotSteps DEF Next, ReplicationStep
\* Who wins an election is leader then.
LEMMA NewWinnersLead ==
    ASSUME TypeOK, [Next]_vars, NEW e \in elected', e \notin elected
    PROVE  e.leader \in Server /\ m_status'[e.leader] = "Leader"
<1>2. ASSUME NEW s \in Server, sendRequestVote(s) PROVE e.leader \in Server /\ m_status'[e.leader] = "Leader"
  <2>1. PICK r \in voteRep : CountVote(s, r)
    BY <1>2 DEF sendRequestVote
  <2> DEFINE counted == votedNum[s] \cup {r.args.callee}
             wins == Cardinality(counted) >= Majority
             won == [term |-> m_currentTerm[s], leader |-> s, quorum |-> counted]
  <2>2. /\ m_status' = [m_status EXCEPT ![s] = IF wins THEN "Leader" ELSE @]
        /\ elected' = elected \cup (IF wins THEN {won} ELSE {})
    BY <2>1 DEF CountVote
  <2>3. won.leader = s
    OBVIOUS
  <2>4. m_status \in [Server -> {"Follower", "Candidate", "Leader"}]
    BY DEF TypeOK, NodeTypeOK
  <2> HIDE DEF wins, won
  <2>5. QED
    BY <2>2, <2>3, <2>4
<1>3. ASSUME NEW s \in Server, ReplicationStep(s) PROVE UNCHANGED voteVars
  BY <1>3 DEF ReplicationStep, Start, leaderHearBeatTicker, doHeartBeat, AppendEntries1,
    sendAppendEntries, applierTicker
<1>4. ASSUME NEW s \in Server, SnapshotStep(s) PROVE UNCHANGED voteVars
  BY <1>4 DEF SnapshotStep, Snapshot, SendSnapShot, InstallSnapshot, leaderSendSnapShot,
    ConnectionClosed
<1>5. UNCHANGED vars => UNCHANGED voteVars
  BY DEF vars
<1>6. UNCHANGED voteVars => elected' = elected
  BY DEF voteVars
<1>7. \A s \in Server : electionTimeOutTicker(s) \/ RequestVote(s) \/ CallFails(s) => elected' = elected
  BY DEF electionTimeOutTicker, doElection, RequestVote, CallFails
<1>8. QED
  BY <1>2, <1>3, <1>4, <1>5, <1>6, <1>7 DEF Next, ElectionStep

\* The winner of a term leads until it leaves the term.
LEMMA NextWinnersLead ==
    ASSUME MaxSnapshotIndex = 0, TypeInv, TypeInv', NoSnapshots, ElectionSafety, LeadersElected,
           \A m \in AppendCalls : CallWithin(m), WinnersInTerm, WinnersLead, [Next]_vars
    PROVE  WinnersLead'
<1> SUFFICES ASSUME NEW e \in elected', e.term = m_currentTerm'[e.leader]
             PROVE  m_status'[e.leader] = "Leader"
  BY DEF WinnersLead
<1>1. CASE e \notin elected
  BY <1>1, NewWinnersLead DEF TypeInv
<1>2. CASE e \in elected
  <2>1. e.leader \in Server /\ e.term \in Nat
    BY <1>2 DEF TypeInv, TypeOK, VoteTypeOK
  <2>2. m_currentTerm[e.leader] \in Nat /\ m_currentTerm'[e.leader] \in Nat
    BY <2>1 DEF TypeInv, TypeOK, NodeTypeOK
  <2>3. m_currentTerm'[e.leader] >= m_currentTerm[e.leader]
    BY <2>1, TermsGrow DEF TypeInv
  <2>4. e.term <= m_currentTerm[e.leader]
    BY <1>2 DEF WinnersInTerm
  <2>5. m_currentTerm'[e.leader] = m_currentTerm[e.leader]
    BY <2>1, <2>2, <2>3, <2>4
  <2>6. m_status[e.leader] = "Leader"
    BY <1>2, <2>5 DEF WinnersLead
  <2>7. QED
    BY <2>1, <2>5, <2>6, LeaderKept
<1>3. QED
  BY <1>1, <1>2

\* A call that reaches AppendEntries1's loop passes its three assertions.
LEMMA AcceptPasses ==
    ASSUME TypeInv, IndexOrder, CommandsUnique, NEW s \in Server, NEW m \in appendReq,
           AcceptAppend(s, m)
    PROVE  UNCHANGED exited
<1> DEFINE log == Merged(s, m)
           last == LastIndexOf(log, m_lastSnapshotIncludeIndex[s])
           commit == IF m.leadercommit > m_commitIndex[s]
                     THEN MinOf(m.leadercommit, last) ELSE m_commitIndex[s]
<1>1. MatchLogDefined(s, m.prevlogindex)
  BY DEF AcceptAppend
<1>2. /\ m_logs[s] \in Seq(Entry) /\ m_lastSnapshotIncludeIndex[s] \in Nat
      /\ m_commitIndex[s] \in Nat /\ m.leadercommit \in Nat
      /\ m.prevlogindex \in Nat /\ m.entries \in Seq(Entry)
  BY DEF TypeInv, TypeOK, LogTypeOK, ApplyTypeOK, AppendTypeOK, AppendArgs
<1>3. /\ log \in Seq(Entry) /\ Len(log) >= Len(m_logs[s])
      /\ last = m_lastSnapshotIncludeIndex[s] + Len(log)
  BY <1>1, <1>2, MergedLog, LastIndexOfNumbered
<1>4. Len(log) >= (m.prevlogindex - m_lastSnapshotIncludeIndex[s]) + Len(m.entries)
  <2>1. PICK off : off = getSlicesIndexFromLogIndex(s, m.prevlogindex)
    OBVIOUS
  <2>2. SlotsAfter(s, m, off)
    BY <1>1, <2>1, MergedSlots
  <2>3. QED
    BY <2>1, <2>2 DEF SlotsAfter, getSlicesIndexFromLogIndex
<1>5. CommandsAgree(s, m)
  <2> SUFFICES ASSUME NEW k \in 1..Len(m.entries), InLog(s, m.entries[k].logindex),
                      EntryAt(s, m.entries[k].logindex).logterm = m.entries[k].logterm
               PROVE  EntryAt(s, m.entries[k].logindex).command = m.entries[k].command
    BY DEF CommandsAgree
  <2> DEFINE i == m.entries[k].logindex
             j == i - m_lastSnapshotIncludeIndex[s]
  <2>1. m.entries[k] \in Written /\ i \in Nat
    BY WrittenMember, WrittenTyped
  <2>2. getLastLogIndex(s) = m_lastSnapshotIncludeIndex[s] + Len(m_logs[s])
    BY LastIndexOfLog DEF TypeInv
  <2>3. j \in 1..Len(m_logs[s])
    BY <1>2, <2>1, <2>2 DEF InLog
  <2>4. EntryAt(s, i) = m_logs[s][j]
    BY DEF EntryAt, getSlicesIndexFromLogIndex
  <2>5. m_logs[s][j].logindex = i
    <3>1. m_logs[s][j].logindex = m_lastSnapshotIncludeIndex[s] + j
      BY <2>3 DEF TypeInv, LogContiguous
    <3>2. QED
      BY <1>2, <2>1, <3>1
  <2>6. m_logs[s][j] \in Written
    BY <2>3, WrittenMember
  <2> HIDE DEF i, j
  <2>7. QED
    BY <2>1, <2>4, <2>5, <2>6 DEF CommandsUnique, i
<1> HIDE DEF log, last
<1>6. last >= m.prevlogindex + Len(m.entries) /\ last >= m_commitIndex[s] /\ last \in Nat
  <2>1. m_commitIndex[s] <= m_lastSnapshotIncludeIndex[s] + Len(m_logs[s])
    BY LastIndexOfLog DEF TypeInv, IndexOrder
  <2>2. Len(log) \in Nat /\ Len(m_logs[s]) \in Nat /\ Len(m.entries) \in Nat
    BY <1>2, <1>3
  <2>3. /\ m_lastSnapshotIncludeIndex[s] \in Nat /\ m.prevlogindex \in Nat /\ m_commitIndex[s] \in Nat
        /\ Len(log) >= Len(m_logs[s]) /\ last = m_lastSnapshotIncludeIndex[s] + Len(log)
    BY <1>2, <1>3
  <2>4. \A a, b, c, d, e, p \in Nat :
           a >= b /\ c <= d + b /\ a >= (p - d) + e => d + a >= p + e /\ d + a >= c /\ d + a \in Nat
    OBVIOUS
  <2>5. QED
    BY <1>4, <2>1, <2>2, <2>3, <2>4
<1>7. last >= commit
  BY <1>2, <1>6 DEF MinOf
<1>8. QED
  BY <1>5, <1>6, <1>7 DEF AcceptAppend, log, last

\* No step fails an assertion.
LEMMA NextNeverExits ==
    ASSUME MaxSnapshotIndex = 0, TypeInv, VoteInv, IndexOrder, LogInv, CountInv, SafeInv, [Next]_vars
    PROVE  NeverExits'
<1>1. UNCHANGED exited => NeverExits'
  BY DEF SafeInv, NeverExits, Running
<1>2. ASSUME NEW s \in Server PROVE getLastLogIndex(s) = Known(s) /\ Known(s) \in Nat
  BY LastIndexOfLog DEF TypeInv, Known
<1>3. ASSUME NEW s \in Server, ElectionStep(s) PROVE UNCHANGED exited
  <2>1. CASE electionTimeOutTicker(s) \/ RequestVote(s)
    BY <2>1 DEF electionTimeOutTicker, doElection, RequestVote
  <2>2. CASE sendRequestVote(s)
    <3>1. PICK r \in voteRep :
            /\ r.args.caller = s
            /\ UNCHANGED exited \/ (r.term = m_currentTerm[s] /\ r.votegranted /\ CountVote(s, r))
      BY <2>2 DEF sendRequestVote
    <3>2. CASE r.term = m_currentTerm[s] /\ r.votegranted /\ CountVote(s, r)
      <4>1. m_status[s] = "Leader" => ~(Cardinality(votedNum[s] \cup {r.args.callee}) >= Majority)
        BY <3>1, <3>2, NoSecondMajority DEF TypeInv, LogInv
      <4>2. QED
        BY <3>2, <4>1 DEF CountVote
    <3>3. QED
      BY <3>1, <3>2
  <2>3. QED
    BY <1>3, <2>1, <2>2 DEF ElectionStep
<1>4. ASSUME NEW s \in Server, leaderHearBeatTicker(s) PROVE UNCHANGED exited
  <2>1. \A i \in Server \ {s} : NextIndexUsable(s, i)
    BY <1>2, <1>4 DEF leaderHearBeatTicker, doHeartBeat, SafeInv, PeersWithin, NextIndexUsable
  <2>2. QED
    BY <1>4, <2>1 DEF leaderHearBeatTicker, doHeartBeat
<1>5. ASSUME NEW s \in Server, AppendEntries1(s) PROVE UNCHANGED exited
  <2>1. PICK m \in appendReq : UNCHANGED exited \/ FailInMatchLog(s, m) \/ AcceptAppend(s, m)
    BY <1>5 DEF AppendEntries1, RejectStaleAppend, RejectGap, RejectMismatch
  <2>2. ~FailInMatchLog(s, m)
    <3>1. m_lastSnapshotIncludeIndex[s] = 0 /\ m.prevlogindex \in Nat
      BY DEF SafeInv, NoSnapshots, TypeInv, TypeOK, AppendTypeOK, AppendArgs
    <3>2. QED
      BY <3>1 DEF FailInMatchLog, MatchLogDefined
  <2>3. QED
    BY <2>1, <2>2, AcceptPasses DEF LogInv
<1>6. ASSUME NEW s \in Server, sendAppendEntries(s) PROVE UNCHANGED exited
  <2>1. PICK r \in appendRep : r.args.caller = s /\ (UNCHANGED exited \/ CountAppend(s, r))
    BY <1>6 DEF sendAppendEntries
  <2> DEFINE i == r.args.callee
             end == r.args.prevlogindex + Len(r.args.entries)
             match == MaxOf(m_matchIndex[s][i], end)
             counted == appendNums[s][r.args.round] \cup {i}
             reached == Cardinality(counted) >= Majority
             commit == IF reached THEN CommitAfter(s, r.args) ELSE m_commitIndex[s]
  <2>2. /\ i \in Server /\ r.args.prevlogindex \in Nat /\ r.args.entries \in Seq(Entry)
        /\ m_commitIndex[s] \in Nat
    BY DEF TypeInv, TypeOK, ApplyTypeOK, AppendTypeOK, AppendReply, AppendArgs
  <2>3. end <= Known(s) /\ end \in Nat
    <3>1. Len(r.args.entries) \in Nat
      BY <2>2
    <3>2. QED
      BY <2>1, <2>2, <3>1 DEF SafeInv, AppendCalls, CallWithin
  <2>4. m_matchIndex[s][i] <= Known(s) /\ m_matchIndex[s][i] \in Nat
    BY <2>2 DEF SafeInv, PeersWithin, TypeInv, TypeOK, PeerTypeOK
  <2>5. m_commitIndex[s] <= Known(s)
    BY <1>2 DEF IndexOrder
  <2>6. match <= getLastLogIndex(s)
    BY <1>2, <2>3, <2>4 DEF MaxOf
  <2>7. reached => commit <= getLastLogIndex(s)
    <3>1. MaxOf(m_commitIndex[s], end) <= Known(s)
      BY <1>2, <2>2, <2>3, <2>5 DEF MaxOf
    <3>2. CommitAfter(s, r.args) = m_commitIndex[s] \/ CommitAfter(s, r.args) = MaxOf(m_commitIndex[s], end)
      BY DEF CommitAfter
    <3>3. QED
      BY <1>2, <2>5, <3>1, <3>2
  <2>8. CountAppend(s, r) => UNCHANGED exited
    BY <2>6, <2>7 DEF CountAppend
  <2>9. QED
    BY <2>1, <2>8
<1>7. ASSUME NEW s \in Server, applierTicker(s) PROVE UNCHANGED exited
  <2>1. /\ m_commitIndex[s] \in Nat /\ m_lastApplied[s] \in Nat /\ m_lastSnapshotIncludeIndex[s] \in Nat
        /\ Len(m_logs[s]) \in Nat
    BY DEF TypeInv, TypeOK, ApplyTypeOK, LogTypeOK
  <2>2. /\ m_lastSnapshotIncludeIndex[s] <= m_lastApplied[s] /\ m_commitIndex[s] <= Known(s)
        /\ m_commitIndex[s] <= getLastLogIndex(s)
    BY <1>2 DEF IndexOrder
  <2>3. ASSUME NEW i \in (m_lastApplied[s] + 1)..m_commitIndex[s]
        PROVE  InLog(s, i) /\ EntryAt(s, i).logindex = i
    <3>1. i - m_lastSnapshotIncludeIndex[s] \in 1..Len(m_logs[s])
      BY <2>1, <2>2 DEF Known
    <3>2. m_logs[s][i - m_lastSnapshotIncludeIndex[s]].logindex = i
      BY <2>1, <3>1 DEF TypeInv, LogContiguous
    <3>3. InLog(s, i)
      BY <1>2, <2>1, <2>2 DEF InLog
    <3>4. QED
      BY <3>2, <3>3 DEF EntryAt, getSlicesIndexFromLogIndex
  <2>4. QED
    BY <1>7, <2>2, <2>3 DEF applierTicker, getApplyLogs
<1>8. ASSUME NEW s \in Server, CallFails(s) \/ \E c \in Command : Start(s, c) PROVE UNCHANGED exited
  BY <1>8 DEF CallFails, Start
<1>9. UNCHANGED vars => UNCHANGED exited
  BY DEF vars
<1>10. \A s \in Server : ~SnapshotStep(s)
  BY NoSnapshotSteps DEF SafeInv
<1>11. QED
  BY <1>1, <1>3, <1>4, <1>5, <1>6, <1>7, <1>8, <1>9, <1>10 DEF Next, ReplicationStep

\* The books of the elections are kept in every state, with snapshots or without.
THEOREM CountInvariant == Spec => []CountInv
<1>1. Init => CountInv
  BY DEF Init, CountInv, CalledOnce, CountedOnce, WinnersInTerm, VoteCalls
<1>2. CountInv /\ TypeInv /\ TypeInv' /\ VoteInv /\ [Next]_vars => CountInv'
  BY NextCountInv DEF TypeInv, VoteInv
<1>3. QED
  BY <1>1, <1>2, TypeInvariant, VoteInvariant, PTL DEF Spec

\* The inductive invariant of the two theorems below.
THEOREM SafeInvariant ==
    ASSUME MaxSnapshotIndex = 0
    PROVE  Spec => []SafeInv
<1>1. Init => SafeInv
  <2> SUFFICES ASSUME Init PROVE SafeInv
    OBVIOUS
  <2>1. \A s \in Server : Known(s) = 0
    BY DEF Init, Known
  <2>2. AppendCalls = {}
    BY DEF Init, AppendCalls
  <2>3. PeersWithin
    BY <2>1 DEF Init, PeersWithin
  <2>4. QED
    BY <2>2, <2>3 DEF Init, SafeInv, NoSnapshots, WinnersLead, NeverExits, Running
<1>2. TypeInv /\ TypeInv' /\ VoteInv /\ ElectionSafety /\ IndexOrder /\ LogInv /\ CountInv /\ SafeInv
        /\ [Next]_vars => SafeInv'
  <2> SUFFICES ASSUME TypeInv, TypeInv', VoteInv, ElectionSafety, IndexOrder, LogInv, CountInv,
                      SafeInv, [Next]_vars
               PROVE  SafeInv'
    OBVIOUS
  <2>1. NoSnapshots'
    BY NextNoSnapshots DEF TypeInv, SafeInv
  <2>2. \A m \in AppendCalls' : CallWithin(m)'
    BY NextCallsWithin DEF LogInv, SafeInv
  <2>3. \A r \in appendRep' : RefusalUsable(r)
    BY NextRefusalsUsable DEF SafeInv
  <2>4. PeersWithin'
    BY NextPeersWithin DEF LogInv, SafeInv
  <2>5. WinnersLead'
    BY NextWinnersLead DEF LogInv, CountInv, SafeInv
  <2>6. NeverExits'
    BY NextNeverExits
  <2>7. QED
    BY <2>1, <2>2, <2>3, <2>4, <2>5, <2>6 DEF SafeInv, RefusalUsable
<1>3. QED
  BY <1>1, <1>2, TypeInvariant, VoteInvariant, OneLeaderPerTerm, IndexesOrdered, LogInvariant,
    CountInvariant, PTL DEF Spec

\* Without snapshots none of the assertions of raft.cpp fails, whatever calls are
\* lost, delayed or reordered.
THEOREM NoServerExits ==
    ASSUME MaxSnapshotIndex = 0
    PROVE  Spec => []NeverExits
<1>1. SafeInv => NeverExits
  BY DEF SafeInv
<1>2. QED
  BY <1>1, SafeInvariant, PTL

\* Without snapshots no late call of its own or an earlier term makes a leader a
\* follower or changes an entry of its log.
THEOREM LeadersUndisturbed ==
    ASSUME MaxSnapshotIndex = 0
    PROVE  Spec => LeaderUndisturbed
<1> DEFINE Kept == \A s \in Server :
          m_status[s] = "Leader" /\ m_currentTerm'[s] = m_currentTerm[s] =>
              /\ m_status'[s] = "Leader"
              /\ \A k \in 1..getLastLogIndex(s) :
                    InLog(s, k) /\ InLog(s, k)' => EntryAt(s, k)' = EntryAt(s, k)
<1>1. TypeInv /\ ElectionSafety /\ LogInv /\ SafeInv /\ SafeInv' /\ [Next]_vars => [Kept]_vars
  <2> SUFFICES ASSUME TypeInv, ElectionSafety, LogInv, SafeInv, SafeInv', [Next]_vars,
                      NEW s \in Server, m_status[s] = "Leader", m_currentTerm'[s] = m_currentTerm[s]
               PROVE  /\ m_status'[s] = "Leader"
                      /\ \A k \in 1..getLastLogIndex(s) :
                            InLog(s, k) /\ InLog(s, k)' => EntryAt(s, k)' = EntryAt(s, k)
    OBVIOUS
  <2>1. m_status'[s] = "Leader" /\ (m_logs'[s] = m_logs[s] \/ \E c \in Command : Start(s, c))
    BY LeaderKept DEF LogInv, SafeInv
  <2>2. m_lastSnapshotIncludeIndex[s] = 0 /\ m_lastSnapshotIncludeIndex'[s] = 0
    BY DEF SafeInv, NoSnapshots
  <2>3. m_logs[s] \in Seq(Entry) /\ m_logs \in [Server -> Seq(Entry)]
        /\ getLastLogIndex(s) = Len(m_logs[s])
    BY <2>2, LastIndexOfLog DEF TypeInv, TypeOK, LogTypeOK
  <2>4. ASSUME NEW k \in 1..getLastLogIndex(s) PROVE m_logs'[s][k] = m_logs[s][k]
    <3>1. ASSUME NEW c \in Command, Start(s, c) PROVE m_logs'[s][k] = m_logs[s][k]
      <4> DEFINE e == [logterm |-> m_currentTerm[s], logindex |-> getLastLogIndex(s) + 1, command |-> c]
      <4>1. m_logs' = [m_logs EXCEPT ![s] = Append(@, e)]
        BY <3>1 DEF Start
      <4>2. e \in Entry
        BY LastIndexOfLog DEF TypeInv, TypeOK, NodeTypeOK, Entry
      <4> HIDE DEF e
      <4>3. m_logs'[s] = Append(m_logs[s], e)
        BY <2>3, <4>1
      <4>4. QED
        BY <2>3, <4>2, <4>3
    <3>2. QED
      BY <2>1, <3>1
  <2>5. \A k : EntryAt(s, k)' = m_logs'[s][k - 0] /\ EntryAt(s, k) = m_logs[s][k - 0]
    BY <2>2 DEF EntryAt, getSlicesIndexFromLogIndex
  <2>6. \A k \in 1..getLastLogIndex(s) : k - 0 = k
    BY <2>3
  <2>7. QED
    BY <2>1, <2>4, <2>5, <2>6
<1>2. QED
  BY <1>1, TypeInvariant, OneLeaderPerTerm, LogInvariant, SafeInvariant, PTL DEF Spec, LeaderUndisturbed
=============================================================================
