--------------------------- MODULE RaftLogProofs ---------------------------
(***************************************************************************)
(* What the entries of the logs have in common, and what a leader knows of *)
(* the logs of its peers, for any number of servers and any bounds, with   *)
(* snapshots, lost calls and servers that exit.                            *)
(***************************************************************************)
EXTENDS RaftElectionProofs

\* The entries in the logs and in the calls on their way to one.
InLogs == UNION {{m_logs[s][k] : k \in 1..Len(m_logs[s])} : s \in Server}
InCalls == UNION {{m.entries[k] : k \in 1..Len(m.entries)} : m \in appendReq}
Written == InLogs \cup InCalls

\* Who is leader has won the election of its term.
LeadersElected ==
    \A s \in Server : m_status[s] = "Leader" =>
        \E x \in elected : x.term = m_currentTerm[s] /\ x.leader = s

\* An entry of a term comes from the winner of its election, whose log has been at
\* least as long ever since.
WrittenByWinner ==
    \A e \in Written : \E x \in elected :
        x.term = e.logterm /\ e.logindex <= Known(x.leader)

\* Index and term tell the command.
CommandsUnique ==
    \A e, f \in Written :
        e.logindex = f.logindex /\ e.logterm = f.logterm => e.command = f.command

LogInv == LeadersElected /\ WrittenByWinner /\ CommandsUnique

\* What a positive answer says the callee holds, it holds.
MatchInv ==
    /\ \A s, v \in Server : Running(v) => m_matchIndex[s][v] <= Known(v)
    /\ \A r \in appendRep :
          r.success => r.args.prevlogindex + Len(r.args.entries) <= Known(r.args.callee)
    /\ \A r \in snapRep :
          \/ r.term > r.args.term
          \/ ~Running(r.args.call.callee)
          \/ r.args.lastsnapshotincludeindex <= Known(r.args.call.callee)

-----------------------------------------------------------------------------
\* Only the winner of an election becomes leader, a server that stays leader stays
\* in its term, and no election is forgotten.
LEMMA LeadersStayElected ==
    ASSUME TypeOK, LeadersElected, [Next]_vars
    PROVE  LeadersElected' /\ elected \subseteq elected'
<1> DEFINE Stays == \A v \in Server : m_status'[v] = "Leader" =>
                       m_status[v] = "Leader" /\ m_currentTerm'[v] = m_currentTerm[v]
<1>1. /\ m_status \in [Server -> {"Follower", "Candidate", "Leader"}]
      /\ m_currentTerm \in [Server -> Nat]
  BY DEF TypeOK, NodeTypeOK
<1>2. CASE Stays /\ elected' = elected
  BY <1>2 DEF LeadersElected
<1>3. UNCHANGED nodeVars => Stays
  BY DEF nodeVars
<1>4. ASSUME NEW s \in Server, NEW t, StepDown(s, t) \/ FollowCaller(s, t) PROVE Stays
  BY <1>1, <1>4 DEF StepDown, FollowCaller
<1>5. ASSUME NEW s \in Server, electionTimeOutTicker(s) PROVE Stays /\ elected' = elected
  BY <1>1, <1>5 DEF electionTimeOutTicker, doElection
<1>6. ASSUME NEW s \in Server, RequestVote(s) PROVE Stays /\ elected' = elected
  <2>1. PICK m \in voteReq : RejectVote(s, m) \/ DecideVote(s, m)
    BY <1>6 DEF RequestVote
  <2>2. CASE RejectVote(s, m)
    BY <1>3, <1>6, <2>2 DEF RejectVote, RequestVote
  <2>3. CASE DecideVote(s, m)
    <3>1. /\ m.term >= m_currentTerm[s]
          /\ m_status' = [m_status EXCEPT ![s] = StatusAfterVote(s, m)]
          /\ m_currentTerm' = [m_currentTerm EXCEPT ![s] = m.term]
      BY <2>3 DEF DecideVote
    <3>2. m.term \in Nat
      BY DEF TypeOK, VoteTypeOK, VoteArgs
    <3>3. QED
      BY <1>1, <1>6, <3>1, <3>2 DEF RequestVote, StatusAfterVote
  <2>4. QED
    BY <2>1, <2>2, <2>3
<1>7. ASSUME NEW s \in Server, sendRequestVote(s)
      PROVE  LeadersElected' /\ elected \subseteq elected'
  <2>1. PICK r \in voteRep :
          \/ StepDown(s, r.term) /\ UNCHANGED elected
          \/ UNCHANGED <<nodeVars, elected>>
          \/ CountVote(s, r)
    BY <1>7 DEF sendRequestVote
  <2>2. CASE StepDown(s, r.term) /\ UNCHANGED elected
    BY <1>2, <1>4, <2>2
  <2>3. CASE UNCHANGED <<nodeVars, elected>>
    BY <1>2, <1>3, <2>3
  <2>4. CASE CountVote(s, r)
    <3> DEFINE counted == votedNum[s] \cup {r.args.callee}
               wins == Cardinality(counted) >= Majority
               won == [term |-> m_currentTerm[s], leader |-> s, quorum |-> counted]
    <3>1. CASE wins /\ m_status[s] = "Leader"
      BY <1>2, <1>3, <2>4, <3>1 DEF CountVote
    <3>2. CASE ~(wins /\ m_status[s] = "Leader")
      <4>1. /\ m_status' = [m_status EXCEPT ![s] = IF wins THEN "Leader" ELSE @]
            /\ elected' = elected \cup (IF wins THEN {won} ELSE {})
            /\ UNCHANGED m_currentTerm
        BY <2>4, <3>2 DEF CountVote
      <4>2. won.term = m_currentTerm[s] /\ won.leader = s
        OBVIOUS
      <4> HIDE DEF wins, won
      <4>3. QED
        BY <1>1, <4>1, <4>2 DEF LeadersElected
    <3>3. QED
      BY <3>1, <3>2
  <2>5. QED
    BY <2>1, <2>2, <2>3, <2>4
<1>8. ASSUME NEW s \in Server, ReplicationStep(s) PROVE Stays /\ elected' = elected
  <2>1. elected' = elected
    BY <1>8 DEF ReplicationStep, Start, leaderHearBeatTicker, doHeartBeat, AppendEntries1,
      sendAppendEntries, applierTicker, voteVars
  <2>2. UNCHANGED nodeVars \/ (\E t : StepDown(s, t) \/ FollowCaller(s, t))
    <3>1. \A m : AcceptAppend(s, m) => UNCHANGED nodeVars \/ FollowCaller(s, m.term)
      BY DEF AcceptAppend
    <3>2. AppendEntries1(s) => UNCHANGED nodeVars \/ (\E t : FollowCaller(s, t))
      BY <3>1 DEF AppendEntries1, RejectStaleAppend, RejectGap, FailInMatchLog, RejectMismatch
    <3>3. sendAppendEntries(s) => UNCHANGED nodeVars \/ (\E t : StepDown(s, t))
      BY DEF sendAppendEntries
    <3>4. QED
      BY <1>8, <3>2, <3>3 DEF ReplicationStep, Start, leaderHearBeatTicker, doHeartBeat,
        applierTicker
  <2>3. QED
    BY <1>3, <1>4, <2>1, <2>2
<1>9. ASSUME NEW s \in Server, SnapshotStep(s) PROVE Stays /\ elected' = elected
  <2>1. elected' = elected
    BY <1>9 DEF SnapshotStep, Snapshot, SendSnapShot, InstallSnapshot, leaderSendSnapShot,
      ConnectionClosed, voteVars
  <2>2. UNCHANGED nodeVars \/ (\E t : StepDown(s, t) \/ FollowCaller(s, t))
    BY <1>9 DEF SnapshotStep, Snapshot, SendSnapShot, InstallSnapshot, IgnoreSnapshot,
      TakeSnapshot, leaderSendSnapShot, ConnectionClosed
  <2>3. QED
    BY <1>3, <1>4, <2>1, <2>2
<1>10. ASSUME NEW s \in Server, CallFails(s) PROVE Stays /\ elected' = elected
  BY <1>3, <1>10 DEF CallFails
<1>11. CASE UNCHANGED vars
  BY <1>2, <1>3, <1>11 DEF vars, voteVars
<1>12. QED
  BY <1>2, <1>5, <1>6, <1>7, <1>8, <1>9, <1>10, <1>11 DEF Next, ElectionStep

\* What is in a log or a call.
LEMMA WrittenMember ==
    /\ \A e : e \in Written <=>
          \/ \E s \in Server : \E k \in 1..Len(m_logs[s]) : e = m_logs[s][k]
          \/ \E m \in appendReq : \E k \in 1..Len(m.entries) : e = m.entries[k]
    /\ \A e : e \in Written' <=>
          \/ \E s \in Server : \E k \in 1..Len(m_logs'[s]) : e = m_logs'[s][k]
          \/ \E m \in appendReq' : \E k \in 1..Len(m.entries) : e = m.entries[k]
BY DEF Written, InLogs, InCalls

\* All of it has the type of an entry.
LEMMA WrittenTyped ==
    ASSUME TypeInv, NEW f \in Written
    PROVE  f \in Entry /\ f.logindex \in Nat /\ f.logterm \in Nat
<1>1. \A s \in Server : m_logs[s] \in Seq(Entry)
  BY DEF TypeInv, TypeOK, LogTypeOK
<1>2. \A m \in appendReq : m.entries \in Seq(Entry)
  BY DEF TypeInv, TypeOK, AppendTypeOK, AppendArgs
<1>3. f \in Entry
  BY <1>1, <1>2, WrittenMember
<1>4. QED
  BY <1>3 DEF Entry

\* Entries are moved between logs and calls and dropped, but only Start makes one.
LEMMA NothingWritten ==
    ASSUME TypeInv, NEW s \in Server,
           \A v \in Server \ {s} : m_logs'[v] = m_logs[v],
           \A k \in 1..Len(m_logs'[s]) : m_logs'[s][k] \in Written,
           \A m \in appendReq' : m \in appendReq \/ \A k \in 1..Len(m.entries) : m.entries[k] \in Written
    PROVE  Written' \subseteq Written
BY WrittenMember

\* What a heartbeat sends and a snapshot keeps are slots of the log.
LEMMA EntriesAfterSlots ==
    ASSUME TypeInv, NEW s \in Server, NEW i \in Nat, MatchLogDefined(s, i)
    PROVE  \A k \in 1..Len(EntriesAfter(s, i)) :
              /\ getSlicesIndexFromLogIndex(s, i) + k \in 1..Len(m_logs[s])
              /\ EntriesAfter(s, i)[k] = m_logs[s][getSlicesIndexFromLogIndex(s, i) + k]
<1> DEFINE log == m_logs[s]
           off == getSlicesIndexFromLogIndex(s, i)
<1>1. log \in Seq(Entry) /\ m_lastSnapshotIncludeIndex[s] \in Nat /\ Len(log) \in Nat
  BY DEF TypeInv, TypeOK, LogTypeOK
<1>2. off \in Nat /\ off <= Len(log)
  BY <1>1, LastIndexOfLog DEF MatchLogDefined, TypeInv, getSlicesIndexFromLogIndex
<1>3. EntriesAfter(s, i) = SubSeq(log, off + 1, Len(log))
  BY DEF EntriesAfter
<1> HIDE DEF log, off
<1>4. /\ Len(SubSeq(log, off + 1, Len(log))) = Len(log) - off
      /\ \A k \in 1..(Len(log) - off) : SubSeq(log, off + 1, Len(log))[k] = log[off + k]
  BY <1>1, <1>2
<1>5. \A k \in 1..(Len(log) - off) : off + k \in 1..Len(log)
  BY <1>1, <1>2
<1>6. QED
  BY <1>3, <1>4, <1>5 DEF log, off

\* The log of server s after the loop of AppendEntries1 over call m, whose entries go
\* behind slot off: each slot has an entry of the call or keeps its own.
SlotsAfter(s, m, off) ==
    /\ off \in Nat /\ off <= Len(m_logs[s])
    /\ Len(Merged(s, m)) >= off + Len(m.entries)
    /\ \A k \in 1..Len(Merged(s, m)) :
         \/ k \in 1..Len(m_logs[s]) /\ Merged(s, m)[k] = m_logs[s][k]
         \/ k - off \in 1..Len(m.entries) /\ Merged(s, m)[k] = m.entries[k - off]
    /\ \A k \in 1..Len(Merged(s, m)) : k - off \in 1..Len(m.entries) =>
         Merged(s, m)[k].logterm = m.entries[k - off].logterm
    /\ \A k \in 1..Len(Merged(s, m)) : k - off \notin 1..Len(m.entries) =>
         k \in 1..Len(m_logs[s]) /\ Merged(s, m)[k] = m_logs[s][k]

\* The log after the loop of AppendEntries1, slot by slot: inside the range of the
\* call the terms are the call's, and every slot has come from the call or has been
\* there before.
LEMMA MergedSlots ==
    ASSUME TypeInv, NEW s \in Server, NEW m \in appendReq, MatchLogDefined(s, m.prevlogindex),
           NEW off, off = getSlicesIndexFromLogIndex(s, m.prevlogindex)
    PROVE  SlotsAfter(s, m, off)
<1> DEFINE log == m_logs[s]
           n == Len(m.entries)
           top == MaxOf(Len(log), off + n)
           slot(k) == IF k \in (off + 1)..(off + n)
                         /\ (k > Len(log) \/ log[k].logterm # m.entries[k - off].logterm)
                      THEN m.entries[k - off]
                      ELSE log[k]
<1>1. log \in Seq(Entry) /\ Len(log) \in Nat /\ m_lastSnapshotIncludeIndex[s] \in Nat
  BY DEF TypeInv, TypeOK, LogTypeOK
<1>2. m.prevlogindex \in Nat /\ m.entries \in Seq(Entry) /\ n \in Nat
  BY DEF TypeInv, TypeOK, AppendTypeOK, AppendArgs
<1>3. off \in Nat /\ off <= Len(log)
  BY <1>1, <1>2, LastIndexOfLog DEF MatchLogDefined, TypeInv, getSlicesIndexFromLogIndex
<1>4. Merged(s, m) = [k \in 1..top |-> slot(k)]
  BY Zenon DEF Merged
<1>5. top \in Nat /\ top >= Len(log) /\ top >= off + n /\ (top > Len(log) => top = off + n)
  BY <1>1, <1>2, <1>3 DEF MaxOf
<1> HIDE DEF log, n, top
<1>6. \A k \in 1..top :
        /\ k \in (off + 1)..(off + n) <=> k - off \in 1..n
        /\ k > Len(log) \/ k \in 1..Len(log)
        /\ k - off \notin 1..n => k \in 1..Len(log)
  BY <1>1, <1>2, <1>3, <1>5
<1>7. ASSUME NEW k \in 1..top
      PROVE  /\ \/ k \in 1..Len(log) /\ slot(k) = log[k]
                \/ k - off \in 1..n /\ slot(k) = m.entries[k - off]
             /\ k - off \in 1..n => slot(k).logterm = m.entries[k - off].logterm
             /\ k - off \notin 1..n => k \in 1..Len(log) /\ slot(k) = log[k]
  BY <1>6, Zenon
<1> HIDE DEF slot
<1>8. Len(Merged(s, m)) = top /\ \A k \in 1..top : Merged(s, m)[k] = slot(k)
  <2>1. Merged(s, m) \in Seq(Entry) /\ DOMAIN Merged(s, m) = 1..top
    BY <1>4, MergedLog
  <2>2. QED
    BY <1>4, <1>5, <2>1
<1>9. QED
  BY <1>3, <1>5, <1>7, <1>8 DEF SlotsAfter, log, n

\* Every step but Start only moves and drops entries.
LEMMA OnlyStartWrites ==
    ASSUME TypeInv, [Next]_vars, ~\E s \in Server, c \in Command : Start(s, c)
    PROVE  Written' \subseteq Written
<1>1. ASSUME UNCHANGED m_logs, appendReq' \subseteq appendReq PROVE Written' \subseteq Written
  BY <1>1, WrittenMember
<1>2. CASE UNCHANGED vars
  BY <1>1, <1>2 DEF vars, logVars, appendVars
<1>3. ASSUME NEW s \in Server, ElectionStep(s) PROVE Written' \subseteq Written
  BY <1>1, <1>3 DEF ElectionStep, electionTimeOutTicker, doElection, RequestVote,
    sendRequestVote, logVars, appendVars
<1>4. ASSUME NEW s \in Server, leaderHearBeatTicker(s) PROVE Written' \subseteq Written
  <2>1. CASE \A i \in Server \ {s} : NextIndexUsable(s, i)
    <3>1. UNCHANGED m_logs /\ appendReq' = appendReq \cup
             {AppendEntriesArgs(s, i) : i \in (Server \ {s}) \ NeedsSnapshot(s)}
      BY <1>4, <2>1 DEF leaderHearBeatTicker, doHeartBeat, logVars
    <3>2. ASSUME NEW i \in (Server \ {s}) \ NeedsSnapshot(s),
                 NEW k \in 1..Len(AppendEntriesArgs(s, i).entries)
          PROVE  AppendEntriesArgs(s, i).entries[k] \in Written
      <4> DEFINE prev == m_nextIndex[s][i] - 1
      <4>1. prev \in Nat /\ MatchLogDefined(s, prev)
        <5>1. m_nextIndex[s][i] \in Int /\ m_lastSnapshotIncludeIndex[s] \in Nat
              /\ getLastLogIndex(s) \in Nat
          BY LastIndexOfLog DEF TypeInv, TypeOK, PeerTypeOK, LogTypeOK
        <5>2. m_nextIndex[s][i] >= 1 /\ m_nextIndex[s][i] <= getLastLogIndex(s) + 1
              /\ ~(m_nextIndex[s][i] <= m_lastSnapshotIncludeIndex[s])
          BY <2>1 DEF NextIndexUsable, NeedsSnapshot
        <5>3. QED
          BY <5>1, <5>2 DEF MatchLogDefined
      <4>2. AppendEntriesArgs(s, i).entries = EntriesAfter(s, prev)
        BY DEF AppendEntriesArgs
      <4> HIDE DEF prev
      <4>3. QED
        BY <3>2, <4>1, <4>2, EntriesAfterSlots, WrittenMember
    <3>3. QED
      BY <3>1, <3>2, WrittenMember
  <2>2. CASE ~\A i \in Server \ {s} : NextIndexUsable(s, i)
    BY <1>1, <1>4, <2>2 DEF leaderHearBeatTicker, doHeartBeat, logVars
  <2>3. QED
    BY <2>1, <2>2
<1>5. ASSUME NEW s \in Server, AppendEntries1(s) PROVE Written' \subseteq Written
  <2>1. PICK m \in appendReq : appendReq' = appendReq \ {m} /\ (UNCHANGED m_logs \/ AcceptAppend(s, m))
    BY <1>5 DEF AppendEntries1, RejectStaleAppend, RejectGap, FailInMatchLog, RejectMismatch
  <2>2. CASE UNCHANGED m_logs
    BY <1>1, <2>1, <2>2
  <2>3. CASE AcceptAppend(s, m) /\ ~UNCHANGED m_logs
    <3>1. MatchLogDefined(s, m.prevlogindex) /\ m_logs' = [m_logs EXCEPT ![s] = Merged(s, m)]
      BY <2>3 DEF AcceptAppend
    <3>2. m_logs \in [Server -> Seq(Entry)]
      BY DEF TypeInv, TypeOK, LogTypeOK
    <3>3. \A k \in 1..Len(Merged(s, m)) : Merged(s, m)[k] \in Written
      <4>1. PICK off : off = getSlicesIndexFromLogIndex(s, m.prevlogindex)
        OBVIOUS
      <4>2. \A k \in 1..Len(Merged(s, m)) :
                \/ k \in 1..Len(m_logs[s]) /\ Merged(s, m)[k] = m_logs[s][k]
                \/ k - off \in 1..Len(m.entries) /\ Merged(s, m)[k] = m.entries[k - off]
        <5>1. SlotsAfter(s, m, off)
          BY <3>1, <4>1, MergedSlots
        <5>2. QED
          BY <5>1 DEF SlotsAfter
      <4>3. QED
        BY <4>2, WrittenMember
    <3>4. QED
      BY <2>1, <3>1, <3>2, <3>3, NothingWritten
  <2>4. QED
    BY <2>1, <2>2, <2>3
<1>6. ASSUME NEW s \in Server, sendAppendEntries(s) \/ applierTicker(s)
      PROVE  Written' \subseteq Written
  BY <1>1, <1>6 DEF sendAppendEntries, applierTicker, logVars, appendVars
<1>7. ASSUME NEW s \in Server, NEW index, NEW term, NEW rest,
             CutLog(s, index, term, rest), UNCHANGED appendReq,
             \A k \in 1..Len(rest) : rest[k] \in Written
      PROVE  Written' \subseteq Written
  <2>1. m_logs \in [Server -> Seq(Entry)] /\ m_logs' = [m_logs EXCEPT ![s] = rest]
    BY <1>7 DEF TypeInv, TypeOK, LogTypeOK, CutLog
  <2>2. QED
    BY <1>7, <2>1, NothingWritten
<1>8. ASSUME NEW s \in Server, NEW i \in Nat, MatchLogDefined(s, i)
      PROVE  \A k \in 1..Len(EntriesAfter(s, i)) : EntriesAfter(s, i)[k] \in Written
  BY <1>8, EntriesAfterSlots, WrittenMember
<1>9. ASSUME NEW s \in Server, NEW index \in 1..MaxSnapshotIndex, Snapshot(s, index)
      PROVE  Written' \subseteq Written
  <2>1. index \in Nat /\ m_lastSnapshotIncludeIndex[s] \in Nat /\ getLastLogIndex(s) \in Nat
    BY BoundsAssumption, LastIndexOfLog DEF TypeInv, TypeOK, LogTypeOK
  <2>2. UNCHANGED appendReq
    BY <1>9 DEF Snapshot, appendVars
  <2>3. CASE UNCHANGED m_logs
    BY <1>1, <2>2, <2>3
  <2>4. CASE ~UNCHANGED m_logs
    <3>1. InLog(s, index) /\ CutLog(s, index, EntryAt(s, index).logterm, EntriesAfter(s, index))
      BY <1>9, <2>4 DEF Snapshot, logVars
    <3>2. MatchLogDefined(s, index)
      BY <2>1, <3>1 DEF InLog, MatchLogDefined
    <3>3. QED
      BY <1>7, <1>8, <2>1, <2>2, <3>1, <3>2
  <2>5. QED
    BY <2>3, <2>4
<1>10. ASSUME NEW s \in Server, InstallSnapshot(s) PROVE Written' \subseteq Written
  <2>1. PICK m \in snapReq : UNCHANGED m_logs \/ TakeSnapshot(s, m)
    BY <1>10 DEF InstallSnapshot, IgnoreSnapshot, logVars
  <2>2. UNCHANGED appendReq
    BY <1>10 DEF InstallSnapshot, appendVars
  <2>3. CASE TakeSnapshot(s, m)
    <3> DEFINE index == m.lastsnapshotincludeindex
               rest == IF getLastLogIndex(s) > index THEN EntriesAfter(s, index) ELSE <<>>
    <3>1. CutLog(s, index, m.lastsnapshotincludeterm, rest) /\ index > m_lastSnapshotIncludeIndex[s]
      BY <2>3 DEF TakeSnapshot
    <3>2. index \in Nat /\ m_lastSnapshotIncludeIndex[s] \in Nat /\ getLastLogIndex(s) \in Nat
      BY LastIndexOfLog DEF TypeInv, TypeOK, LogTypeOK, SnapTypeOK, SnapArgs
    <3>3. getLastLogIndex(s) > index => MatchLogDefined(s, index)
      BY <3>1, <3>2 DEF MatchLogDefined
    <3>4. \A k \in 1..Len(rest) : rest[k] \in Written
      <4>1. CASE getLastLogIndex(s) > index
        BY <1>8, <3>2, <3>3, <4>1
      <4>2. CASE ~(getLastLogIndex(s) > index)
        BY <4>2
      <4>3. QED
        BY <4>1, <4>2
    <3> HIDE DEF index, rest
    <3>5. QED
      BY <1>7, <2>2, <3>1, <3>4
  <2>4. QED
    BY <1>1, <2>1, <2>2, <2>3
<1>11. ASSUME NEW s \in Server, SendSnapShot(s) \/ leaderSendSnapShot(s) \/ ConnectionClosed(s)
       PROVE  Written' \subseteq Written
  BY <1>1, <1>11 DEF SendSnapShot, leaderSendSnapShot, ConnectionClosed, logVars, appendVars
<1>12. ASSUME NEW s \in Server, CallFails(s) PROVE Written' \subseteq Written
  BY <1>1, <1>12 DEF CallFails, logVars, appendVars
<1>13. QED
  BY <1>2, <1>3, <1>4, <1>5, <1>6, <1>9, <1>10, <1>11, <1>12 DEF Next, ReplicationStep, SnapshotStep

\* No log gets shorter, counted from the beginning.
LEMMA KnownGrows ==
    ASSUME TypeInv, TypeInv', IndexOrder, [Next]_vars
    PROVE  \A v \in Server : Known(v) \in Nat /\ Known(v)' \in Nat /\ Known(v)' >= Known(v)
<1>1. \A v \in Server : getLastLogIndex(v) = Known(v) /\ Known(v) \in Nat
  BY LastIndexOfLog DEF TypeInv, Known
<1>2. \A v \in Server : getLastLogIndex(v)' = Known(v)' /\ Known(v)' \in Nat
  <2>1. \A v \in Server : /\ m_logs'[v] \in Seq(Entry) /\ m_lastSnapshotIncludeIndex'[v] \in Nat
                          /\ Len(m_logs'[v]) \in Nat
    BY DEF TypeInv, TypeOK, LogTypeOK
  <2>2. \A v \in Server : getLastLogIndex(v)' = Known(v)'
    BY <2>1, LastIndexOfNumbered DEF TypeInv, LogContiguous, Known, getLastLogIndex
  <2>3. QED
    BY <2>1, <2>2 DEF Known
<1>3. QED
  BY <1>1, <1>2, NextIndexes DEF Advance

\* Start writes one entry, of the leader's term and behind all others of that term.
LEMMA StartWrites ==
    ASSUME TypeInv, TypeInv', IndexOrder, ElectionSafety, LogInv,
           NEW s \in Server, NEW c \in Command, Start(s, c)
    PROVE  WrittenByWinner' /\ CommandsUnique'
<1> DEFINE e == [logterm |-> m_currentTerm[s], logindex |-> getLastLogIndex(s) + 1, command |-> c]
<1>1. /\ m_logs' = [m_logs EXCEPT ![s] = Append(@, e)]
      /\ UNCHANGED <<m_lastSnapshotIncludeIndex, appendReq, elected>>
      /\ m_status[s] = "Leader"
  BY DEF Start, appendVars, voteVars, AcceptsCommands
<1>2. m_logs \in [Server -> Seq(Entry)] /\ m_logs[s] \in Seq(Entry) /\ Len(m_logs[s]) \in Nat
      /\ m_lastSnapshotIncludeIndex[s] \in Nat
  BY DEF TypeInv, TypeOK, LogTypeOK
<1>3. getLastLogIndex(s) = Known(s) /\ Known(s) \in Nat
  BY LastIndexOfLog DEF TypeInv, Known
<1>4. e \in Entry
  BY LastIndexOfLog DEF TypeInv, TypeOK, NodeTypeOK, Entry
<1>5. e.logterm = m_currentTerm[s] /\ e.logindex = Known(s) + 1
  BY <1>3
<1> HIDE DEF e
<1>6. /\ m_logs'[s] = Append(m_logs[s], e)
      /\ \A v \in Server \ {s} : m_logs'[v] = m_logs[v]
  BY <1>1, <1>2
<1>7. /\ Len(m_logs'[s]) = Len(m_logs[s]) + 1
      /\ \A k \in 1..Len(m_logs'[s]) : m_logs'[s][k] = e \/ (k \in 1..Len(m_logs[s]) /\ m_logs'[s][k] = m_logs[s][k])
  BY <1>2, <1>4, <1>6
<1>8. \A f \in Written' : f \in Written \/ f = e
  BY <1>1, <1>6, <1>7, WrittenMember
<1>9. \A v \in Server : Known(v) \in Nat /\ Known(v)' \in Nat /\ Known(v)' >= Known(v)
  BY KnownGrows DEF Next, ReplicationStep
<1>10. Known(s)' = Known(s) + 1
  <2>1. m_lastSnapshotIncludeIndex'[s] = m_lastSnapshotIncludeIndex[s]
    BY <1>1
  <2>2. Len(m_logs'[s]) = Len(m_logs[s]) + 1 /\ Len(m_logs[s]) \in Nat
    BY <1>2, <1>7
  <2>3. m_lastSnapshotIncludeIndex[s] \in Nat
    BY <1>2
  <2>4. QED
    BY <2>1, <2>2, <2>3 DEF Known
<1>11. PICK y \in elected : y.term = m_currentTerm[s] /\ y.leader = s
  BY <1>1 DEF LogInv, LeadersElected
<1>12. \A x \in elected : x.leader \in Server
  BY DEF TypeInv, TypeOK, VoteTypeOK
<1>13. \A f \in Written : f.logindex \in Nat
  BY WrittenTyped
<1>14. ASSUME NEW f \in Written, f.logterm = e.logterm PROVE f.logindex # e.logindex
  <2>1. PICK x \in elected : x.term = f.logterm /\ f.logindex <= Known(x.leader)
    BY DEF LogInv, WrittenByWinner
  <2>2. x.leader = s
    BY <1>5, <1>11, <1>14, <2>1 DEF ElectionSafety
  <2>3. QED
    BY <1>3, <1>5, <1>13, <2>1, <2>2
<1>15. WrittenByWinner'
  <2> SUFFICES ASSUME NEW f \in Written'
               PROVE  \E x \in elected' : x.term = f.logterm /\ f.logindex <= Known(x.leader)'
    BY DEF WrittenByWinner
  <2>1. CASE f \in Written
    <3>1. PICK x \in elected : x.term = f.logterm /\ f.logindex <= Known(x.leader)
      BY <2>1 DEF LogInv, WrittenByWinner
    <3>2. f.logindex <= Known(x.leader)'
      BY <1>9, <1>12, <1>13, <2>1, <3>1
    <3>3. QED
      BY <1>1, <3>1, <3>2
  <2>2. CASE f = e
    <3>1. f.logindex <= Known(y.leader)'
      BY <1>3, <1>5, <1>10, <1>11, <2>2
    <3>2. QED
      BY <1>1, <1>5, <1>11, <2>2, <3>1
  <2>3. QED
    BY <1>8, <2>1, <2>2
<1>16. CommandsUnique'
  BY <1>8, <1>14 DEF LogInv, CommandsUnique
<1>17. QED
  BY <1>15, <1>16

\* Every step preserves what is said of the entries.
LEMMA NextLogInv ==
    ASSUME TypeInv, TypeInv', IndexOrder, ElectionSafety, LogInv, [Next]_vars
    PROVE  LogInv'
<1>1. LeadersElected' /\ elected \subseteq elected'
  BY LeadersStayElected DEF TypeInv, LogInv
<1>2. CASE \E s \in Server, c \in Command : Start(s, c)
  BY <1>1, <1>2, StartWrites DEF LogInv
<1>3. CASE ~\E s \in Server, c \in Command : Start(s, c)
  <2>1. Written' \subseteq Written
    BY <1>3, OnlyStartWrites
  <2>2. \A v \in Server : Known(v) \in Nat /\ Known(v)' \in Nat /\ Known(v)' >= Known(v)
    BY KnownGrows
  <2>3. \A x \in elected : x.leader \in Server
    BY DEF TypeInv, TypeOK, VoteTypeOK
  <2>4. \A f \in Written : f.logindex \in Nat
    BY WrittenTyped
  <2>5. WrittenByWinner'
    <3> SUFFICES ASSUME NEW f \in Written'
                 PROVE  \E x \in elected' : x.term = f.logterm /\ f.logindex <= Known(x.leader)'
      BY DEF WrittenByWinner
    <3>1. PICK x \in elected : x.term = f.logterm /\ f.logindex <= Known(x.leader)
      BY <2>1 DEF LogInv, WrittenByWinner
    <3>2. f.logindex <= Known(x.leader)'
      BY <2>1, <2>2, <2>3, <2>4, <3>1
    <3>3. QED
      BY <1>1, <3>1, <3>2
  <2>6. CommandsUnique'
    BY <2>1 DEF LogInv, CommandsUnique
  <2>7. QED
    BY <1>1, <2>5, <2>6 DEF LogInv
<1>4. QED
  BY <1>2, <1>3

\* The invariants of the election, the indexes and the entries together.
THEOREM LogInvariant == Spec => []LogInv
<1>1. Init => LogInv
  <2> SUFFICES ASSUME Init PROVE LogInv
    OBVIOUS
  <2>1. Written = {}
    BY WrittenMember DEF Init
  <2>2. LeadersElected
    BY DEF Init, LeadersElected
  <2>3. QED
    BY <2>1, <2>2 DEF LogInv, WrittenByWinner, CommandsUnique
<1>2. LogInv /\ TypeInv /\ TypeInv' /\ IndexOrder /\ ElectionSafety /\ [Next]_vars => LogInv'
  BY NextLogInv
<1>3. QED
  BY <1>1, <1>2, TypeInvariant, IndexesOrdered, OneLeaderPerTerm, PTL DEF Spec

\* Index and term of an entry tell its command, on all servers: the assertion in
\* the loop of AppendEntries1 compares entries that are always equal.
THEOREM EntriesAgree == Spec => []SameIndexSameTermSameCommand
<1>1. LogInv => SameIndexSameTermSameCommand
  <2> SUFFICES ASSUME LogInv, NEW s \in Server, NEW t \in Server,
                      NEW j \in 1..Len(m_logs[s]), NEW k \in 1..Len(m_logs[t]),
                      m_logs[s][j].logindex = m_logs[t][k].logindex,
                      m_logs[s][j].logterm = m_logs[t][k].logterm
               PROVE  m_logs[s][j].command = m_logs[t][k].command
    BY DEF SameIndexSameTermSameCommand
  <2>1. m_logs[s][j] \in Written /\ m_logs[t][k] \in Written
    BY WrittenMember
  <2>2. QED
    BY <2>1 DEF LogInv, CommandsUnique
<1>2. QED
  BY <1>1, LogInvariant, PTL

-----------------------------------------------------------------------------
\* A server that has exited takes no step.
LEMMA ExitedStays ==
    ASSUME TypeOK, [Next]_vars
    PROVE  \A v \in Server : Running(v)' => Running(v)
<1>1. exited \in [Server -> {"running", "sendRequestVote", "doHeartBeat", "matchLog",
                             "AppendEntries1", "sendAppendEntries", "getApplyLogs", "Snapshot"}]
  BY DEF TypeOK, NodeTypeOK
<1>2. CASE UNCHANGED exited
  BY <1>2 DEF Running
<1>3. ASSUME NEW s \in Server, Running(s), NEW where, Exit(s, where)
      PROVE  \A v \in Server : Running(v)' => Running(v)
  BY <1>1, <1>3 DEF Running, Exit
<1>4. ASSUME NEW s \in Server, ElectionStep(s) PROVE UNCHANGED exited \/ (Running(s) /\ \E w : Exit(s, w))
  <2>1. \A r : CountVote(s, r) => UNCHANGED exited \/ Exit(s, "sendRequestVote")
    BY DEF CountVote
  <2>2. QED
    BY <1>4, <2>1 DEF ElectionStep, electionTimeOutTicker, doElection, RequestVote, sendRequestVote
<1>5. ASSUME NEW s \in Server, ReplicationStep(s) PROVE UNCHANGED exited \/ (Running(s) /\ \E w : Exit(s, w))
  <2>1. \A r : CountAppend(s, r) => UNCHANGED exited \/ Exit(s, "sendAppendEntries")
    BY DEF CountAppend
  <2>2. \A m : AcceptAppend(s, m) => UNCHANGED exited \/ Exit(s, "AppendEntries1")
    BY DEF AcceptAppend
  <2>3. getApplyLogs(s) => UNCHANGED exited \/ Exit(s, "getApplyLogs")
    BY DEF getApplyLogs
  <2>4. doHeartBeat(s) => UNCHANGED exited \/ Exit(s, "doHeartBeat")
    BY DEF doHeartBeat
  <2>5. AppendEntries1(s) => UNCHANGED exited \/ (Running(s) /\ \E w : Exit(s, w))
    BY <2>2 DEF AppendEntries1, RejectStaleAppend, RejectGap, FailInMatchLog, RejectMismatch
  <2>6. sendAppendEntries(s) => UNCHANGED exited \/ (Running(s) /\ \E w : Exit(s, w))
    BY <2>1 DEF sendAppendEntries
  <2>7. QED
    BY <1>5, <2>3, <2>4, <2>5, <2>6 DEF ReplicationStep, Start, leaderHearBeatTicker, applierTicker
<1>6. ASSUME NEW s \in Server, SnapshotStep(s) PROVE UNCHANGED exited \/ (Running(s) /\ \E w : Exit(s, w))
  <2>1. \A i : Snapshot(s, i) => Running(s) /\ (UNCHANGED exited \/ Exit(s, "Snapshot"))
    BY DEF Snapshot
  <2>2. QED
    BY <1>6, <2>1 DEF SnapshotStep, SendSnapShot, InstallSnapshot, leaderSendSnapShot, ConnectionClosed
<1>7. ASSUME NEW s \in Server, CallFails(s) PROVE UNCHANGED exited
  BY <1>7 DEF CallFails
<1>8. CASE UNCHANGED vars
  BY <1>2, <1>8 DEF vars
<1>9. QED
  BY <1>2, <1>3, <1>4, <1>5, <1>6, <1>7, <1>8 DEF Next

\* It is enough to look at what is new: a matched index, or an answer.
LEMMA NewMatchesHeld ==
    ASSUME TypeInv, TypeInv', IndexOrder, MatchInv, [Next]_vars,
           \A s, v \in Server : Running(v)' =>
              \/ m_matchIndex'[s][v] = m_matchIndex[s][v]
              \/ m_matchIndex'[s][v] <= Known(v)',
           \A r \in appendRep' : r \in appendRep \/
              (r.success => r.args.prevlogindex + Len(r.args.entries) <= Known(r.args.callee)'),
           \A r \in snapRep' : r \in snapRep \/
              \/ r.term > r.args.term
              \/ ~Running(r.args.call.callee)'
              \/ r.args.lastsnapshotincludeindex <= Known(r.args.call.callee)'
    PROVE  MatchInv'
<1>1. \A v \in Server : Known(v) \in Nat /\ Known(v)' \in Nat /\ Known(v)' >= Known(v)
  BY KnownGrows
<1>2. \A v \in Server : Running(v)' => Running(v)
  BY ExitedStays DEF TypeInv
<1>3. ASSUME NEW s \in Server, NEW v \in Server, Running(v)'
      PROVE  m_matchIndex'[s][v] <= Known(v)'
  <2>1. m_matchIndex[s][v] \in Nat /\ m_matchIndex[s][v] <= Known(v)
    BY <1>2, <1>3 DEF TypeInv, TypeOK, PeerTypeOK, MatchInv
  <2>2. QED
    BY <1>1, <1>3, <2>1
<1>4. ASSUME NEW r \in appendRep', r.success
      PROVE  r.args.prevlogindex + Len(r.args.entries) <= Known(r.args.callee)'
  <2>1. CASE r \in appendRep
    <3>1. r.args.prevlogindex + Len(r.args.entries) <= Known(r.args.callee)
      BY <1>4, <2>1 DEF MatchInv
    <3>2. r.args.callee \in Server /\ r.args.prevlogindex + Len(r.args.entries) \in Nat
      BY <2>1 DEF TypeInv, TypeOK, AppendTypeOK, AppendReply, AppendArgs
    <3>3. QED
      BY <1>1, <3>1, <3>2
  <2>2. QED
    BY <1>4, <2>1
<1>5. ASSUME NEW r \in snapRep'
      PROVE  \/ r.term > r.args.term
             \/ ~Running(r.args.call.callee)'
             \/ r.args.lastsnapshotincludeindex <= Known(r.args.call.callee)'
  <2>1. CASE r \in snapRep
    <3>1. \/ r.term > r.args.term
          \/ ~Running(r.args.call.callee)
          \/ r.args.lastsnapshotincludeindex <= Known(r.args.call.callee)
      BY <2>1 DEF MatchInv
    <3>2. r.args.call.callee \in Server /\ r.args.lastsnapshotincludeindex \in Nat
      BY <2>1 DEF TypeInv, TypeOK, SnapTypeOK, SnapReply, SnapArgs, SnapCall
    <3>3. QED
      BY <1>1, <1>2, <3>1, <3>2
  <2>2. QED
    BY <2>1
<1>6. QED
  BY <1>3, <1>4, <1>5 DEF MatchInv

\* Winning an election forgets the matched indexes of an earlier term.
LEMMA ElectionMatches ==
    ASSUME TypeInv, TypeInv', IndexOrder, MatchInv, NEW s \in Server, ElectionStep(s)
    PROVE  MatchInv'
<1>1. UNCHANGED <<appendRep, snapRep>>
  BY DEF ElectionStep, electionTimeOutTicker, doElection, RequestVote, sendRequestVote,
    appendVars, snapVars
<1>2. [Next]_vars
  BY DEF Next
<1>3. UNCHANGED m_matchIndex \/ m_matchIndex' = [m_matchIndex EXCEPT ![s] = [v \in Server |-> 0]]
  <2>1. \A r : CountVote(s, r) => UNCHANGED m_matchIndex
              \/ m_matchIndex' = [m_matchIndex EXCEPT ![s] = @]
              \/ m_matchIndex' = [m_matchIndex EXCEPT ![s] = [v \in Server |-> 0]]
    BY DEF CountVote, peerVars
  <2>2. m_matchIndex \in [Server -> [Server -> Nat]]
    BY DEF TypeInv, TypeOK, PeerTypeOK
  <2>3. m_matchIndex = [m_matchIndex EXCEPT ![s] = @]
    BY <2>2
  <2>4. CASE electionTimeOutTicker(s) \/ RequestVote(s)
    BY <2>4 DEF electionTimeOutTicker, doElection, RequestVote, peerVars
  <2>5. CASE sendRequestVote(s)
    <3>1. PICK r \in voteRep : UNCHANGED m_matchIndex \/ CountVote(s, r)
      BY <2>5 DEF sendRequestVote, peerVars
    <3>2. QED
      BY <2>1, <2>3, <3>1
  <2>6. QED
    BY <2>4, <2>5 DEF ElectionStep
<1>4. \A u, v \in Server : m_matchIndex'[u][v] = m_matchIndex[u][v] \/ m_matchIndex'[u][v] = 0
  <2>1. m_matchIndex \in [Server -> [Server -> Nat]]
    BY DEF TypeInv, TypeOK, PeerTypeOK
  <2>2. QED
    BY <1>3, <2>1
<1>5. \A v \in Server : Known(v)' \in Nat
  BY <1>2, KnownGrows
<1>6. QED
  BY <1>1, <1>2, <1>4, <1>5, NewMatchesHeld

\* A call is accepted only with all its entries in the log.
LEMMA AppendMatches ==
    ASSUME TypeInv, TypeInv', IndexOrder, MatchInv, NEW s \in Server, AppendEntries1(s)
    PROVE  MatchInv'
<1>1. UNCHANGED <<m_matchIndex, snapRep, m_lastSnapshotIncludeIndex>>
  BY DEF AppendEntries1, peerVars, snapVars
<1>2. [Next]_vars
  BY DEF Next, ReplicationStep
<1>3. PICK m \in appendReq :
        /\ m.callee = s
        /\ \/ appendRep' = appendRep
           \/ \E t, next : AnswerAppend(m, t, FALSE, next)
           \/ AcceptAppend(s, m)
  BY DEF AppendEntries1, RejectStaleAppend, RejectGap, FailInMatchLog, RejectMismatch
<1>4. CASE appendRep' = appendRep \/ \E t, next : AnswerAppend(m, t, FALSE, next)
  BY <1>1, <1>2, <1>4, NewMatchesHeld DEF AnswerAppend
<1>5. CASE AcceptAppend(s, m) /\ appendRep' # appendRep
  <2>1. /\ MatchLogDefined(s, m.prevlogindex)
        /\ m_logs' = [m_logs EXCEPT ![s] = Merged(s, m)]
        /\ AnswerAppend(m, m.term, TRUE, 0)
    BY <1>5 DEF AcceptAppend
  <2>2. m_logs \in [Server -> Seq(Entry)] /\ m_lastSnapshotIncludeIndex[s] \in Nat
        /\ m.prevlogindex \in Nat /\ m.entries \in Seq(Entry)
    BY DEF TypeInv, TypeOK, LogTypeOK, AppendTypeOK, AppendArgs
  <2>3. m_logs'[s] = Merged(s, m) /\ m_lastSnapshotIncludeIndex'[s] = m_lastSnapshotIncludeIndex[s]
    BY <1>1, <2>1, <2>2
  <2>4. Merged(s, m) \in Seq(Entry)
        /\ Len(Merged(s, m)) >= (m.prevlogindex - m_lastSnapshotIncludeIndex[s]) + Len(m.entries)
    <3>1. PICK off : off = getSlicesIndexFromLogIndex(s, m.prevlogindex)
      OBVIOUS
    <3>2. Merged(s, m) \in Seq(Entry) /\ SlotsAfter(s, m, off)
      BY <2>1, <3>1, MergedLog, MergedSlots
    <3>3. QED
      BY <3>1, <3>2 DEF SlotsAfter, getSlicesIndexFromLogIndex
  <2>5. Len(Merged(s, m)) \in Nat /\ Len(m.entries) \in Nat
    BY <2>2, <2>4
  <2>6. m.prevlogindex + Len(m.entries) <= Known(s)'
    BY <2>2, <2>3, <2>4, <2>5 DEF Known
  <2>7. QED
    BY <1>1, <1>2, <1>3, <2>1, <2>6, NewMatchesHeld DEF AnswerAppend
<1>6. QED
  BY <1>3, <1>4, <1>5

\* The matched index becomes what a positive answer says, or stays.
LEMMA CountAppendMatches ==
    ASSUME TypeInv, TypeInv', IndexOrder, MatchInv, NEW s \in Server, sendAppendEntries(s)
    PROVE  MatchInv'
<1>1. UNCHANGED snapRep /\ appendRep' \subseteq appendRep
  BY DEF sendAppendEntries, snapVars
<1>2. [Next]_vars
  BY DEF Next, ReplicationStep
<1>3. PICK r \in appendRep : UNCHANGED m_matchIndex \/ (r.success /\ CountAppend(s, r))
  BY DEF sendAppendEntries, peerVars
<1>4. CASE UNCHANGED m_matchIndex
  BY <1>1, <1>2, <1>4, NewMatchesHeld
<1>5. CASE r.success /\ CountAppend(s, r) /\ ~UNCHANGED m_matchIndex
  <2> DEFINE i == r.args.callee
             held == r.args.prevlogindex + Len(r.args.entries)
             match == MaxOf(m_matchIndex[s][i], held)
  <2>1. m_matchIndex' = [m_matchIndex EXCEPT ![s][i] = match]
    BY <1>5 DEF CountAppend, peerVars
  <2>2. /\ m_matchIndex \in [Server -> [Server -> Nat]] /\ i \in Server
        /\ m_matchIndex[s][i] \in Nat /\ held \in Nat
    <3>1. m_matchIndex \in [Server -> [Server -> Nat]]
      BY DEF TypeInv, TypeOK, PeerTypeOK
    <3>2. i \in Server /\ r.args.prevlogindex \in Nat /\ r.args.entries \in Seq(Entry)
      BY DEF TypeInv, TypeOK, AppendTypeOK, AppendReply, AppendArgs
    <3>3. Len(r.args.entries) \in Nat
      BY <3>2
    <3>4. held \in Nat
      BY <3>2, <3>3
    <3> HIDE DEF i, held
    <3>5. QED
      BY <3>1, <3>2, <3>4
  <2>3. held <= Known(i) /\ Known(i) \in Nat /\ Known(i)' \in Nat /\ Known(i)' >= Known(i)
    <3>1. held <= Known(i)
      BY <1>5 DEF MatchInv
    <3> HIDE DEF held, i
    <3>2. Known(i) \in Nat /\ Known(i)' \in Nat /\ Known(i)' >= Known(i)
      BY <1>2, <2>2, KnownGrows
    <3>3. QED
      BY <3>1, <3>2
  <2> HIDE DEF held
  <2>4. match = m_matchIndex[s][i] \/ match <= Known(i)'
    BY <2>2, <2>3 DEF MaxOf
  <2> HIDE DEF match, i
  <2>5. \A u, v \in Server : Running(v)' =>
              \/ m_matchIndex'[u][v] = m_matchIndex[u][v]
              \/ m_matchIndex'[u][v] <= Known(v)'
    BY <2>1, <2>2, <2>4
  <2>6. QED
    BY <1>1, <1>2, <2>5, NewMatchesHeld
<1>6. QED
  BY <1>3, <1>4, <1>5

\* What a callee answers to a snapshot call that is not stale: it has the snapshot
\* now, or had a newer one.
LEMMA InstallMatches ==
    ASSUME TypeInv, TypeInv', IndexOrder, MatchInv, NEW s \in Server, InstallSnapshot(s)
    PROVE  MatchInv'
<1>1. UNCHANGED <<m_matchIndex, appendRep>>
  BY DEF InstallSnapshot, peerVars, appendVars
<1>2. [Next]_vars
  BY DEF Next, SnapshotStep
<1>3. PICK m \in snapReq :
        /\ m.call.callee = s
        /\ \/ m.term < m_currentTerm[s] /\ AnswerSnapshot(m, m_currentTerm[s])
           \/ IgnoreSnapshot(s, m)
           \/ TakeSnapshot(s, m)
  BY DEF InstallSnapshot
<1>4. /\ m.lastsnapshotincludeindex \in Nat /\ m.term \in Nat
      /\ m_lastSnapshotIncludeIndex \in [Server -> Nat] /\ m_lastSnapshotIncludeIndex[s] \in Nat
      /\ m_currentTerm[s] \in Nat /\ Len(m_logs[s]) \in Nat /\ Len(m_logs'[s]) \in Nat
  BY DEF TypeInv, TypeOK, SnapTypeOK, SnapArgs, LogTypeOK, NodeTypeOK
<1>5. CASE m.term < m_currentTerm[s] /\ AnswerSnapshot(m, m_currentTerm[s])
  BY <1>1, <1>2, <1>4, <1>5, NewMatchesHeld DEF AnswerSnapshot
<1>6. CASE IgnoreSnapshot(s, m)
  <2>1. m.lastsnapshotincludeindex <= m_lastSnapshotIncludeIndex[s] /\ AnswerSnapshot(m, 0)
    BY <1>6 DEF IgnoreSnapshot
  <2>2. m_lastSnapshotIncludeIndex'[s] = m_lastSnapshotIncludeIndex[s]
    BY <1>6 DEF IgnoreSnapshot, logVars
  <2>3. m.lastsnapshotincludeindex <= Known(s)'
    BY <1>4, <2>1, <2>2 DEF Known
  <2>4. QED
    BY <1>1, <1>2, <1>3, <2>1, <2>3, NewMatchesHeld DEF AnswerSnapshot
<1>7. CASE TakeSnapshot(s, m)
  <2>1. AnswerSnapshot(m, m.term)
        /\ m_lastSnapshotIncludeIndex' = [m_lastSnapshotIncludeIndex EXCEPT ![s] = m.lastsnapshotincludeindex]
    BY <1>7 DEF TakeSnapshot, CutLog
  <2>2. m.lastsnapshotincludeindex <= Known(s)'
    <3>1. m_lastSnapshotIncludeIndex'[s] = m.lastsnapshotincludeindex
      BY <1>4, <2>1
    <3>2. QED
      BY <1>4, <3>1 DEF Known
  <2>3. QED
    BY <1>1, <1>2, <1>3, <2>1, <2>2, NewMatchesHeld DEF AnswerSnapshot
<1>8. QED
  BY <1>3, <1>5, <1>6, <1>7

\* The leader of the term of a snapshot call believes its answer.
LEMMA SnapshotAnswerMatches ==
    ASSUME TypeInv, TypeInv', IndexOrder, MatchInv, NEW s \in Server, leaderSendSnapShot(s)
    PROVE  MatchInv'
<1>1. UNCHANGED <<appendRep, exited>> /\ snapRep' \subseteq snapRep
  BY DEF leaderSendSnapShot, appendVars
<1>2. [Next]_vars
  BY DEF Next, SnapshotStep
<1>3. PICK r \in snapRep :
        \/ UNCHANGED m_matchIndex
        \/ /\ m_currentTerm[s] = r.args.term /\ r.term <= m_currentTerm[s]
           /\ m_matchIndex' = [m_matchIndex EXCEPT ![s][r.args.call.callee] =
                                  r.args.lastsnapshotincludeindex]
  BY DEF leaderSendSnapShot, peerVars
<1>4. CASE UNCHANGED m_matchIndex
  BY <1>1, <1>2, <1>4, NewMatchesHeld
<1>5. CASE ~UNCHANGED m_matchIndex
  <2> DEFINE i == r.args.call.callee
             index == r.args.lastsnapshotincludeindex
  <2>1. /\ m_matchIndex \in [Server -> [Server -> Nat]] /\ i \in Server /\ index \in Nat
        /\ r.term \in Nat /\ r.args.term \in Nat
    BY DEF TypeInv, TypeOK, PeerTypeOK, SnapTypeOK, SnapReply, SnapArgs, SnapCall
  <2>2. ~Running(i)' \/ index <= Known(i)
    BY <1>1, <1>3, <1>5, <2>1 DEF MatchInv, Running
  <2>3. Known(i) \in Nat /\ Known(i)' \in Nat /\ Known(i)' >= Known(i)
    BY <1>2, <2>1, KnownGrows
  <2>4. m_matchIndex' = [m_matchIndex EXCEPT ![s][i] = index]
    BY <1>3, <1>5
  <2>5. ~Running(i)' \/ index <= Known(i)'
    BY <2>1, <2>2, <2>3
  <2> HIDE DEF i, index
  <2>6. \A u, v \in Server : Running(v)' =>
              \/ m_matchIndex'[u][v] = m_matchIndex[u][v]
              \/ m_matchIndex'[u][v] <= Known(v)'
    BY <2>1, <2>4, <2>5
  <2>7. QED
    BY <1>1, <1>2, <2>6, NewMatchesHeld
<1>6. QED
  BY <1>4, <1>5

\* Every step keeps what is known of the peers' logs.
LEMMA NextMatchInv ==
    ASSUME TypeInv, TypeInv', IndexOrder, MatchInv, [Next]_vars
    PROVE  MatchInv'
<1>1. CASE UNCHANGED m_matchIndex /\ appendRep' \subseteq appendRep /\ snapRep' \subseteq snapRep
  BY <1>1, NewMatchesHeld
<1>2. CASE UNCHANGED vars
  BY <1>1, <1>2 DEF vars, peerVars, appendVars, snapVars
<1>3. ASSUME NEW s \in Server, ReplicationStep(s) PROVE MatchInv'
  <2>1. CASE \E c \in Command : Start(s, c)
    BY <1>1, <2>1 DEF Start, peerVars, appendVars, snapVars
  <2>2. CASE leaderHearBeatTicker(s)
    BY <1>1, <2>2 DEF leaderHearBeatTicker, doHeartBeat, peerVars
  <2>3. CASE applierTicker(s)
    BY <1>1, <2>3 DEF applierTicker, peerVars, appendVars, snapVars
  <2>4. QED
    BY <1>3, <2>1, <2>2, <2>3, AppendMatches, CountAppendMatches DEF ReplicationStep
<1>4. ASSUME NEW s \in Server, SnapshotStep(s) PROVE MatchInv'
  <2>1. CASE \E i \in 1..MaxSnapshotIndex : Snapshot(s, i)
    BY <1>1, <2>1 DEF Snapshot, peerVars, appendVars, snapVars
  <2>2. CASE SendSnapShot(s)
    BY <1>1, <2>2 DEF SendSnapShot, peerVars, appendVars
  <2>3. CASE ConnectionClosed(s)
    <3>1. UNCHANGED <<exited, m_matchIndex, appendRep>> /\ ~Running(s)
      BY <2>3 DEF ConnectionClosed, peerVars, appendVars
    <3>2. PICK m \in snapReq : m.call.callee = s /\ AnswerSnapshot(m, 0)
      BY <2>3 DEF ConnectionClosed
    <3>3. QED
      BY <3>1, <3>2, NewMatchesHeld DEF AnswerSnapshot, Running
  <2>4. QED
    BY <1>4, <2>1, <2>2, <2>3, InstallMatches, SnapshotAnswerMatches DEF SnapshotStep
<1>5. ASSUME NEW s \in Server, CallFails(s) PROVE MatchInv'
  BY <1>1, <1>5 DEF CallFails, peerVars, appendVars
<1>6. QED
  BY <1>2, <1>3, <1>4, <1>5, ElectionMatches DEF Next

\* A leader never believes a running peer to have more than it has, whatever
\* mixture of late answers, ignored snapshots and closed connections it has met.
THEOREM MatchesHeld == Spec => []MatchedIsHeld
<1>1. Init => MatchInv
  <2> SUFFICES ASSUME Init PROVE MatchInv
    OBVIOUS
  <2>1. \A v \in Server : Known(v) = 0
    BY DEF Init, Known
  <2>2. QED
    BY <2>1 DEF Init, MatchInv
<1>2. MatchInv /\ TypeInv /\ TypeInv' /\ IndexOrder /\ [Next]_vars => MatchInv'
  BY NextMatchInv
<1>3. TypeInv /\ MatchInv => MatchedIsHeld
  BY LastIndexOfLog DEF TypeInv, MatchInv, MatchedIsHeld, Known
<1>4. QED
  BY <1>1, <1>2, <1>3, TypeInvariant, IndexesOrdered, PTL DEF Spec
=============================================================================
