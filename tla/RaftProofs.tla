----------------------------- MODULE RaftProofs -----------------------------
(***************************************************************************)
(* Proofs about module Raft, for any finite set of at least two servers,   *)
(* any commands and any bounds: the types, the numbering of the entries,   *)
(* and the order and the monotonicity of the four indexes of a server.     *)
(***************************************************************************)
EXTENDS RaftProperties, FiniteSetTheorems, TLAPS

\* The entries of a call are numbered from the one after prevlogindex on.
CallsContiguous ==
    \A m \in appendReq : \A k \in 1..Len(m.entries) :
        m.entries[k].logindex = m.prevlogindex + k

\* Typing needs to know where an index is found in a log, hence the numbering.
TypeInv == TypeOK /\ LogContiguous /\ CallsContiguous

\* getLastLogIndex counts the snapshot and the entries after it.
LEMMA LastIndexOfLog ==
    ASSUME TypeOK, LogContiguous, NEW s \in Server
    PROVE  /\ getLastLogIndex(s) = m_lastSnapshotIncludeIndex[s] + Len(m_logs[s])
           /\ getLastLogIndex(s) \in Nat
           /\ getLastLogTerm(s) \in Nat
<1>1. m_logs[s] \in Seq(Entry) /\ m_lastSnapshotIncludeIndex[s] \in Nat
      /\ m_lastSnapshotIncludeTerm[s] \in Nat
  BY DEF TypeOK, LogTypeOK
<1>2. CASE m_logs[s] = <<>>
  BY <1>1, <1>2 DEF getLastLogIndex, getLastLogTerm, LastIndexOf
<1>3. CASE m_logs[s] # <<>>
  <2>1. Len(m_logs[s]) \in 1..Len(m_logs[s])
    BY <1>1, <1>3
  <2>2. m_logs[s][Len(m_logs[s])] \in Entry
    BY <1>1, <2>1
  <2>3. m_logs[s][Len(m_logs[s])].logindex = m_lastSnapshotIncludeIndex[s] + Len(m_logs[s])
    BY <2>1 DEF LogContiguous
  <2>4. QED
    BY <1>1, <1>3, <2>2, <2>3 DEF getLastLogIndex, getLastLogTerm, LastIndexOf, Entry
<1>4. QED
  BY <1>2, <1>3

\* The state Raft::init leaves is typed.
LEMMA InitTypeInv == Init => TypeInv
<1>1. Init => TypeOK
  BY BoundsAssumption DEF Init, TypeOK, NodeTypeOK, LogTypeOK, ApplyTypeOK, PeerTypeOK,
    RoundTypeOK, VoteTypeOK, AppendTypeOK, SnapTypeOK
<1>2. Init => LogContiguous /\ CallsContiguous
  BY DEF Init, LogContiguous, CallsContiguous
<1>3. QED
  BY <1>1, <1>2 DEF TypeInv

\* What does not change keeps its type.
LEMMA UnchangedTyping ==
    /\ NodeTypeOK /\ UNCHANGED <<exited, nodeVars>> => NodeTypeOK'
    /\ LogTypeOK /\ UNCHANGED logVars => LogTypeOK'
    /\ ApplyTypeOK /\ UNCHANGED applyVars => ApplyTypeOK'
    /\ PeerTypeOK /\ UNCHANGED peerVars => PeerTypeOK'
    /\ RoundTypeOK /\ UNCHANGED roundVars => RoundTypeOK'
    /\ VoteTypeOK /\ UNCHANGED voteVars => VoteTypeOK'
    /\ AppendTypeOK /\ UNCHANGED appendVars => AppendTypeOK'
    /\ SnapTypeOK /\ UNCHANGED snapVars => SnapTypeOK'
    /\ LogContiguous /\ UNCHANGED logVars => LogContiguous'
    /\ CallsContiguous /\ UNCHANGED appendReq => CallsContiguous'
BY DEF NodeTypeOK, LogTypeOK, ApplyTypeOK, PeerTypeOK, RoundTypeOK, VoteTypeOK, AppendTypeOK,
  SnapTypeOK, LogContiguous, CallsContiguous, nodeVars, logVars, applyVars, peerVars,
  roundVars, voteVars, appendVars, snapVars

\* A campaign.
LEMMA ElectionTyping ==
    ASSUME TypeInv, NEW s \in Server, electionTimeOutTicker(s)
    PROVE  TypeInv'
<1>1. getLastLogIndex(s) \in Nat /\ getLastLogTerm(s) \in Nat
  BY LastIndexOfLog DEF TypeInv
<1>2. NodeTypeOK'
  BY DEF TypeInv, TypeOK, NodeTypeOK, electionTimeOutTicker, doElection
<1>3. VoteTypeOK'
  <2>1. m_currentTerm[s] + 1 \in Nat
    BY DEF TypeInv, TypeOK, NodeTypeOK
  <2>2. \A i \in Server : RequestVoteArgs(s, i) \in VoteArgs
    BY <1>1, <2>1 DEF RequestVoteArgs, VoteArgs
  <2>3. QED
    BY <2>2 DEF TypeInv, TypeOK, VoteTypeOK, electionTimeOutTicker, doElection
<1>4. QED
  BY <1>2, <1>3, UnchangedTyping DEF TypeInv, TypeOK, electionTimeOutTicker, doElection,
    appendVars

\* A server that follows its caller.
LEMMA FollowTyping ==
    ASSUME NodeTypeOK, NEW s \in Server, NEW t \in Nat,
           StepDown(s, t) \/ FollowCaller(s, t), UNCHANGED exited
    PROVE  NodeTypeOK'
BY DEF NodeTypeOK, StepDown, FollowCaller

\* A server that exits.
LEMMA ExitTyping ==
    ASSUME NodeTypeOK, NEW s \in Server, UNCHANGED nodeVars,
           NEW w \in {"sendRequestVote", "doHeartBeat", "matchLog", "AppendEntries1",
                      "sendAppendEntries", "getApplyLogs", "Snapshot"},
           Exit(s, w)
    PROVE  NodeTypeOK'
BY DEF NodeTypeOK, Exit, nodeVars

\* The vote and its answer.
LEMMA RequestVoteTyping ==
    ASSUME TypeInv, NEW s \in Server, RequestVote(s)
    PROVE  TypeInv'
<1>1. PICK m \in voteReq : /\ voteReq' = voteReq \ {m}
                           /\ RejectVote(s, m) \/ DecideVote(s, m)
  BY DEF RequestVote
<1>2. m \in VoteArgs /\ m.term \in Nat /\ m.caller \in Server /\ m_currentTerm[s] \in Nat
  BY DEF TypeInv, TypeOK, VoteTypeOK, NodeTypeOK, VoteArgs
<1>3. UNCHANGED <<exited, logVars, applyVars, peerVars, roundVars, votedNum, elected,
                  appendVars, snapVars>>
  BY DEF RequestVote
<1>4. NodeTypeOK' /\ voteRep' \subseteq VoteReply
  <2>1. CASE RejectVote(s, m)
    <3>1. NodeTypeOK'
      BY <1>3, <2>1, UnchangedTyping DEF RejectVote, TypeInv, TypeOK
    <3>2. [args |-> m, term |-> m_currentTerm[s], votegranted |-> FALSE] \in VoteReply
      BY <1>2 DEF VoteReply
    <3>3. QED
      BY <2>1, <3>1, <3>2 DEF RejectVote, TypeInv, TypeOK, VoteTypeOK
  <2>2. CASE DecideVote(s, m)
    <3>1. VoteOfTerm(s, m) \in Server \cup {NoVote}
          /\ StatusAfterVote(s, m) \in {"Follower", "Candidate", "Leader"}
      BY DEF TypeInv, TypeOK, NodeTypeOK, VoteOfTerm, StatusAfterVote
    <3>2. NodeTypeOK'
      BY <1>2, <1>3, <2>2, <3>1 DEF DecideVote, TypeInv, TypeOK, NodeTypeOK
    <3> DEFINE grant == UpToDate(s, m.lastlogindex, m.lastlogterm) /\ FreeToVote(s, m)
    <3>3. grant \in BOOLEAN
      BY Zenon
    <3>4. voteRep' = voteRep \cup {[args |-> m, term |-> m.term, votegranted |-> grant]}
      BY <2>2, Zenon DEF DecideVote
    <3> HIDE DEF grant
    <3>5. QED
      BY <1>2, <3>2, <3>3, <3>4 DEF TypeInv, TypeOK, VoteTypeOK, VoteReply
  <2>3. QED
    BY <1>1, <2>1, <2>2
<1>5. VoteTypeOK'
  BY <1>1, <1>3, <1>4 DEF TypeInv, TypeOK, VoteTypeOK
<1>6. QED
  BY <1>3, <1>4, <1>5, UnchangedTyping DEF TypeInv, TypeOK, appendVars

\* The count of votes, and the tables a new leader sets up.
LEMMA SendRequestVoteTyping ==
    ASSUME TypeInv, NEW s \in Server, sendRequestVote(s)
    PROVE  TypeInv'
<1>1. PICK r \in voteRep :
        /\ voteRep' = voteRep \ {r}
        /\ \/ /\ StepDown(s, r.term)
              /\ UNCHANGED <<exited, peerVars, votedNum, elected>>
           \/ UNCHANGED <<exited, nodeVars, peerVars, votedNum, elected>>
           \/ CountVote(s, r)
  BY DEF sendRequestVote
<1>2. r \in VoteReply /\ r.term \in Nat /\ r.args.callee \in Server
  BY DEF TypeInv, TypeOK, VoteTypeOK, VoteReply, VoteArgs
<1>3. UNCHANGED <<logVars, applyVars, roundVars, voteReq, appendVars, snapVars>>
  BY DEF sendRequestVote
<1>4. NodeTypeOK' /\ PeerTypeOK' /\ votedNum' \in [Server -> SUBSET Server]
      /\ elected' \subseteq [term: Nat, leader: Server, quorum: SUBSET Server]
  <2>1. CASE StepDown(s, r.term) /\ UNCHANGED <<exited, peerVars, votedNum, elected>>
    BY <1>2, <2>1, FollowTyping, UnchangedTyping DEF TypeInv, TypeOK, VoteTypeOK
  <2>2. CASE UNCHANGED <<exited, nodeVars, peerVars, votedNum, elected>>
    BY <2>2, UnchangedTyping DEF TypeInv, TypeOK, VoteTypeOK
  <2>3. CASE CountVote(s, r)
    <3> DEFINE counted == votedNum[s] \cup {r.args.callee}
               wins == Cardinality(counted) >= Majority
    <3>1. counted \in SUBSET Server /\ Tally(counted) \in SUBSET Server
      BY <1>2 DEF TypeInv, TypeOK, VoteTypeOK, Tally
    <3>2. CASE wins /\ m_status[s] = "Leader"
      <4>1. Exit(s, "sendRequestVote") /\ UNCHANGED <<nodeVars, peerVars, votedNum, elected>>
        BY <2>3, <3>2 DEF CountVote
      <4>2. QED
        BY <4>1, ExitTyping, UnchangedTyping DEF TypeInv, TypeOK, VoteTypeOK
    <3>3. CASE ~(wins /\ m_status[s] = "Leader")
      <4>1. /\ votedNum' = [votedNum EXCEPT ![s] = Tally(counted)]
            /\ m_status' = [m_status EXCEPT ![s] = IF wins THEN "Leader" ELSE @]
            /\ m_nextIndex' = [m_nextIndex EXCEPT ![s] =
                   IF wins THEN [i \in Server |-> getLastLogIndex(s) + 1] ELSE @]
            /\ m_matchIndex' = [m_matchIndex EXCEPT ![s] =
                   IF wins THEN [i \in Server |-> 0] ELSE @]
            /\ elected' = elected \cup
                   (IF wins THEN {[term |-> m_currentTerm[s], leader |-> s, quorum |-> counted]}
                    ELSE {})
            /\ UNCHANGED <<exited, m_currentTerm, m_votedFor>>
        BY <2>3, <3>3 DEF CountVote
      <4>2. getLastLogIndex(s) + 1 \in Int
        BY LastIndexOfLog DEF TypeInv
      <4> HIDE DEF counted, wins
      <4>3. NodeTypeOK'
        BY <4>1 DEF TypeInv, TypeOK, NodeTypeOK
      <4>4. PeerTypeOK'
        BY <4>1, <4>2 DEF TypeInv, TypeOK, PeerTypeOK
      <4>5. votedNum' \in [Server -> SUBSET Server]
        BY <3>1, <4>1 DEF TypeInv, TypeOK, VoteTypeOK
      <4>6. [term |-> m_currentTerm[s], leader |-> s, quorum |-> counted]
              \in [term: Nat, leader: Server, quorum: SUBSET Server]
        BY <3>1 DEF TypeInv, TypeOK, NodeTypeOK
      <4>7. elected' \subseteq [term: Nat, leader: Server, quorum: SUBSET Server]
        BY <4>1, <4>6 DEF TypeInv, TypeOK, VoteTypeOK
      <4>8. QED
        BY <4>3, <4>4, <4>5, <4>7
    <3>4. QED
      BY <3>2, <3>3
  <2>4. QED
    BY <1>1, <2>1, <2>2, <2>3
<1>5. VoteTypeOK'
  BY <1>1, <1>3, <1>4 DEF TypeInv, TypeOK, VoteTypeOK
<1>6. QED
  BY <1>3, <1>4, <1>5, UnchangedTyping DEF TypeInv, TypeOK, appendVars

\* What a heartbeat sends and a snapshot keeps.
LEMMA EntriesAfterIndex ==
    ASSUME TypeOK, LogContiguous, NEW s \in Server, NEW i \in Nat, MatchLogDefined(s, i)
    PROVE  /\ EntriesAfter(s, i) \in Seq(Entry)
           /\ Len(EntriesAfter(s, i)) = getLastLogIndex(s) - i
           /\ \A k \in 1..Len(EntriesAfter(s, i)) : EntriesAfter(s, i)[k].logindex = i + k
<1> DEFINE log == m_logs[s]
           off == i - m_lastSnapshotIncludeIndex[s]
<1>1. log \in Seq(Entry) /\ m_lastSnapshotIncludeIndex[s] \in Nat /\ Len(log) \in Nat
  BY DEF TypeOK, LogTypeOK
<1>2. off \in Nat /\ off <= Len(log) /\ getLastLogIndex(s) - i = Len(log) - off
  BY <1>1, LastIndexOfLog DEF MatchLogDefined
<1>3. EntriesAfter(s, i) = SubSeq(log, off + 1, Len(log))
  BY DEF EntriesAfter, getSlicesIndexFromLogIndex
<1>4. \A k \in 1..Len(log) : log[k] \in Entry /\ log[k].logindex = m_lastSnapshotIncludeIndex[s] + k
  BY <1>1 DEF LogContiguous
<1> HIDE DEF log, off
<1>5. /\ SubSeq(log, off + 1, Len(log)) \in Seq(Entry)
      /\ Len(SubSeq(log, off + 1, Len(log))) = Len(log) - off
      /\ \A k \in 1..(Len(log) - off) : SubSeq(log, off + 1, Len(log))[k] = log[off + k]
  BY <1>1, <1>2
<1>6. ASSUME NEW k \in 1..(Len(log) - off)
      PROVE  SubSeq(log, off + 1, Len(log))[k].logindex = i + k
  <2>1. off + k \in 1..Len(log)
    BY <1>1, <1>2
  <2>2. SubSeq(log, off + 1, Len(log))[k] = log[off + k]
    BY <1>5
  <2>3. log[off + k].logindex = m_lastSnapshotIncludeIndex[s] + (off + k)
    BY <1>4, <2>1
  <2>4. m_lastSnapshotIncludeIndex[s] + (off + k) = i + k
    BY <1>1 DEF off
  <2>5. QED
    BY <2>2, <2>3, <2>4
<1>7. QED
  BY <1>2, <1>3, <1>5, <1>6

\* A new entry gets the index of its slot.
LEMMA StartTyping ==
    ASSUME TypeInv, NEW s \in Server, NEW c \in Command, Start(s, c)
    PROVE  TypeInv'
<1> DEFINE e == [logterm |-> m_currentTerm[s], logindex |-> getLastLogIndex(s) + 1, command |-> c]
<1>1. /\ m_logs' = [m_logs EXCEPT ![s] = Append(m_logs[s], e)]
      /\ UNCHANGED <<exited, nodeVars, m_lastSnapshotIncludeIndex, m_lastSnapshotIncludeTerm,
                     applyVars, peerVars, roundVars, voteVars, appendVars, snapVars>>
  BY DEF Start
<1>2. /\ getLastLogIndex(s) = m_lastSnapshotIncludeIndex[s] + Len(m_logs[s])
      /\ getLastLogIndex(s) \in Nat
  BY LastIndexOfLog DEF TypeInv
<1>3. e \in Entry
  BY <1>2 DEF TypeInv, TypeOK, NodeTypeOK, Entry
<1>4. m_logs[s] \in Seq(Entry) /\ m_lastSnapshotIncludeIndex[s] \in Nat
  BY DEF TypeInv, TypeOK, LogTypeOK
<1>5. e.logindex = m_lastSnapshotIncludeIndex[s] + (Len(m_logs[s]) + 1)
  BY <1>2, <1>4
<1> HIDE DEF e
<1>6. LogTypeOK'
  BY <1>1, <1>3, <1>4 DEF TypeInv, TypeOK, LogTypeOK
<1>7. LogContiguous'
  <2>1. \A k \in 1..Len(Append(m_logs[s], e)) :
           Append(m_logs[s], e)[k].logindex = m_lastSnapshotIncludeIndex[s] + k
    BY <1>3, <1>4, <1>5 DEF TypeInv, LogContiguous
  <2>2. QED
    BY <1>1, <2>1 DEF TypeInv, TypeOK, LogTypeOK, LogContiguous
<1>8. QED
  BY <1>1, <1>6, <1>7, UnchangedTyping DEF TypeInv, TypeOK, appendVars

\* The calls of a round carry entries numbered from prevlogindex on.
LEMMA HeartBeatTyping ==
    ASSUME TypeInv, NEW s \in Server, leaderHearBeatTicker(s)
    PROVE  TypeInv'
<1>1. round[s] < MaxRound /\ UNCHANGED <<nodeVars, logVars, applyVars, peerVars, voteVars,
                                         appendRep, snapReq, snapRep>>
  BY DEF leaderHearBeatTicker, doHeartBeat
<1>2. round[s] \in Nat /\ round[s] + 1 \in 1..MaxRound
  BY <1>1, BoundsAssumption DEF TypeInv, TypeOK, RoundTypeOK
<1>3. CASE \A i \in Server \ {s} : NextIndexUsable(s, i)
  <2>1. /\ round' = [round EXCEPT ![s] = @ + 1]
        /\ appendNums' = [appendNums EXCEPT ![s][round[s] + 1] = {s}]
        /\ appendReq' = appendReq \cup
             {AppendEntriesArgs(s, i) : i \in (Server \ {s}) \ NeedsSnapshot(s)}
        /\ snapThread' = snapThread \cup
             {[caller |-> s, callee |-> i, round |-> round[s] + 1] : i \in NeedsSnapshot(s)}
        /\ UNCHANGED exited
    BY <1>3 DEF leaderHearBeatTicker, doHeartBeat
  <2>2. RoundTypeOK'
    BY <1>2, <2>1, BoundsAssumption DEF TypeInv, TypeOK, RoundTypeOK
  <2>3. ASSUME NEW i \in (Server \ {s}) \ NeedsSnapshot(s)
        PROVE  /\ AppendEntriesArgs(s, i) \in AppendArgs
               /\ AppendEntriesArgs(s, i).round \in 1..MaxRound
               /\ \A k \in 1..Len(AppendEntriesArgs(s, i).entries) :
                     AppendEntriesArgs(s, i).entries[k].logindex
                       = AppendEntriesArgs(s, i).prevlogindex + k
    <3> DEFINE prev == m_nextIndex[s][i] - 1
    <3>1. prev \in Nat /\ MatchLogDefined(s, prev)
      <4>1. m_nextIndex[s][i] \in Int /\ m_lastSnapshotIncludeIndex[s] \in Nat
            /\ getLastLogIndex(s) \in Nat
        BY LastIndexOfLog DEF TypeInv, TypeOK, PeerTypeOK, LogTypeOK
      <4>2. m_nextIndex[s][i] >= 1 /\ m_nextIndex[s][i] <= getLastLogIndex(s) + 1
            /\ ~(m_nextIndex[s][i] <= m_lastSnapshotIncludeIndex[s])
        BY <1>3 DEF NextIndexUsable, NeedsSnapshot
      <4>3. QED
        BY <4>1, <4>2 DEF MatchLogDefined
    <3> HIDE DEF prev
    <3>2. getLogTermFromLogIndex(s, prev) \in Nat
      <4>1. m_logs[s] \in Seq(Entry) /\ m_lastSnapshotIncludeIndex[s] \in Nat
            /\ m_lastSnapshotIncludeTerm[s] \in Nat
            /\ getLastLogIndex(s) = m_lastSnapshotIncludeIndex[s] + Len(m_logs[s])
        BY LastIndexOfLog DEF TypeInv, TypeOK, LogTypeOK
      <4>2. prev # m_lastSnapshotIncludeIndex[s]
              => prev - m_lastSnapshotIncludeIndex[s] \in 1..Len(m_logs[s])
        BY <3>1, <4>1 DEF MatchLogDefined
      <4>3. prev # m_lastSnapshotIncludeIndex[s] => EntryAt(s, prev) \in Entry
        BY <4>1, <4>2 DEF EntryAt, getSlicesIndexFromLogIndex
      <4>4. QED
        BY <4>1, <4>3 DEF getLogTermFromLogIndex, Entry
    <3>3. /\ EntriesAfter(s, prev) \in Seq(Entry)
          /\ \A k \in 1..Len(EntriesAfter(s, prev)) :
                EntriesAfter(s, prev)[k].logindex = prev + k
      BY <3>1, EntriesAfterIndex DEF TypeInv
    <3>4. AppendEntriesArgs(s, i) =
            [caller |-> s, callee |-> i, round |-> round[s] + 1, term |-> m_currentTerm[s],
             prevlogindex |-> prev, prevlogterm |-> getLogTermFromLogIndex(s, prev),
             entries |-> EntriesAfter(s, prev), leadercommit |-> m_commitIndex[s]]
      BY Zenon DEF AppendEntriesArgs, prev
    <3>5. m_currentTerm[s] \in Nat /\ m_commitIndex[s] \in Nat
      BY DEF TypeInv, TypeOK, NodeTypeOK, ApplyTypeOK
    <3>6. QED
      BY <1>2, <3>1, <3>2, <3>3, <3>4, <3>5 DEF AppendArgs
  <2>4. AppendTypeOK' /\ CallsContiguous'
    BY <1>1, <2>1, <2>3 DEF TypeInv, TypeOK, AppendTypeOK, CallsContiguous
  <2>5. SnapTypeOK'
    BY <1>1, <1>2, <2>1 DEF TypeInv, TypeOK, SnapTypeOK, SnapCall, NeedsSnapshot
  <2>6. QED
    BY <1>1, <2>1, <2>2, <2>4, <2>5, UnchangedTyping DEF TypeInv, TypeOK
<1>4. CASE ~\A i \in Server \ {s} : NextIndexUsable(s, i)
  <2>1. Exit(s, "doHeartBeat") /\ UNCHANGED <<roundVars, appendReq, snapThread>>
    BY <1>4 DEF leaderHearBeatTicker, doHeartBeat
  <2>2. NodeTypeOK'
    BY <1>1, <2>1, ExitTyping DEF TypeInv, TypeOK
  <2>3. QED
    BY <1>1, <2>1, <2>2, UnchangedTyping DEF TypeInv, TypeOK, appendVars, snapVars
<1>5. QED
  BY <1>3, <1>4

\* The loop of AppendEntries1 leaves a log whose slots still tell the indexes, and
\* which is at least as long as before.
LEMMA MergedLog ==
    ASSUME TypeInv, NEW s \in Server, NEW m \in appendReq, MatchLogDefined(s, m.prevlogindex)
    PROVE  /\ Merged(s, m) \in Seq(Entry)
           /\ Len(Merged(s, m)) >= Len(m_logs[s])
           /\ \A k \in 1..Len(Merged(s, m)) :
                 Merged(s, m)[k].logindex = m_lastSnapshotIncludeIndex[s] + k
<1> DEFINE log == m_logs[s]
           snap == m_lastSnapshotIncludeIndex[s]
           off == m.prevlogindex - snap
           n == Len(m.entries)
           top == MaxOf(Len(log), off + n)
           slot(k) == IF k \in (off + 1)..(off + n)
                         /\ (k > Len(log) \/ log[k].logterm # m.entries[k - off].logterm)
                      THEN m.entries[k - off]
                      ELSE log[k]
<1>1. log \in Seq(Entry) /\ snap \in Nat /\ Len(log) \in Nat
  BY DEF TypeInv, TypeOK, LogTypeOK
<1>2. m.prevlogindex \in Nat /\ m.entries \in Seq(Entry) /\ n \in Nat
  BY DEF TypeInv, TypeOK, AppendTypeOK, AppendArgs
<1>3. off \in Nat /\ off <= Len(log)
  BY <1>1, <1>2, LastIndexOfLog DEF MatchLogDefined, TypeInv
<1>4. Merged(s, m) = [k \in 1..top |-> slot(k)]
  BY Zenon DEF Merged, getSlicesIndexFromLogIndex
<1>5. top \in Nat /\ top >= Len(log) /\ (top > Len(log) => top = off + n)
  BY <1>1, <1>2, <1>3 DEF MaxOf
<1>6. \A k \in 1..Len(log) : log[k] \in Entry /\ log[k].logindex = snap + k
  BY <1>1 DEF TypeInv, LogContiguous
<1>7. \A k \in 1..n : m.entries[k] \in Entry /\ m.entries[k].logindex = m.prevlogindex + k
  BY <1>2 DEF TypeInv, CallsContiguous
<1>8. ASSUME NEW k \in 1..top
      PROVE  slot(k) \in Entry /\ slot(k).logindex = snap + k
  <2>1. CASE k \in (off + 1)..(off + n)
    <3>1. k - off \in 1..n
      BY <1>2, <1>3, <2>1
    <3>2. m.entries[k - off] \in Entry /\ m.entries[k - off].logindex = m.prevlogindex + (k - off)
      BY <1>7, <3>1
    <3>3. m.prevlogindex + (k - off) = snap + k
      BY <1>1, <1>2
    <3>4. k > Len(log) \/ k \in 1..Len(log)
      BY <1>1, <1>5
    <3>5. CASE k > Len(log)
      BY <2>1, <3>2, <3>3, <3>5
    <3>6. CASE k \in 1..Len(log)
      BY <1>6, <3>2, <3>3, <3>6
    <3>7. QED
      BY <3>4, <3>5, <3>6
  <2>2. CASE k \notin (off + 1)..(off + n)
    <3>1. k \in 1..Len(log)
      BY <1>1, <1>2, <1>3, <1>5, <2>2
    <3>2. QED
      BY <1>6, <2>2, <3>1
  <2>3. QED
    BY <2>1, <2>2
<1> HIDE DEF log, snap, off, n, top, slot
<1>9. Merged(s, m) \in Seq(Entry) /\ Len(Merged(s, m)) = top
  <2>1. [k \in 1..top |-> slot(k)] \in [1..top -> Entry]
    BY <1>8
  <2>2. QED
    BY <1>4, <1>5, <2>1
<1>10. QED
  BY <1>4, <1>5, <1>8, <1>9 DEF log, snap

\* A merged log is numbered like the two it is made of.
LEMMA AppendEntriesTyping ==
    ASSUME TypeInv, NEW s \in Server, AppendEntries1(s)
    PROVE  TypeInv'
<1>1. PICK m \in appendReq :
        /\ appendReq' = appendReq \ {m}
        /\ \/ RejectStaleAppend(s, m)
           \/ RejectGap(s, m)
           \/ FailInMatchLog(s, m)
           \/ AcceptAppend(s, m)
           \/ RejectMismatch(s, m)
  BY DEF AppendEntries1
<1>2. UNCHANGED <<m_lastSnapshotIncludeIndex, m_lastSnapshotIncludeTerm, m_lastApplied,
                  peerVars, roundVars, voteVars, snapVars>>
  BY DEF AppendEntries1
<1>3. m \in AppendArgs /\ m.term \in Nat /\ m.prevlogindex \in Nat /\ m.leadercommit \in Nat
      /\ m.round \in 1..MaxRound
  BY DEF TypeInv, TypeOK, AppendTypeOK, AppendArgs
<1>4. getLastLogIndex(s) \in Nat /\ m_currentTerm[s] \in Nat /\ m_commitIndex[s] \in Nat
  BY LastIndexOfLog DEF TypeInv, TypeOK, NodeTypeOK, ApplyTypeOK
<1>5. ASSUME NEW r \in AppendReply, r.args = m, appendRep' = appendRep \cup {r}
      PROVE  AppendTypeOK' /\ CallsContiguous'
  BY <1>1, <1>3, <1>5 DEF TypeInv, TypeOK, AppendTypeOK, CallsContiguous
<1>6. UNCHANGED appendRep => AppendTypeOK' /\ CallsContiguous'
  BY <1>1 DEF TypeInv, TypeOK, AppendTypeOK, CallsContiguous
<1>7. UNCHANGED <<m_logs, m_commitIndex>> => LogTypeOK' /\ LogContiguous' /\ ApplyTypeOK'
  BY <1>2, UnchangedTyping DEF TypeInv, TypeOK, logVars, applyVars
<1>8. NodeTypeOK' /\ LogTypeOK' /\ LogContiguous' /\ ApplyTypeOK' /\ AppendTypeOK' /\ CallsContiguous'
  <2>1. CASE RejectStaleAppend(s, m)
    <3>1. NodeTypeOK'
      BY <2>1, UnchangedTyping DEF RejectStaleAppend, TypeInv, TypeOK
    <3>2. AnswerAppend(m, m_currentTerm[s], FALSE, -100) /\ UNCHANGED <<m_logs, m_commitIndex>>
      BY <2>1 DEF RejectStaleAppend
    <3>3. [args |-> m, term |-> m_currentTerm[s], success |-> FALSE, updatenextindex |-> -100]
            \in AppendReply
      BY <1>3, <1>4 DEF AppendReply
    <3>4. AppendTypeOK' /\ CallsContiguous'
      BY <1>5, <3>2, <3>3 DEF AnswerAppend
    <3>5. QED
      BY <1>7, <3>1, <3>2, <3>4
  <2>2. CASE RejectGap(s, m)
    <3>1. NodeTypeOK'
      BY <1>3, <2>2, FollowTyping DEF RejectGap, TypeInv, TypeOK
    <3>2. AnswerAppend(m, m.term, FALSE, getLastLogIndex(s) + 1) /\ UNCHANGED <<m_logs, m_commitIndex>>
      BY <2>2 DEF RejectGap
    <3>3. [args |-> m, term |-> m.term, success |-> FALSE,
           updatenextindex |-> getLastLogIndex(s) + 1] \in AppendReply
      BY <1>3, <1>4 DEF AppendReply
    <3>4. AppendTypeOK' /\ CallsContiguous'
      BY <1>5, <3>2, <3>3 DEF AnswerAppend
    <3>5. QED
      BY <1>7, <3>1, <3>2, <3>4
  <2>3. CASE FailInMatchLog(s, m)
    BY <1>6, <1>7, <2>3, ExitTyping DEF FailInMatchLog, TypeInv, TypeOK
  <2>4. CASE AcceptAppend(s, m)
    <3> DEFINE log == Merged(s, m)
               last == LastIndexOf(log, m_lastSnapshotIncludeIndex[s])
               commit == IF m.leadercommit > m_commitIndex[s]
                         THEN MinOf(m.leadercommit, last) ELSE m_commitIndex[s]
               ok == /\ CommandsAgree(s, m)
                     /\ last >= m.prevlogindex + Len(m.entries)
                     /\ last >= commit
    <3>1. CASE ~ok
      <4>1. Exit(s, "AppendEntries1") /\ UNCHANGED <<nodeVars, m_logs, m_commitIndex, appendRep>>
        BY <2>4, <3>1 DEF AcceptAppend
      <4>2. QED
        BY <1>6, <1>7, <4>1, ExitTyping DEF TypeInv, TypeOK
    <3>2. CASE ok
      <4>1. /\ FollowCaller(s, m.term)
            /\ m_logs' = [m_logs EXCEPT ![s] = log]
            /\ m_commitIndex' = [m_commitIndex EXCEPT ![s] = commit]
            /\ AnswerAppend(m, m.term, TRUE, 0)
            /\ UNCHANGED exited
            /\ MatchLogDefined(s, m.prevlogindex)
        BY <2>4, <3>2 DEF AcceptAppend
      <4>2. /\ log \in Seq(Entry)
            /\ \A k \in 1..Len(log) : log[k].logindex = m_lastSnapshotIncludeIndex[s] + k
        BY <4>1, MergedLog
      <4>3. last \in Nat
        <5>1. m_lastSnapshotIncludeIndex[s] \in Nat
          BY DEF TypeInv, TypeOK, LogTypeOK
        <5>2. QED
          BY <4>2, <5>1 DEF LastIndexOf
      <4>4. commit \in Nat
        BY <1>3, <1>4, <4>3 DEF MinOf
      <4> HIDE DEF log, last, commit, ok
      <4>5. LogTypeOK' /\ LogContiguous'
        BY <1>2, <4>1, <4>2 DEF TypeInv, TypeOK, LogTypeOK, LogContiguous
      <4>6. ApplyTypeOK'
        BY <1>2, <4>1, <4>4 DEF TypeInv, TypeOK, ApplyTypeOK
      <4>7. NodeTypeOK'
        BY <1>3, <4>1, FollowTyping DEF TypeInv, TypeOK
      <4>8. [args |-> m, term |-> m.term, success |-> TRUE, updatenextindex |-> 0] \in AppendReply
        BY <1>3 DEF AppendReply
      <4>9. AppendTypeOK' /\ CallsContiguous'
        BY <1>5, <4>1, <4>8 DEF AnswerAppend
      <4>10. QED
        BY <4>5, <4>6, <4>7, <4>9
    <3>3. QED
      BY <3>1, <3>2
  <2>5. CASE RejectMismatch(s, m)
    <3>1. NodeTypeOK'
      BY <1>3, <2>5, FollowTyping DEF RejectMismatch, TypeInv, TypeOK
    <3>2. PICK next \in 0..m.prevlogindex : AnswerAppend(m, m.term, FALSE, next)
      BY <2>5 DEF RejectMismatch
    <3>3. [args |-> m, term |-> m.term, success |-> FALSE, updatenextindex |-> next]
            \in AppendReply
      BY <1>3 DEF AppendReply
    <3>4. AppendTypeOK' /\ CallsContiguous'
      BY <1>5, <3>2, <3>3 DEF AnswerAppend
    <3>5. QED
      BY <1>7, <2>5, <3>1, <3>4 DEF RejectMismatch
  <2>6. QED
    BY <1>1, <2>1, <2>2, <2>3, <2>4, <2>5
<1>9. QED
  BY <1>2, <1>8, UnchangedTyping DEF TypeInv, TypeOK

\* The answers to a round.
LEMMA SendAppendEntriesTyping ==
    ASSUME TypeInv, NEW s \in Server, sendAppendEntries(s)
    PROVE  TypeInv'
<1>1. PICK r \in appendRep :
        /\ appendRep' = appendRep \ {r}
        /\ \/ /\ StepDown(s, r.term)
              /\ UNCHANGED <<exited, peerVars, appendNums, m_commitIndex>>
           \/ UNCHANGED <<exited, nodeVars, peerVars, appendNums, m_commitIndex>>
           \/ /\ m_nextIndex' = [m_nextIndex EXCEPT ![s][r.args.callee] =
                     IF r.updatenextindex # -100 THEN r.updatenextindex ELSE @]
              /\ UNCHANGED <<exited, nodeVars, m_matchIndex, appendNums, m_commitIndex>>
           \/ CountAppend(s, r) /\ UNCHANGED nodeVars
  BY DEF sendAppendEntries
<1>2. UNCHANGED <<logVars, m_lastApplied, round, voteVars, appendReq, snapVars>>
  BY DEF sendAppendEntries
<1>3. /\ r.term \in Nat /\ r.updatenextindex \in Int
      /\ r.args.callee \in Server /\ r.args.round \in 1..MaxRound
      /\ r.args.prevlogindex \in Nat /\ r.args.entries \in Seq(Entry)
  BY DEF TypeInv, TypeOK, AppendTypeOK, AppendReply, AppendArgs
<1>4. AppendTypeOK' /\ CallsContiguous'
  BY <1>1, <1>2 DEF TypeInv, TypeOK, AppendTypeOK, CallsContiguous
<1>5. NodeTypeOK' /\ PeerTypeOK' /\ RoundTypeOK' /\ ApplyTypeOK'
  <2>1. CASE /\ StepDown(s, r.term)
             /\ UNCHANGED <<exited, peerVars, appendNums, m_commitIndex>>
    <3>1. NodeTypeOK'
      BY <1>3, <2>1, FollowTyping DEF TypeInv, TypeOK
    <3>2. QED
      BY <1>2, <2>1, <3>1, UnchangedTyping DEF TypeInv, TypeOK, roundVars, applyVars
  <2>2. CASE UNCHANGED <<exited, nodeVars, peerVars, appendNums, m_commitIndex>>
    BY <1>2, <2>2, UnchangedTyping DEF TypeInv, TypeOK, roundVars, applyVars
  <2>3. CASE /\ m_nextIndex' = [m_nextIndex EXCEPT ![s][r.args.callee] =
                    IF r.updatenextindex # -100 THEN r.updatenextindex ELSE @]
             /\ UNCHANGED <<exited, nodeVars, m_matchIndex, appendNums, m_commitIndex>>
    <3>1. PeerTypeOK'
      BY <1>3, <2>3 DEF TypeInv, TypeOK, PeerTypeOK
    <3>2. QED
      BY <1>2, <2>3, <3>1, UnchangedTyping DEF TypeInv, TypeOK, roundVars, applyVars
  <2>4. CASE CountAppend(s, r) /\ UNCHANGED nodeVars
    <3> DEFINE i == r.args.callee
               match == MaxOf(m_matchIndex[s][i], r.args.prevlogindex + Len(r.args.entries))
               counted == appendNums[s][r.args.round] \cup {i}
               reached == Cardinality(counted) >= Majority
               commit == IF reached THEN CommitAfter(s, r.args) ELSE m_commitIndex[s]
               ok == match <= getLastLogIndex(s) /\ (reached => commit <= getLastLogIndex(s))
    <3>1. CASE ~ok
      <4>1. Exit(s, "sendAppendEntries") /\ UNCHANGED <<appendNums, peerVars, m_commitIndex>>
        BY <2>4, <3>1 DEF CountAppend
      <4>2. NodeTypeOK'
        BY <2>4, <4>1, ExitTyping DEF TypeInv, TypeOK
      <4>3. QED
        BY <1>2, <4>1, <4>2, UnchangedTyping DEF TypeInv, TypeOK, roundVars, applyVars
    <3>2. CASE ok
      <4>1. /\ appendNums' = [appendNums EXCEPT ![s][r.args.round] = Tally(counted)]
            /\ m_matchIndex' = [m_matchIndex EXCEPT ![s][i] = match]
            /\ m_nextIndex' = [m_nextIndex EXCEPT ![s][i] = match + 1]
            /\ m_commitIndex' = [m_commitIndex EXCEPT ![s] = commit]
            /\ UNCHANGED exited
        BY <2>4, <3>2 DEF CountAppend
      <4>2. match \in Nat
        <5>1. m_matchIndex[s][i] \in Nat
          BY <1>3 DEF TypeInv, TypeOK, PeerTypeOK
        <5>2. r.args.prevlogindex + Len(r.args.entries) \in Nat
          BY <1>3
        <5>3. QED
          BY <5>1, <5>2 DEF MaxOf
      <4>3. counted \in SUBSET Server /\ Tally(counted) \in SUBSET Server
        BY <1>3 DEF TypeInv, TypeOK, RoundTypeOK, Tally
      <4>4. commit \in Nat
        <5>1. m_commitIndex[s] \in Nat /\ Len(r.args.entries) \in Nat
          BY <1>3 DEF TypeInv, TypeOK, ApplyTypeOK
        <5>2. CommitAfter(s, r.args) \in Nat
          BY <1>3, <5>1 DEF CommitAfter, MaxOf
        <5>3. QED
          BY <5>1, <5>2
      <4> HIDE DEF match, counted, reached, commit, ok
      <4>5. PeerTypeOK'
        <5>1. /\ m_nextIndex \in [Server -> [Server -> Int]] /\ m_matchIndex \in [Server -> [Server -> Nat]]
              /\ i \in Server /\ match \in Nat /\ match + 1 \in Int
          BY <1>3, <4>2 DEF TypeInv, TypeOK, PeerTypeOK
        <5>2. m_matchIndex' \in [Server -> [Server -> Nat]]
          BY <4>1, <5>1
        <5>3. m_nextIndex' \in [Server -> [Server -> Int]]
          BY <4>1, <5>1
        <5>4. QED
          BY <5>2, <5>3 DEF PeerTypeOK
      <4>6. RoundTypeOK'
        BY <1>2, <1>3, <4>1, <4>3 DEF TypeInv, TypeOK, RoundTypeOK
      <4>7. ApplyTypeOK'
        BY <1>2, <4>1, <4>4 DEF TypeInv, TypeOK, ApplyTypeOK
      <4>8. QED
        BY <2>4, <4>1, <4>5, <4>6, <4>7, UnchangedTyping DEF TypeInv, TypeOK
    <3>3. QED
      BY <3>1, <3>2
  <2>5. QED
    BY <1>1, <2>1, <2>2, <2>3, <2>4
<1>6. QED
  BY <1>2, <1>4, <1>5, UnchangedTyping DEF TypeInv, TypeOK

\* Applying.
LEMMA ApplierTyping ==
    ASSUME TypeInv, NEW s \in Server, applierTicker(s)
    PROVE  TypeInv'
<1>1. UNCHANGED <<nodeVars, logVars, m_commitIndex, peerVars, roundVars, voteVars,
                  appendVars, snapVars>>
  BY DEF applierTicker
<1>2. \/ UNCHANGED exited /\ m_lastApplied' = [m_lastApplied EXCEPT ![s] = m_commitIndex[s]]
      \/ UNCHANGED m_lastApplied /\ Exit(s, "getApplyLogs")
  BY DEF applierTicker, getApplyLogs
<1>3. NodeTypeOK'
  BY <1>1, <1>2, ExitTyping, UnchangedTyping DEF TypeInv, TypeOK
<1>4. ApplyTypeOK'
  BY <1>1, <1>2 DEF TypeInv, TypeOK, ApplyTypeOK
<1>5. QED
  BY <1>1, <1>3, <1>4, UnchangedTyping DEF TypeInv, TypeOK, appendVars

\* Replacing the beginning of a log by a snapshot.
LEMMA CutLogTyping ==
    ASSUME TypeOK, NEW s \in Server, NEW index \in Nat, NEW term \in Nat,
           NEW rest \in Seq(Entry), LogContiguous,
           \A k \in 1..Len(rest) : rest[k].logindex = index + k,
           CutLog(s, index, term, rest)
    PROVE  LogTypeOK' /\ LogContiguous' /\ ApplyTypeOK'
<1>1. LogTypeOK'
  BY DEF TypeOK, LogTypeOK, CutLog
<1>2. LogContiguous'
  BY DEF TypeOK, LogTypeOK, CutLog, LogContiguous
<1>3. ApplyTypeOK'
  BY DEF TypeOK, ApplyTypeOK, CutLog, AppliedAfterCut, CommitAfterCut, MaxOf
<1>4. QED
  BY <1>1, <1>2, <1>3

\* Cutting the log for a snapshot of the key-value server.
LEMMA SnapshotTyping ==
    ASSUME TypeInv, NEW s \in Server, NEW index \in 1..MaxSnapshotIndex, Snapshot(s, index)
    PROVE  TypeInv'
<1>1. UNCHANGED <<nodeVars, peerVars, roundVars, voteVars, appendVars, snapVars>>
  BY DEF Snapshot
<1>2. index \in Nat
  BY BoundsAssumption
<1> DEFINE rest == EntriesAfter(s, index)
           ok == InLog(s, index) /\ Len(rest) + index = getLastLogIndex(s)
<1>3. CASE ~ok
  <2>1. Exit(s, "Snapshot") /\ UNCHANGED <<logVars, applyVars>>
    BY <1>3 DEF Snapshot
  <2>2. NodeTypeOK'
    BY <1>1, <2>1, ExitTyping DEF TypeInv, TypeOK
  <2>3. QED
    BY <1>1, <2>1, <2>2, UnchangedTyping DEF TypeInv, TypeOK, appendVars
<1>4. CASE ok
  <2>1. CutLog(s, index, EntryAt(s, index).logterm, rest) /\ UNCHANGED exited
    BY <1>4 DEF Snapshot
  <2>2. rest \in Seq(Entry) /\ \A k \in 1..Len(rest) : rest[k].logindex = index + k
    <3>1. m_lastSnapshotIncludeIndex[s] \in Nat
      BY DEF TypeInv, TypeOK, LogTypeOK
    <3>2. MatchLogDefined(s, index)
      BY <1>2, <1>4, <3>1 DEF InLog, MatchLogDefined
    <3>3. QED
      BY <1>2, <3>2, EntriesAfterIndex DEF TypeInv
  <2>3. EntryAt(s, index).logterm \in Nat
    <3>1. m_logs[s] \in Seq(Entry) /\ m_lastSnapshotIncludeIndex[s] \in Nat
          /\ getLastLogIndex(s) = m_lastSnapshotIncludeIndex[s] + Len(m_logs[s])
      BY LastIndexOfLog DEF TypeInv, TypeOK, LogTypeOK
    <3>2. index - m_lastSnapshotIncludeIndex[s] \in 1..Len(m_logs[s])
      BY <1>2, <1>4, <3>1 DEF InLog
    <3>3. EntryAt(s, index) \in Entry
      BY <3>1, <3>2 DEF EntryAt, getSlicesIndexFromLogIndex
    <3>4. QED
      BY <3>3 DEF Entry
  <2> HIDE DEF rest, ok
  <2>4. LogTypeOK' /\ LogContiguous' /\ ApplyTypeOK'
    BY <1>2, <2>1, <2>2, <2>3, CutLogTyping DEF TypeInv
  <2>5. QED
    BY <1>1, <2>1, <2>4, UnchangedTyping DEF TypeInv, TypeOK, appendVars
<1>5. QED
  BY <1>3, <1>4

\* The leader's snapshot call.
LEMMA SendSnapShotTyping ==
    ASSUME TypeInv, NEW s \in Server, SendSnapShot(s)
    PROVE  TypeInv'
<1>1. UNCHANGED <<exited, nodeVars, logVars, applyVars, peerVars, roundVars,
                  voteVars, appendVars, snapRep>>
  BY DEF SendSnapShot
<1>2. PICK c \in snapThread :
        /\ snapThread' = snapThread \ {c}
        /\ snapReq' = snapReq \cup
             {[call |-> c, term |-> m_currentTerm[s],
               lastsnapshotincludeindex |-> m_lastSnapshotIncludeIndex[s],
               lastsnapshotincludeterm |-> m_lastSnapshotIncludeTerm[s]]}
  BY DEF SendSnapShot
<1>3. [call |-> c, term |-> m_currentTerm[s],
       lastsnapshotincludeindex |-> m_lastSnapshotIncludeIndex[s],
       lastsnapshotincludeterm |-> m_lastSnapshotIncludeTerm[s]] \in SnapArgs
  BY DEF TypeInv, TypeOK, NodeTypeOK, LogTypeOK, SnapTypeOK, SnapArgs
<1>4. SnapTypeOK'
  BY <1>1, <1>2, <1>3 DEF TypeInv, TypeOK, SnapTypeOK
<1>5. QED
  BY <1>1, <1>4, UnchangedTyping DEF TypeInv, TypeOK, appendVars

\* Cutting the log for a leader's snapshot.
LEMMA InstallSnapshotTyping ==
    ASSUME TypeInv, NEW s \in Server, InstallSnapshot(s)
    PROVE  TypeInv'
<1>1. UNCHANGED <<exited, peerVars, roundVars, voteVars, appendVars, snapThread>>
  BY DEF InstallSnapshot
<1>2. PICK m \in snapReq :
        /\ snapReq' = snapReq \ {m}
        /\ \/ /\ AnswerSnapshot(m, m_currentTerm[s])
              /\ UNCHANGED <<nodeVars, logVars, applyVars>>
           \/ IgnoreSnapshot(s, m)
           \/ TakeSnapshot(s, m)
  BY DEF InstallSnapshot
<1>3. /\ m \in SnapArgs /\ m.term \in Nat /\ m_currentTerm[s] \in Nat
      /\ m.lastsnapshotincludeindex \in Nat /\ m.lastsnapshotincludeterm \in Nat
  BY DEF TypeInv, TypeOK, NodeTypeOK, SnapTypeOK, SnapArgs
<1>4. ASSUME NEW t \in Nat, AnswerSnapshot(m, t)
      PROVE  SnapTypeOK'
  BY <1>1, <1>2, <1>3, <1>4 DEF AnswerSnapshot, TypeInv, TypeOK, SnapTypeOK, SnapReply
<1>5. NodeTypeOK' /\ LogTypeOK' /\ LogContiguous' /\ ApplyTypeOK' /\ SnapTypeOK'
  <2>1. CASE /\ AnswerSnapshot(m, m_currentTerm[s])
             /\ UNCHANGED <<nodeVars, logVars, applyVars>>
    BY <1>1, <1>3, <1>4, <2>1, UnchangedTyping DEF TypeInv, TypeOK
  <2>2. CASE IgnoreSnapshot(s, m)
    <3>1. NodeTypeOK'
      BY <1>1, <1>3, <2>2, FollowTyping DEF IgnoreSnapshot, TypeInv, TypeOK
    <3>2. QED
      BY <1>4, <2>2, <3>1, UnchangedTyping DEF IgnoreSnapshot, TypeInv, TypeOK
  <2>3. CASE TakeSnapshot(s, m)
    <3> DEFINE index == m.lastsnapshotincludeindex
               rest == IF getLastLogIndex(s) > index THEN EntriesAfter(s, index) ELSE <<>>
    <3>1. /\ FollowCaller(s, m.term)
          /\ CutLog(s, index, m.lastsnapshotincludeterm, rest)
          /\ AnswerSnapshot(m, m.term)
          /\ index > m_lastSnapshotIncludeIndex[s]
      BY <2>3 DEF TakeSnapshot
    <3>2. rest \in Seq(Entry) /\ \A k \in 1..Len(rest) : rest[k].logindex = index + k
      <4>1. CASE getLastLogIndex(s) > index
        <5>1. MatchLogDefined(s, index)
          <6>1. m_lastSnapshotIncludeIndex[s] \in Nat /\ getLastLogIndex(s) \in Nat
            BY LastIndexOfLog DEF TypeInv, TypeOK, LogTypeOK
          <6>2. QED
            BY <1>3, <3>1, <4>1, <6>1 DEF MatchLogDefined
        <5>2. QED
          BY <1>3, <4>1, <5>1, EntriesAfterIndex DEF TypeInv
      <4>2. CASE ~(getLastLogIndex(s) > index)
        BY <4>2
      <4>3. QED
        BY <4>1, <4>2
    <3> HIDE DEF rest
    <3>3. LogTypeOK' /\ LogContiguous' /\ ApplyTypeOK'
      BY <1>3, <3>1, <3>2, CutLogTyping DEF TypeInv
    <3>4. NodeTypeOK'
      BY <1>1, <1>3, <3>1, FollowTyping DEF TypeInv, TypeOK
    <3>5. QED
      BY <1>3, <1>4, <3>1, <3>3, <3>4
  <2>4. QED
    BY <1>2, <2>1, <2>2, <2>3
<1>6. QED
  BY <1>1, <1>5, UnchangedTyping DEF TypeInv, TypeOK, appendVars

\* The answer to a snapshot call.
LEMMA LeaderSendSnapShotTyping ==
    ASSUME TypeInv, NEW s \in Server, leaderSendSnapShot(s)
    PROVE  TypeInv'
<1>1. UNCHANGED <<exited, logVars, applyVars, roundVars, voteVars, appendVars,
                  snapThread, snapReq>>
  BY DEF leaderSendSnapShot
<1>2. PICK r \in snapRep :
        /\ snapRep' = snapRep \ {r}
        /\ \/ UNCHANGED <<nodeVars, peerVars>>
           \/ StepDown(s, r.term) /\ UNCHANGED peerVars
           \/ /\ m_matchIndex' = [m_matchIndex EXCEPT ![s][r.args.call.callee] =
                     r.args.lastsnapshotincludeindex]
              /\ m_nextIndex' = [m_nextIndex EXCEPT ![s][r.args.call.callee] =
                     r.args.lastsnapshotincludeindex + 1]
              /\ UNCHANGED nodeVars
  BY DEF leaderSendSnapShot
<1>3. r.term \in Nat /\ r.args.call.callee \in Server /\ r.args.lastsnapshotincludeindex \in Nat
  BY DEF TypeInv, TypeOK, SnapTypeOK, SnapReply, SnapArgs, SnapCall
<1>4. SnapTypeOK'
  BY <1>1, <1>2 DEF TypeInv, TypeOK, SnapTypeOK
<1>5. NodeTypeOK' /\ PeerTypeOK'
  <2>1. CASE UNCHANGED <<nodeVars, peerVars>>
    BY <1>1, <2>1, UnchangedTyping DEF TypeInv, TypeOK
  <2>2. CASE StepDown(s, r.term) /\ UNCHANGED peerVars
    BY <1>1, <1>3, <2>2, FollowTyping, UnchangedTyping DEF TypeInv, TypeOK
  <2>3. CASE /\ m_matchIndex' = [m_matchIndex EXCEPT ![s][r.args.call.callee] =
                    r.args.lastsnapshotincludeindex]
             /\ m_nextIndex' = [m_nextIndex EXCEPT ![s][r.args.call.callee] =
                    r.args.lastsnapshotincludeindex + 1]
             /\ UNCHANGED nodeVars
    <3>1. PeerTypeOK'
      BY <1>3, <2>3 DEF TypeInv, TypeOK, PeerTypeOK
    <3>2. QED
      BY <1>1, <2>3, <3>1, UnchangedTyping DEF TypeInv, TypeOK
  <2>4. QED
    BY <1>2, <2>1, <2>2, <2>3
<1>6. QED
  BY <1>1, <1>4, <1>5, UnchangedTyping DEF TypeInv, TypeOK, appendVars

\* An empty answer.
LEMMA ConnectionClosedTyping ==
    ASSUME TypeInv, NEW s \in Server, ConnectionClosed(s)
    PROVE  TypeInv'
<1>1. UNCHANGED <<exited, nodeVars, logVars, applyVars, peerVars, roundVars,
                  voteVars, appendVars, snapThread>>
  BY DEF ConnectionClosed
<1>2. PICK m \in snapReq : snapReq' = snapReq \ {m} /\ AnswerSnapshot(m, 0)
  BY DEF ConnectionClosed
<1>3. SnapTypeOK'
  BY <1>1, <1>2 DEF AnswerSnapshot, TypeInv, TypeOK, SnapTypeOK, SnapReply
<1>4. QED
  BY <1>1, <1>3, UnchangedTyping DEF TypeInv, TypeOK, appendVars

\* A failed call.
LEMMA CallFailsTyping ==
    ASSUME TypeInv, NEW s \in Server, CallFails(s)
    PROVE  TypeInv'
<1>1. UNCHANGED <<exited, nodeVars, logVars, applyVars, peerVars, roundVars,
                  votedNum, elected, snapThread>>
  BY DEF CallFails
<1>2. /\ voteReq' \subseteq voteReq /\ voteRep' \subseteq voteRep
      /\ appendReq' \subseteq appendReq /\ appendRep' \subseteq appendRep
      /\ snapReq' \subseteq snapReq /\ snapRep' \subseteq snapRep
  BY DEF CallFails, appendVars
<1>3. VoteTypeOK' /\ SnapTypeOK'
  BY <1>1, <1>2 DEF TypeInv, TypeOK, VoteTypeOK, SnapTypeOK
<1>4. AppendTypeOK' /\ CallsContiguous'
  BY <1>2 DEF TypeInv, TypeOK, AppendTypeOK, CallsContiguous
<1>5. QED
  BY <1>1, <1>3, <1>4, UnchangedTyping DEF TypeInv, TypeOK

\* Every step keeps it.
LEMMA NextTypeInv == TypeInv /\ [Next]_vars => TypeInv'
<1> SUFFICES ASSUME TypeInv, [Next]_vars PROVE TypeInv'
  OBVIOUS
<1>1. CASE UNCHANGED vars
  BY <1>1, UnchangedTyping DEF TypeInv, TypeOK, vars, appendVars
<1>2. ASSUME NEW s \in Server, ElectionStep(s) PROVE TypeInv'
  BY <1>2, ElectionTyping, RequestVoteTyping, SendRequestVoteTyping DEF ElectionStep
<1>3. ASSUME NEW s \in Server, ReplicationStep(s) PROVE TypeInv'
  BY <1>3, StartTyping, HeartBeatTyping, AppendEntriesTyping, SendAppendEntriesTyping,
    ApplierTyping DEF ReplicationStep
<1>4. ASSUME NEW s \in Server, SnapshotStep(s) PROVE TypeInv'
  BY <1>4, SnapshotTyping, SendSnapShotTyping, InstallSnapshotTyping,
    LeaderSendSnapShotTyping, ConnectionClosedTyping DEF SnapshotStep
<1>5. QED
  BY <1>1, <1>2, <1>3, <1>4, CallFailsTyping DEF Next

\* TypeInv is inductive, so it holds in every reachable state.
THEOREM TypeInvariant == Spec => []TypeInv
<1>1. Init => TypeInv
  BY InitTypeInv
<1>2. TypeInv /\ [Next]_vars => TypeInv'
  BY NextTypeInv
<1>3. QED
  BY <1>1, <1>2, PTL DEF Spec

\* In every reachable state all variables have their types.
THEOREM TypeCorrect == Spec => []TypeOK
<1>1. TypeInv => TypeOK
  BY DEF TypeInv
<1>2. QED
  BY <1>1, TypeInvariant, PTL

\* In every log the slot of an entry tells its index, whatever mixture of Start,
\* AppendEntries1, Snapshot and InstallSnapshot has written it.
THEOREM LogsContiguous == Spec => []LogContiguous
<1>1. TypeInv => LogContiguous
  BY DEF TypeInv
<1>2. QED
  BY <1>1, TypeInvariant, PTL

-----------------------------------------------------------------------------
(* The four indexes of a server (snapshot, applied, committed, last) keep  *)
(* their order and never go back.                                          *)

\* The last index of a log whose slots tell the indexes.
LEMMA LastIndexOfNumbered ==
    ASSUME NEW log \in Seq(Entry), NEW snap \in Nat,
           \A k \in 1..Len(log) : log[k].logindex = snap + k
    PROVE  LastIndexOf(log, snap) = snap + Len(log)
<1>1. CASE log = <<>>
  BY <1>1 DEF LastIndexOf
<1>2. CASE log # <<>>
  <2>1. Len(log) \in 1..Len(log)
    BY <1>2
  <2>2. QED
    BY <1>2, <2>1 DEF LastIndexOf
<1>3. QED
  BY <1>1, <1>2

\* What IndexesNeverGoBack says of one step.
Advance ==
    \A s \in Server :
        /\ getLastLogIndex(s)' >= getLastLogIndex(s)
        /\ m_commitIndex'[s] >= m_commitIndex[s]
        /\ m_lastApplied'[s] >= m_lastApplied[s]
        /\ m_lastSnapshotIncludeIndex'[s] >= m_lastSnapshotIncludeIndex[s]

\* The entries a server knows of, those of its snapshot included.
Known(s) == m_lastSnapshotIncludeIndex[s] + Len(m_logs[s])

\* It is enough to look at the one server that moves.
LEMMA OneServerMoves ==
    ASSUME TypeInv, TypeInv', IndexOrder, NEW s \in Server,
           \A v \in Server \ {s} :
              /\ m_logs'[v] = m_logs[v] /\ m_commitIndex'[v] = m_commitIndex[v]
              /\ m_lastApplied'[v] = m_lastApplied[v]
              /\ m_lastSnapshotIncludeIndex'[v] = m_lastSnapshotIncludeIndex[v],
           Known(s)' >= Known(s), m_commitIndex'[s] >= m_commitIndex[s],
           m_lastApplied'[s] >= m_lastApplied[s],
           m_lastSnapshotIncludeIndex'[s] >= m_lastSnapshotIncludeIndex[s],
           m_lastSnapshotIncludeIndex'[s] <= m_lastApplied'[s],
           m_lastApplied'[s] <= m_commitIndex'[s], m_commitIndex'[s] <= Known(s)'
    PROVE  IndexOrder' /\ Advance
<1>1. \A v \in Server : getLastLogIndex(v) = Known(v)
  BY LastIndexOfLog DEF TypeInv, Known
<1>2. \A v \in Server : getLastLogIndex(v)' = Known(v)'
  BY LastIndexOfNumbered DEF TypeInv, TypeOK, LogTypeOK, LogContiguous, Known, getLastLogIndex
<1>3. \A v \in Server \ {s} : Known(v)' = Known(v)
  BY DEF Known
<1>4. \A v \in Server :
        /\ Known(v) \in Nat /\ m_commitIndex[v] \in Nat /\ m_lastApplied[v] \in Nat
        /\ m_lastSnapshotIncludeIndex[v] \in Nat
  <2>1. \A v \in Server : Known(v) \in Nat
    BY LastIndexOfLog DEF TypeInv, Known
  <2>2. QED
    BY <2>1 DEF TypeInv, TypeOK, LogTypeOK, ApplyTypeOK
<1>5. IndexOrder'
  BY <1>1, <1>2, <1>3 DEF IndexOrder
<1>6. Advance
  BY <1>1, <1>2, <1>3, <1>4 DEF Advance
<1>7. QED
  BY <1>5, <1>6

\* Steps that leave log, commit and applied index alone.
LEMMA IndexesKept ==
    ASSUME TypeInv, TypeInv', IndexOrder, UNCHANGED <<logVars, applyVars>>
    PROVE  IndexOrder' /\ Advance
<1>1. \A v \in Server : getLastLogIndex(v)' = getLastLogIndex(v) /\ getLastLogIndex(v) \in Nat
  BY LastIndexOfLog DEF TypeInv, getLastLogIndex, logVars
<1>2. \A v \in Server :
        /\ m_commitIndex[v] \in Nat /\ m_lastApplied[v] \in Nat
        /\ m_lastSnapshotIncludeIndex[v] \in Nat
  BY DEF TypeInv, TypeOK, LogTypeOK, ApplyTypeOK
<1>3. QED
  BY <1>1, <1>2 DEF IndexOrder, Advance, logVars, applyVars

\* Start adds one entry.
LEMMA StartIndexes ==
    ASSUME TypeInv, TypeInv', IndexOrder, NEW s \in Server, NEW c \in Command, Start(s, c)
    PROVE  IndexOrder' /\ Advance
<1> DEFINE e == [logterm |-> m_currentTerm[s], logindex |-> getLastLogIndex(s) + 1, command |-> c]
<1>1. /\ m_logs' = [m_logs EXCEPT ![s] = Append(@, e)]
      /\ UNCHANGED <<m_lastSnapshotIncludeIndex, m_commitIndex, m_lastApplied>>
  BY DEF Start, applyVars
<1>2. /\ m_logs \in [Server -> Seq(Entry)] /\ m_logs[s] \in Seq(Entry)
      /\ m_lastSnapshotIncludeIndex[s] \in Nat
      /\ m_commitIndex[s] \in Nat /\ m_lastApplied[s] \in Nat
  BY DEF TypeInv, TypeOK, LogTypeOK, ApplyTypeOK
<1>3. getLastLogIndex(s) = Known(s)
  BY LastIndexOfLog DEF TypeInv, Known
<1>4. e \in Entry
  BY LastIndexOfLog DEF TypeInv, TypeOK, NodeTypeOK, Entry
<1> HIDE DEF e
<1>5. m_logs'[s] = Append(m_logs[s], e)
  BY <1>1, <1>2
<1>6. Known(s)' = Known(s) + 1 /\ Known(s) \in Nat
  <2>1. Len(m_logs'[s]) = Len(m_logs[s]) + 1 /\ Len(m_logs[s]) \in Nat
    BY <1>2, <1>4, <1>5
  <2>2. m_lastSnapshotIncludeIndex'[s] = m_lastSnapshotIncludeIndex[s]
    BY <1>1
  <2>3. m_lastSnapshotIncludeIndex[s] \in Nat
    BY <1>2
  <2>4. QED
    BY <2>1, <2>2, <2>3 DEF Known
<1>7. QED
  BY <1>1, <1>2, <1>3, <1>6, OneServerMoves DEF IndexOrder

\* AppendEntries1 never shortens the log and commits nothing beyond its end.
LEMMA AppendIndexes ==
    ASSUME TypeInv, TypeInv', IndexOrder, NEW s \in Server, AppendEntries1(s)
    PROVE  IndexOrder' /\ Advance
<1>1. PICK m \in appendReq : UNCHANGED <<m_logs, m_commitIndex>> \/ AcceptAppend(s, m)
  BY DEF AppendEntries1, RejectStaleAppend, RejectGap, FailInMatchLog, RejectMismatch
<1>2. UNCHANGED <<m_lastSnapshotIncludeIndex, m_lastSnapshotIncludeTerm, m_lastApplied>>
  BY DEF AppendEntries1
<1>3. CASE UNCHANGED <<m_logs, m_commitIndex>>
  BY <1>2, <1>3, IndexesKept DEF logVars, applyVars
<1>4. CASE AcceptAppend(s, m) /\ ~UNCHANGED <<m_logs, m_commitIndex>>
  <2> DEFINE log == Merged(s, m)
             last == LastIndexOf(log, m_lastSnapshotIncludeIndex[s])
             commit == IF m.leadercommit > m_commitIndex[s]
                       THEN MinOf(m.leadercommit, last) ELSE m_commitIndex[s]
  <2>1. /\ m_logs' = [m_logs EXCEPT ![s] = log]
        /\ m_commitIndex' = [m_commitIndex EXCEPT ![s] = commit]
        /\ MatchLogDefined(s, m.prevlogindex)
        /\ last >= commit
    BY <1>4 DEF AcceptAppend
  <2>2. /\ m_logs \in [Server -> Seq(Entry)] /\ m_commitIndex \in [Server -> Nat]
        /\ m_logs[s] \in Seq(Entry) /\ m_lastSnapshotIncludeIndex[s] \in Nat
        /\ m_commitIndex[s] \in Nat /\ m_lastApplied[s] \in Nat /\ m.leadercommit \in Nat
    BY DEF TypeInv, TypeOK, LogTypeOK, ApplyTypeOK, AppendTypeOK, AppendArgs
  <2>3. /\ log \in Seq(Entry) /\ Len(log) >= Len(m_logs[s])
        /\ last = m_lastSnapshotIncludeIndex[s] + Len(log)
    BY <2>1, <2>2, MergedLog, LastIndexOfNumbered
  <2>4. getLastLogIndex(s) = Known(s)
    BY LastIndexOfLog DEF TypeInv, Known
  <2> HIDE DEF log, last
  <2>5. Known(s)' = last /\ last >= Known(s) /\ last \in Nat
    BY <1>2, <2>1, <2>2, <2>3 DEF Known
  <2>6. commit >= m_commitIndex[s] /\ commit \in Nat
    <3>1. m_commitIndex[s] <= Known(s) /\ Known(s) \in Int
      BY <2>2, <2>4 DEF IndexOrder, Known
    <3>2. last >= m_commitIndex[s]
      BY <2>2, <2>5, <3>1
    <3>3. QED
      BY <2>2, <2>5, <3>2 DEF MinOf
  <2> HIDE DEF commit
  <2>7. m_commitIndex'[s] = commit
    BY <2>1, <2>2
  <2>8. \A v \in Server \ {s} : m_logs'[v] = m_logs[v] /\ m_commitIndex'[v] = m_commitIndex[v]
    BY <2>1, <2>2
  <2>9. m_lastSnapshotIncludeIndex[s] <= m_lastApplied[s] /\ m_lastApplied[s] <= m_commitIndex[s]
    BY DEF IndexOrder
  <2>10. QED
    BY <1>2, <2>1, <2>2, <2>5, <2>6, <2>7, <2>8, <2>9, OneServerMoves
<1>5. QED
  BY <1>1, <1>3, <1>4

\* A leader commits nothing beyond its log: the assertion of sendAppendEntries.
LEMMA CountAppendIndexes ==
    ASSUME TypeInv, TypeInv', IndexOrder, NEW s \in Server, sendAppendEntries(s)
    PROVE  IndexOrder' /\ Advance
<1>1. UNCHANGED <<logVars, m_lastApplied>>
  BY DEF sendAppendEntries
<1>2. PICK r \in appendRep : UNCHANGED m_commitIndex \/ (r.args.caller = s /\ CountAppend(s, r))
  BY DEF sendAppendEntries
<1>3. CASE UNCHANGED m_commitIndex
  BY <1>1, <1>3, IndexesKept DEF applyVars
<1>4. CASE CountAppend(s, r) /\ ~UNCHANGED m_commitIndex
  <2> DEFINE counted == appendNums[s][r.args.round] \cup {r.args.callee}
             reached == Cardinality(counted) >= Majority
             commit == IF reached THEN CommitAfter(s, r.args) ELSE m_commitIndex[s]
  <2>1. /\ m_commitIndex' = [m_commitIndex EXCEPT ![s] = commit]
        /\ reached => commit <= getLastLogIndex(s)
    BY <1>4 DEF CountAppend
  <2>2. /\ m_commitIndex \in [Server -> Nat] /\ m_commitIndex[s] \in Nat
        /\ m_lastApplied[s] \in Nat /\ m_lastSnapshotIncludeIndex[s] \in Nat
        /\ m_logs[s] \in Seq(Entry)
        /\ r.args.prevlogindex \in Nat /\ r.args.entries \in Seq(Entry)
    BY DEF TypeInv, TypeOK, LogTypeOK, ApplyTypeOK, AppendTypeOK, AppendReply, AppendArgs
  <2>3. getLastLogIndex(s) = Known(s) /\ Known(s)' = Known(s) /\ Known(s) \in Nat
    BY <1>1, LastIndexOfLog DEF TypeInv, Known, logVars
  <2>4. commit >= m_commitIndex[s] /\ commit \in Nat
    BY <2>2 DEF CommitAfter, MaxOf
  <2>5. /\ m_lastSnapshotIncludeIndex[s] <= m_lastApplied[s]
        /\ m_lastApplied[s] <= m_commitIndex[s] /\ m_commitIndex[s] <= Known(s)
    BY <2>3 DEF IndexOrder
  <2>6. commit <= Known(s)
    BY <2>1, <2>3, <2>5
  <2> HIDE DEF commit
  <2>7. m_commitIndex'[s] = commit /\ \A v \in Server \ {s} : m_commitIndex'[v] = m_commitIndex[v]
    BY <2>1, <2>2
  <2>8. QED
    BY <1>1, <2>2, <2>3, <2>4, <2>5, <2>6, <2>7, OneServerMoves DEF logVars
<1>5. QED
  BY <1>2, <1>3, <1>4

\* A log cut for a snapshot: the three other indexes are moved up to it if need be.
LEMMA CutIndexes ==
    ASSUME TypeInv, TypeInv', IndexOrder, NEW s \in Server, NEW index \in Nat, NEW term,
           NEW rest \in Seq(Entry), CutLog(s, index, term, rest),
           index >= m_lastSnapshotIncludeIndex[s],
           Len(rest) = IF getLastLogIndex(s) > index THEN getLastLogIndex(s) - index ELSE 0
    PROVE  IndexOrder' /\ Advance
<1>1. /\ m_logs \in [Server -> Seq(Entry)] /\ m_commitIndex \in [Server -> Nat]
      /\ m_lastApplied \in [Server -> Nat] /\ m_lastSnapshotIncludeIndex \in [Server -> Nat]
  BY DEF TypeInv, TypeOK, LogTypeOK, ApplyTypeOK
<1>2. getLastLogIndex(s) = Known(s) /\ Known(s) \in Nat
  BY LastIndexOfLog DEF TypeInv, Known
<1>3. /\ m_logs'[s] = rest /\ m_lastSnapshotIncludeIndex'[s] = index
      /\ m_commitIndex'[s] = MaxOf(m_commitIndex[s], index)
      /\ m_lastApplied'[s] = MaxOf(m_lastApplied[s], index)
      /\ \A v \in Server \ {s} :
            /\ m_logs'[v] = m_logs[v] /\ m_commitIndex'[v] = m_commitIndex[v]
            /\ m_lastApplied'[v] = m_lastApplied[v]
            /\ m_lastSnapshotIncludeIndex'[v] = m_lastSnapshotIncludeIndex[v]
  BY <1>1 DEF CutLog, CommitAfterCut, AppliedAfterCut
<1>4. Known(s)' = index + Len(rest)
  BY <1>3 DEF Known
<1>5. /\ m_lastSnapshotIncludeIndex[s] <= m_lastApplied[s]
      /\ m_lastApplied[s] <= m_commitIndex[s] /\ m_commitIndex[s] <= Known(s)
      /\ m_commitIndex[s] \in Nat /\ m_lastApplied[s] \in Nat
      /\ m_lastSnapshotIncludeIndex[s] \in Nat
  BY <1>1, <1>2 DEF IndexOrder
<1>6. /\ Known(s)' >= Known(s) /\ Known(s)' >= index /\ Known(s)' \in Nat
  BY <1>2, <1>4
<1>7. /\ m_commitIndex'[s] >= m_commitIndex[s] /\ m_lastApplied'[s] >= m_lastApplied[s]
      /\ m_lastSnapshotIncludeIndex'[s] <= m_lastApplied'[s]
      /\ m_lastApplied'[s] <= m_commitIndex'[s] /\ m_commitIndex'[s] <= Known(s)'
  BY <1>2, <1>3, <1>5, <1>6 DEF MaxOf
<1>8. QED
  BY <1>3, <1>6, <1>7, OneServerMoves

\* A snapshot of the key-value server.
LEMMA SnapshotIndexes ==
    ASSUME TypeInv, TypeInv', IndexOrder, NEW s \in Server,
           NEW index \in 1..MaxSnapshotIndex, Snapshot(s, index)
    PROVE  IndexOrder' /\ Advance
<1>1. CASE UNCHANGED <<logVars, applyVars>>
  BY <1>1, IndexesKept
<1>2. CASE ~UNCHANGED <<logVars, applyVars>>
  <2>1. /\ InLog(s, index)
        /\ CutLog(s, index, EntryAt(s, index).logterm, EntriesAfter(s, index))
    BY <1>2 DEF Snapshot
  <2>2. index \in Nat /\ m_lastSnapshotIncludeIndex[s] \in Nat /\ getLastLogIndex(s) \in Nat
    BY BoundsAssumption, LastIndexOfLog DEF TypeInv, TypeOK, LogTypeOK
  <2>3. MatchLogDefined(s, index) /\ index >= m_lastSnapshotIncludeIndex[s]
    BY <2>1, <2>2 DEF InLog, MatchLogDefined
  <2>4. /\ EntriesAfter(s, index) \in Seq(Entry)
        /\ Len(EntriesAfter(s, index)) = getLastLogIndex(s) - index
    BY <2>2, <2>3, EntriesAfterIndex DEF TypeInv
  <2>5. Len(EntriesAfter(s, index)) =
          IF getLastLogIndex(s) > index THEN getLastLogIndex(s) - index ELSE 0
    BY <2>2, <2>3, <2>4 DEF MatchLogDefined
  <2>6. QED
    BY <2>1, <2>2, <2>3, <2>4, <2>5, CutIndexes
<1>3. QED
  BY <1>1, <1>2

\* A leader's snapshot, which may lie beyond the end of the log.
LEMMA InstallIndexes ==
    ASSUME TypeInv, TypeInv', IndexOrder, NEW s \in Server, InstallSnapshot(s)
    PROVE  IndexOrder' /\ Advance
<1>1. PICK m \in snapReq : UNCHANGED <<logVars, applyVars>> \/ TakeSnapshot(s, m)
  BY DEF InstallSnapshot, IgnoreSnapshot
<1>2. CASE UNCHANGED <<logVars, applyVars>>
  BY <1>2, IndexesKept
<1>3. CASE TakeSnapshot(s, m)
  <2> DEFINE index == m.lastsnapshotincludeindex
             rest == IF getLastLogIndex(s) > index THEN EntriesAfter(s, index) ELSE <<>>
  <2>1. /\ CutLog(s, index, m.lastsnapshotincludeterm, rest)
        /\ index > m_lastSnapshotIncludeIndex[s]
    BY <1>3 DEF TakeSnapshot
  <2>2. index \in Nat /\ m_lastSnapshotIncludeIndex[s] \in Nat /\ getLastLogIndex(s) \in Nat
    BY LastIndexOfLog DEF TypeInv, TypeOK, LogTypeOK, SnapTypeOK, SnapArgs
  <2>3. index >= m_lastSnapshotIncludeIndex[s]
    BY <2>1, <2>2
  <2>4. /\ rest \in Seq(Entry)
        /\ Len(rest) = IF getLastLogIndex(s) > index THEN getLastLogIndex(s) - index ELSE 0
    <3>1. CASE getLastLogIndex(s) > index
      <4>1. MatchLogDefined(s, index)
        BY <2>2, <2>3, <3>1 DEF MatchLogDefined
      <4>2. QED
        BY <2>2, <3>1, <4>1, EntriesAfterIndex DEF TypeInv
    <3>2. CASE ~(getLastLogIndex(s) > index)
      BY <3>2
    <3>3. QED
      BY <3>1, <3>2
  <2> HIDE DEF index, rest
  <2>5. QED
    BY <2>1, <2>2, <2>3, <2>4, CutIndexes
<1>4. QED
  BY <1>1, <1>2, <1>3

\* Applying takes the applied index up to the committed one.
LEMMA ApplierIndexes ==
    ASSUME TypeInv, TypeInv', IndexOrder, NEW s \in Server, applierTicker(s)
    PROVE  IndexOrder' /\ Advance
<1>1. UNCHANGED <<logVars, m_commitIndex>>
  BY DEF applierTicker
<1>2. CASE UNCHANGED m_lastApplied
  BY <1>1, <1>2, IndexesKept DEF applyVars
<1>3. CASE ~UNCHANGED m_lastApplied
  <2>1. m_lastApplied' = [m_lastApplied EXCEPT ![s] = m_commitIndex[s]]
    BY <1>3 DEF applierTicker, getApplyLogs
  <2>2. /\ m_lastApplied \in [Server -> Nat] /\ m_commitIndex[s] \in Nat
        /\ m_lastSnapshotIncludeIndex[s] \in Nat
    BY DEF TypeInv, TypeOK, ApplyTypeOK, LogTypeOK
  <2>3. getLastLogIndex(s) = Known(s) /\ Known(s)' = Known(s) /\ Known(s) \in Nat
    BY <1>1, LastIndexOfLog DEF TypeInv, Known, logVars
  <2>4. /\ m_lastSnapshotIncludeIndex[s] <= m_lastApplied[s]
        /\ m_lastApplied[s] <= m_commitIndex[s] /\ m_commitIndex[s] <= Known(s)
    BY <2>3 DEF IndexOrder
  <2>5. /\ m_lastApplied'[s] = m_commitIndex[s]
        /\ \A v \in Server \ {s} : m_lastApplied'[v] = m_lastApplied[v]
    BY <2>1, <2>2
  <2>6. m_lastApplied[s] \in Nat
    BY <2>2
  <2>7. QED
    BY <1>1, <2>2, <2>3, <2>4, <2>5, <2>6, OneServerMoves DEF logVars
<1>4. QED
  BY <1>2, <1>3

\* Every step keeps the order and takes no index back.
LEMMA NextIndexes ==
    ASSUME TypeInv, TypeInv', IndexOrder, [Next]_vars
    PROVE  IndexOrder' /\ Advance
<1>1. CASE UNCHANGED vars
  BY <1>1, IndexesKept DEF vars
<1>2. ASSUME NEW s \in Server, ElectionStep(s) PROVE UNCHANGED <<logVars, applyVars>>
  BY <1>2 DEF ElectionStep, electionTimeOutTicker, doElection, RequestVote, sendRequestVote
<1>3. ASSUME NEW s \in Server, ReplicationStep(s) PROVE IndexOrder' /\ Advance
  <2>1. leaderHearBeatTicker(s) => UNCHANGED <<logVars, applyVars>>
    BY DEF leaderHearBeatTicker, doHeartBeat
  <2>2. QED
    BY <1>3, <2>1, IndexesKept, StartIndexes, AppendIndexes, CountAppendIndexes, ApplierIndexes
      DEF ReplicationStep
<1>4. ASSUME NEW s \in Server, SnapshotStep(s) PROVE IndexOrder' /\ Advance
  <2>1. SendSnapShot(s) \/ leaderSendSnapShot(s) \/ ConnectionClosed(s)
          => UNCHANGED <<logVars, applyVars>>
    BY DEF SendSnapShot, leaderSendSnapShot, ConnectionClosed
  <2>2. QED
    BY <1>4, <2>1, IndexesKept, SnapshotIndexes, InstallIndexes DEF SnapshotStep
<1>5. ASSUME NEW s \in Server, CallFails(s) PROVE UNCHANGED <<logVars, applyVars>>
  BY <1>5 DEF CallFails
<1>6. QED
  BY <1>1, <1>2, <1>3, <1>4, <1>5, IndexesKept DEF Next

\* Snapshot <= applied <= committed <= last on every server, always.
THEOREM IndexesOrdered == Spec => []IndexOrder
<1>1. Init => IndexOrder
  BY DEF Init, IndexOrder, getLastLogIndex, LastIndexOf
<1>2. IndexOrder /\ TypeInv /\ TypeInv' /\ [Next]_vars => IndexOrder'
  BY NextIndexes
<1>3. QED
  BY <1>1, <1>2, TypeInvariant, PTL DEF Spec

\* No step of a running cluster takes an index of a server back.
THEOREM IndexesAdvance == Spec => IndexesNeverGoBack
<1>1. IndexOrder /\ TypeInv /\ TypeInv' /\ [Next]_vars =>
        [\A s \in Server :
            /\ getLastLogIndex(s)' >= getLastLogIndex(s)
            /\ m_commitIndex'[s] >= m_commitIndex[s]
            /\ m_lastApplied'[s] >= m_lastApplied[s]
            /\ m_lastSnapshotIncludeIndex'[s] >= m_lastSnapshotIncludeIndex[s]]_vars
  BY NextIndexes DEF Advance
<1>2. QED
  BY <1>1, TypeInvariant, IndexesOrdered, PTL DEF Spec, IndexesNeverGoBack
=============================================================================
