-------------------------- MODULE RaftCommitProofs --------------------------
(***************************************************************************)
(* Without snapshots, what a leader commits in its own term is on a        *)
(* majority, for any number of servers and any other bounds.               *)
(***************************************************************************)
EXTENDS RaftSafetyProofs

\* Slot k of server v's log is of term t.
HasAt(v, k, t) == k \in 1..Len(m_logs[v]) /\ m_logs[v][k].logterm = t

\* Server v has entry (k, t), or can no longer be asked for it by a leader of term t.
Keeps(v, k, t) == m_currentTerm[v] > t \/ HasAt(v, k, t)

\* Nobody has an entry of a term it has not reached.
TermsReached ==
    /\ \A s \in Server : \A k \in 1..Len(m_logs[s]) : m_logs[s][k].logterm <= m_currentTerm[s]
    /\ \A m \in appendReq : \A k \in 1..Len(m.entries) : m.entries[k].logterm <= m.term

\* A leader has all entries of its term, and nothing else behind the first of them.
LeaderHasOwn ==
    \A s \in Server : m_status[s] = "Leader" =>
        /\ \A e \in Written : e.logterm = m_currentTerm[s] => HasAt(s, e.logindex, e.logterm)
        /\ \A k, p \in 1..Len(m_logs[s]) :
              k <= p /\ m_logs[s][k].logterm = m_currentTerm[s] => m_logs[s][p].logterm = m_currentTerm[s]

\* A call has the entries of its own term wherever its range meets them, and
\* what comes before it is of its term if there is one of that term before it.
CallsHaveOwn ==
    \A m \in appendReq : \A e \in Written : e.logterm = m.term =>
        /\ e.logindex - m.prevlogindex \in 1..Len(m.entries) =>
              m.entries[e.logindex - m.prevlogindex].logterm = m.term
        /\ e.logindex <= m.prevlogindex => m.prevlogterm = m.term

\* Who has an entry of its current term has the ones of that term before it.
NoGapInTerm ==
    \A v \in Server : \A p \in 1..Len(m_logs[v]) :
        m_logs[v][p].logterm = m_currentTerm[v] =>
            \A e \in Written : e.logterm = m_currentTerm[v] /\ e.logindex <= p =>
                HasAt(v, e.logindex, e.logterm)

\* The index of the last entry of call a.
EndOf(a) == a.prevlogindex + Len(a.entries)

\* Server v keeps the entries of call a's term up to the end of the call.
HoldsUpTo(v, a) ==
    \A e \in Written : e.logterm = a.term /\ e.logindex <= EndOf(a) => Keeps(v, e.logindex, e.logterm)

\* The calls of a round end at the same index and are of the same term.
RoundsAgree ==
    /\ \A a \in AppendCalls : a.round <= round[a.caller]
    /\ \A a, b \in AppendCalls :
          a.caller = b.caller /\ a.round = b.round => EndOf(a) = EndOf(b) /\ a.term = b.term

\* Who is counted in a round, or has answered positively, has the entries of the
\* round's term up to its end.
CountedHold ==
    /\ \A a \in AppendCalls : \A v \in appendNums[a.caller][a.round] : HoldsUpTo(v, a)
    /\ \A r \in appendRep : r.success => HoldsUpTo(r.args.callee, r.args) /\ r.term = r.args.term

\* A majority keeps entry (k, t).
Backed(k, t) ==
    \E Q \in SUBSET Server :
        2 * Cardinality(Q) > Cardinality(Server) /\ \A v \in Q : Keeps(v, k, t)

\* A majority keeps what a leader has committed of its own term.
CommitsBacked ==
    \A s \in Server : m_status[s] = "Leader" =>
        \A k \in 1..m_commitIndex[s] : HasAt(s, k, m_currentTerm[s]) => Backed(k, m_currentTerm[s])

CommitInv ==
    /\ TermsReached /\ LeaderHasOwn /\ CallsHaveOwn /\ NoGapInTerm
    /\ RoundsAgree /\ CountedHold /\ CommitsBacked

\* Nobody loses an entry of a term it has not left.
KeepsStay == \A v \in Server, k, t \in Nat : Keeps(v, k, t) => Keeps(v, k, t)'

\* What the other modules prove.
Ground == TypeInv /\ ElectionSafety /\ IndexOrder /\ LogInv /\ CountInv /\ SafeInv

-----------------------------------------------------------------------------
\* Entries are numbered from 1, and without snapshots a slot's number is its index.
LEMMA SlotIsIndex ==
    ASSUME Ground
    PROVE  /\ \A s \in Server : /\ m_logs[s] \in Seq(Entry) /\ Len(m_logs[s]) \in Nat
                                /\ Known(s) = Len(m_logs[s]) /\ getLastLogIndex(s) = Len(m_logs[s])
                                /\ m_lastSnapshotIncludeIndex[s] = 0
           /\ \A s \in Server : \A k \in 1..Len(m_logs[s]) :
                 /\ m_logs[s][k].logindex = k /\ m_logs[s][k] \in Written
                 /\ m_logs[s][k].logterm \in Nat
           /\ \A e \in Written : e.logindex \in Nat /\ e.logindex >= 1 /\ e.logterm \in Nat
<1>1. \A s \in Server : m_lastSnapshotIncludeIndex[s] = 0 /\ m_logs[s] \in Seq(Entry)
  BY DEF Ground, SafeInv, NoSnapshots, TypeInv, TypeOK, LogTypeOK
<1>2. \A s \in Server : Len(m_logs[s]) \in Nat
  BY <1>1
<1>3. \A s \in Server : Known(s) = Len(m_logs[s]) /\ getLastLogIndex(s) = Len(m_logs[s])
  BY <1>1, <1>2, LastIndexOfLog DEF Ground, TypeInv, Known
<1>4. ASSUME NEW s \in Server, NEW k \in 1..Len(m_logs[s])
      PROVE  m_logs[s][k].logindex = k /\ m_logs[s][k] \in Written
  <2>1. m_logs[s][k].logindex = m_lastSnapshotIncludeIndex[s] + k
    BY DEF Ground, TypeInv, LogContiguous
  <2>2. QED
    BY <1>1, <2>1, WrittenMember
<1>5. \A e \in Written : e.logindex \in Nat /\ e.logterm \in Nat
  BY WrittenTyped DEF Ground
<1>6. ASSUME NEW e \in Written PROVE e.logindex >= 1
  <2>1. CASE \E s \in Server : \E k \in 1..Len(m_logs[s]) : e = m_logs[s][k]
    BY <1>2, <1>4, <2>1
  <2>2. CASE \E m \in appendReq : \E k \in 1..Len(m.entries) : e = m.entries[k]
    <3>0. PICK m \in appendReq : \E k \in 1..Len(m.entries) : e = m.entries[k]
      BY <2>2
    <3>1. PICK k \in 1..Len(m.entries) : e = m.entries[k]
      BY <3>0
    <3>2. e.logindex = m.prevlogindex + k /\ m.prevlogindex \in Nat
      BY <3>1 DEF Ground, TypeInv, CallsContiguous, TypeOK, AppendTypeOK, AppendArgs
    <3>3. QED
      BY <3>2
  <2>3. QED
    BY <2>1, <2>2, WrittenMember
<1>7. QED
  BY <1>1, <1>2, <1>3, <1>4, <1>5, <1>6

\* The calls in flight have the types of their fields.
LEMMA CallsTyped ==
    ASSUME TypeInv
    PROVE  \A a \in AppendCalls :
              /\ a.caller \in Server /\ a.callee \in Server /\ a.round \in 1..MaxRound
              /\ a.prevlogindex \in Nat /\ Len(a.entries) \in Nat /\ EndOf(a) \in Nat
              /\ appendNums[a.caller][a.round] \subseteq Server
<1>1. \A a \in AppendCalls : a \in AppendArgs /\ a.round \in 1..MaxRound
  BY DEF TypeInv, TypeOK, AppendTypeOK, AppendCalls, AppendReply
<1>2. \A a \in AppendCalls : /\ a.caller \in Server /\ a.callee \in Server
                             /\ a.prevlogindex \in Nat /\ a.entries \in Seq(Entry)
  BY <1>1 DEF AppendArgs
<1>3. \A a \in AppendCalls : Len(a.entries) \in Nat
  BY <1>2
<1>4. appendNums \in [Server -> [1..MaxRound -> SUBSET Server]]
  BY DEF TypeInv, TypeOK, RoundTypeOK
<1>5. \A a \in AppendCalls : appendNums[a.caller][a.round] \subseteq Server
  BY <1>1, <1>2, <1>4
<1>6. \A a \in AppendCalls : EndOf(a) \in Nat
  BY <1>2, <1>3 DEF EndOf
<1>7. QED
  BY <1>1, <1>2, <1>3, <1>5, <1>6

\* A leader of the next state is one already, in the same term, or nothing of its
\* term has been written.
LEMMA LeaderOrFresh ==
    ASSUME Ground, Ground', [Next]_vars, NEW s \in Server, m_status'[s] = "Leader"
    PROVE  \/ m_status[s] = "Leader" /\ m_currentTerm'[s] = m_currentTerm[s]
           \/ \A e \in Written : e.logterm # m_currentTerm'[s]
<1> SUFFICES ASSUME NEW e \in Written, e.logterm = m_currentTerm'[s]
             PROVE  m_status[s] = "Leader" /\ m_currentTerm'[s] = m_currentTerm[s]
  OBVIOUS
<1>1. PICK x \in elected' : x.term = m_currentTerm'[s] /\ x.leader = s
  BY DEF Ground, LogInv, LeadersElected
<1>2. PICK y \in elected : y.term = e.logterm
  BY DEF Ground, LogInv, WrittenByWinner
<1>3. y \in elected'
  BY LeadersStayElected DEF Ground, TypeInv, LogInv
<1>4. y.leader = s
  BY <1>1, <1>2, <1>3 DEF Ground, ElectionSafety
<1>5. m_currentTerm[s] \in Nat /\ m_currentTerm'[s] \in Nat
  BY DEF Ground, TypeInv, TypeOK, NodeTypeOK
<1>6. m_currentTerm'[s] >= m_currentTerm[s]
  BY TermsGrow DEF Ground, TypeInv
<1>7. y.term <= m_currentTerm[s]
  BY <1>4 DEF Ground, CountInv, WinnersInTerm
<1>8. m_currentTerm'[s] = m_currentTerm[s]
  BY <1>2, <1>5, <1>6, <1>7
<1>9. QED
  BY <1>2, <1>4, <1>8 DEF Ground, SafeInv, WinnersLead

\* The winner of a term is its only leader and its only caller.
LEMMA OneWriter ==
    ASSUME Ground, NEW s \in Server, m_status[s] = "Leader"
    PROVE  /\ \A v \in Server : m_status[v] = "Leader" /\ m_currentTerm[v] = m_currentTerm[s] => v = s
           /\ \A a \in AppendCalls : a.term = m_currentTerm[s] => a.caller = s /\ EndOf(a) <= Known(s)
           /\ \A e \in Written : e.logterm = m_currentTerm[s] => e.logindex <= Known(s)
<1>1. PICK x \in elected : x.term = m_currentTerm[s] /\ x.leader = s
  BY DEF Ground, LogInv, LeadersElected
<1>2. \A y \in elected : y.term = m_currentTerm[s] => y.leader = s
  BY <1>1 DEF Ground, ElectionSafety
<1>3. \A v \in Server : m_status[v] = "Leader" /\ m_currentTerm[v] = m_currentTerm[s] => v = s
  BY <1>2 DEF Ground, LogInv, LeadersElected
<1>4. \A a \in AppendCalls : a.term = m_currentTerm[s] => a.caller = s /\ EndOf(a) <= Known(s)
  BY <1>2 DEF Ground, SafeInv, CallWithin, EndOf
<1>5. \A e \in Written : e.logterm = m_currentTerm[s] => e.logindex <= Known(s)
  BY <1>2 DEF Ground, LogInv, WrittenByWinner
<1>6. QED
  BY <1>3, <1>4, <1>5

-----------------------------------------------------------------------------
\* A step that leaves logs, rounds and commits alone, loses calls or refuses them.
Quiet ==
    /\ UNCHANGED <<m_logs, round, appendNums, m_commitIndex>>
    /\ appendReq' \subseteq appendReq
    /\ AppendCalls' \subseteq AppendCalls
    /\ \A r \in appendRep' : r \in appendRep \/ ~r.success

\* Server s puts the entries of call m into its log.
Accepts(s, m) ==
    /\ m.callee = s
    /\ m.term >= m_currentTerm[s]
    /\ MatchLogDefined(s, m.prevlogindex)
    /\ matchLog(s, m.prevlogindex, m.prevlogterm)
    /\ appendReq' = appendReq \ {m}
    /\ FollowCaller(s, m.term)
    /\ m_logs' = [m_logs EXCEPT ![s] = Merged(s, m)]
    /\ \A v \in Server \ {s} : m_commitIndex'[v] = m_commitIndex[v]
    /\ AnswerAppend(m, m.term, TRUE, 0)
    /\ UNCHANGED <<round, appendNums>>

\* Leader s counts the positive answer r.
Counts(s, r) ==
    LET counted == appendNums[s][r.args.round] \cup {r.args.callee} IN
    /\ r.args.caller = s /\ r.term = m_currentTerm[s] /\ m_status[s] = "Leader" /\ r.success
    /\ appendRep' = appendRep \ {r}
    /\ appendNums' = [appendNums EXCEPT ![s][r.args.round] = Tally(counted)]
    /\ m_commitIndex' = [m_commitIndex EXCEPT ![s] =
           IF Cardinality(counted) >= Majority THEN CommitAfter(s, r.args) ELSE @]
    /\ UNCHANGED <<nodeVars, m_logs, round, appendReq>>

\* Leader s begins a round.
Begins(s) ==
    /\ m_status[s] = "Leader"
    /\ \A i \in Server \ {s} : NextIndexUsable(s, i)
    /\ round' = [round EXCEPT ![s] = @ + 1]
    /\ appendNums' = [appendNums EXCEPT ![s][round[s] + 1] = {s}]
    /\ \A m \in appendReq' : m \in appendReq \/ \E i \in Server \ {s} : m = AppendEntriesArgs(s, i)
    /\ UNCHANGED <<nodeVars, m_logs, m_commitIndex, appendRep>>

\* The five kinds of steps.
LEMMA KindsOfSteps ==
    ASSUME MaxSnapshotIndex = 0, TypeOK, NoSnapshots, [Next]_vars
    PROVE  \/ Quiet
           \/ \E s \in Server, c \in Command : Start(s, c)
           \/ \E s \in Server : Begins(s)
           \/ \E s \in Server, m \in appendReq : Accepts(s, m)
           \/ \E s \in Server, r \in appendRep : Counts(s, r)
<1>1. ASSUME UNCHANGED <<m_logs, round, appendNums, m_commitIndex>>,
             appendReq' \subseteq appendReq, appendRep' \subseteq appendRep
      PROVE  Quiet
  BY <1>1 DEF Quiet, AppendCalls
<1>2. UNCHANGED vars => Quiet
  BY <1>1 DEF vars, logVars, roundVars, applyVars, appendVars
<1>3. ASSUME NEW s \in Server, ElectionStep(s) PROVE Quiet
  BY <1>1, <1>3 DEF ElectionStep, electionTimeOutTicker, doElection, RequestVote,
    sendRequestVote, logVars, roundVars, applyVars, appendVars
<1>4. ASSUME NEW s \in Server, leaderHearBeatTicker(s) PROVE Quiet \/ Begins(s)
  <2>1. CASE \A i \in Server \ {s} : NextIndexUsable(s, i)
    BY <1>4, <2>1 DEF leaderHearBeatTicker, doHeartBeat, Begins, logVars, applyVars
  <2>2. CASE ~\A i \in Server \ {s} : NextIndexUsable(s, i)
    BY <1>1, <1>4, <2>2 DEF leaderHearBeatTicker, doHeartBeat, logVars, roundVars, applyVars
  <2>3. QED
    BY <2>1, <2>2
<1>5. ASSUME NEW s \in Server, AppendEntries1(s) PROVE Quiet \/ \E m \in appendReq : Accepts(s, m)
  <2>1. UNCHANGED <<round, appendNums>>
    BY <1>5 DEF AppendEntries1, roundVars
  <2>2. PICK m \in appendReq :
          /\ m.callee = s
          /\ appendReq' = appendReq \ {m}
          /\ \/ RejectStaleAppend(s, m) \/ RejectGap(s, m) \/ FailInMatchLog(s, m)
             \/ AcceptAppend(s, m) \/ RejectMismatch(s, m)
    BY <1>5 DEF AppendEntries1
  <2>3. ASSUME NEW t, NEW next, AnswerAppend(m, t, FALSE, next), UNCHANGED <<m_logs, m_commitIndex>>
        PROVE  Quiet
    BY <2>1, <2>2, <2>3 DEF Quiet, AppendCalls, AnswerAppend
  <2>4. CASE RejectStaleAppend(s, m) \/ RejectGap(s, m) \/ RejectMismatch(s, m)
    BY <2>3, <2>4 DEF RejectStaleAppend, RejectGap, RejectMismatch
  <2>5. CASE FailInMatchLog(s, m)
    BY <1>1, <2>1, <2>2, <2>5 DEF FailInMatchLog
  <2>6. CASE AcceptAppend(s, m)
    <3>1. \/ UNCHANGED <<m_logs, m_commitIndex, appendRep>>
          \/ /\ m.term >= m_currentTerm[s]
             /\ MatchLogDefined(s, m.prevlogindex)
             /\ matchLog(s, m.prevlogindex, m.prevlogterm)
             /\ FollowCaller(s, m.term)
             /\ m_logs' = [m_logs EXCEPT ![s] = Merged(s, m)]
             /\ \E commit : m_commitIndex' = [m_commitIndex EXCEPT ![s] = commit]
             /\ AnswerAppend(m, m.term, TRUE, 0)
      BY <2>6 DEF AcceptAppend
    <3>2. (\E commit : m_commitIndex' = [m_commitIndex EXCEPT ![s] = commit])
            => \A v \in Server \ {s} : m_commitIndex'[v] = m_commitIndex[v]
      BY DEF TypeOK, ApplyTypeOK
    <3>3. QED
      BY <1>1, <2>1, <2>2, <3>1, <3>2 DEF Accepts
  <2>7. QED
    BY <2>2, <2>4, <2>5, <2>6
<1>6. ASSUME NEW s \in Server, sendAppendEntries(s) PROVE Quiet \/ \E r \in appendRep : Counts(s, r)
  <2>1. UNCHANGED <<m_logs, round, appendReq>>
    BY <1>6 DEF sendAppendEntries, logVars
  <2>2. PICK r \in appendRep :
          /\ r.args.caller = s
          /\ appendRep' = appendRep \ {r}
          /\ \/ UNCHANGED <<appendNums, m_commitIndex>>
             \/ /\ r.term = m_currentTerm[s] /\ m_status[s] = "Leader" /\ r.success
                /\ CountAppend(s, r) /\ UNCHANGED nodeVars
    BY <1>6 DEF sendAppendEntries
  <2>3. CASE UNCHANGED <<appendNums, m_commitIndex>>
    BY <1>1, <2>1, <2>2, <2>3
  <2>4. CASE /\ r.term = m_currentTerm[s] /\ m_status[s] = "Leader" /\ r.success
             /\ CountAppend(s, r) /\ UNCHANGED nodeVars
             /\ ~UNCHANGED <<appendNums, m_commitIndex>>
    <3> DEFINE counted == appendNums[s][r.args.round] \cup {r.args.callee}
               reached == Cardinality(counted) >= Majority
    <3>1. /\ appendNums' = [appendNums EXCEPT ![s][r.args.round] = Tally(counted)]
          /\ m_commitIndex' = [m_commitIndex EXCEPT ![s] =
                 IF reached THEN CommitAfter(s, r.args) ELSE m_commitIndex[s]]
      BY <2>4 DEF CountAppend
    <3>2. m_commitIndex \in [Server -> Nat]
      BY DEF TypeOK, ApplyTypeOK
    <3>3. Counts(s, r)
      BY <2>1, <2>2, <2>4, <3>1, <3>2 DEF Counts
    <3>4. QED
      BY <3>3
  <2>5. QED
    BY <2>2, <2>3, <2>4
<1>7. ASSUME NEW s \in Server, applierTicker(s) \/ CallFails(s) PROVE Quiet
  BY <1>1, <1>7 DEF applierTicker, CallFails, logVars, roundVars, applyVars, appendVars
<1>8. QED
  BY <1>2, <1>3, <1>4, <1>5, <1>6, <1>7, NoSnapshotSteps DEF Next, ReplicationStep

-----------------------------------------------------------------------------
\* Start appends one entry of the leader's term to the leader's log.
LEMMA StartAppends ==
    ASSUME TypeInv, NEW s \in Server, NEW c \in Command, Start(s, c)
    PROVE  \E e \in Entry :
              /\ e.logterm = m_currentTerm[s] /\ e.logindex = getLastLogIndex(s) + 1
              /\ Len(m_logs'[s]) = Len(m_logs[s]) + 1
              /\ m_logs'[s][Len(m_logs[s]) + 1] = e
              /\ \A k \in 1..Len(m_logs[s]) : k \in 1..Len(m_logs'[s]) /\ m_logs'[s][k] = m_logs[s][k]
              /\ \A v \in Server \ {s} : m_logs'[v] = m_logs[v]
<1> DEFINE e == [logterm |-> m_currentTerm[s], logindex |-> getLastLogIndex(s) + 1, command |-> c]
<1>1. m_logs' = [m_logs EXCEPT ![s] = Append(@, e)]
  BY DEF Start
<1>2. e \in Entry /\ e.logterm = m_currentTerm[s] /\ e.logindex = getLastLogIndex(s) + 1
  BY LastIndexOfLog DEF TypeInv, TypeOK, NodeTypeOK, Entry
<1> HIDE DEF e
<1>3. m_logs \in [Server -> Seq(Entry)]
  BY DEF TypeInv, TypeOK, LogTypeOK
<1>4. m_logs'[s] = Append(m_logs[s], e) /\ \A v \in Server \ {s} : m_logs'[v] = m_logs[v]
  BY <1>1, <1>3
<1>5. m_logs[s] \in Seq(Entry) /\ Len(m_logs[s]) \in Nat
  BY <1>3
<1>6. /\ Len(m_logs'[s]) = Len(m_logs[s]) + 1
      /\ m_logs'[s][Len(m_logs[s]) + 1] = e
      /\ \A k \in 1..Len(m_logs[s]) : m_logs'[s][k] = m_logs[s][k]
  BY <1>2, <1>4, <1>5
<1>7. \A k \in 1..Len(m_logs[s]) : k \in 1..(Len(m_logs[s]) + 1)
  BY <1>5
<1>8. QED
  BY <1>2, <1>4, <1>6, <1>7

\* Who is leader with an entry of its own term has been leader of the term before.
LEMMA LeaderBefore ==
    ASSUME Ground, Ground', [Next]_vars, NEW s \in Server, m_status'[s] = "Leader",
           NEW e \in Written', e.logterm = m_currentTerm'[s]
    PROVE  m_status[s] = "Leader" /\ m_currentTerm'[s] = m_currentTerm[s]
<1>1. CASE \E v \in Server, c \in Command : Start(v, c)
  BY <1>1 DEF Start, nodeVars
<1>2. CASE ~\E v \in Server, c \in Command : Start(v, c)
  <2>1. e \in Written
    BY <1>2, OnlyStartWrites DEF Ground
  <2>2. QED
    BY <2>1, LeaderOrFresh
<1>3. QED
  BY <1>1, <1>2

\* Only Start gives a leader something new.
LEMMA LeaderStillHasOwn ==
    ASSUME MaxSnapshotIndex = 0, Ground, Ground', LeaderHasOwn, [Next]_vars,
           ~\E s \in Server, c \in Command : Start(s, c)
    PROVE  LeaderHasOwn'
<1> SUFFICES ASSUME NEW s \in Server, m_status'[s] = "Leader"
             PROVE  /\ \A e \in Written' : e.logterm = m_currentTerm'[s] => HasAt(s, e.logindex, e.logterm)'
                    /\ \A k, p \in 1..Len(m_logs'[s]) :
                          k <= p /\ m_logs'[s][k].logterm = m_currentTerm'[s] =>
                              m_logs'[s][p].logterm = m_currentTerm'[s]
  BY DEF LeaderHasOwn
<1>1. Written' \subseteq Written
  BY OnlyStartWrites DEF Ground
<1>2. ASSUME NEW e \in Written', e.logterm = m_currentTerm'[s]
      PROVE  m_status[s] = "Leader" /\ m_currentTerm'[s] = m_currentTerm[s] /\ m_logs'[s] = m_logs[s]
  <2>1. m_status[s] = "Leader" /\ m_currentTerm'[s] = m_currentTerm[s]
    BY <1>2, LeaderBefore
  <2>2. QED
    BY <2>1, LeaderKept DEF Ground, LogInv, SafeInv
<1>3. \A e \in Written' : e.logterm = m_currentTerm'[s] => HasAt(s, e.logindex, e.logterm)'
  BY <1>1, <1>2 DEF LeaderHasOwn, HasAt
<1>4. \A k \in 1..Len(m_logs'[s]) : m_logs'[s][k] \in Written'
  BY WrittenMember
<1>5. QED
  BY <1>2, <1>3, <1>4 DEF LeaderHasOwn

\* Logs that only grow keep what they have.
LEMMA LongerLogsKeep ==
    ASSUME Ground, Ground', [Next]_vars,
           \A v \in Server : \A k \in 1..Len(m_logs[v]) :
               k \in 1..Len(m_logs'[v]) /\ m_logs'[v][k] = m_logs[v][k]
    PROVE  KeepsStay
<1>1. \A v \in Server : m_currentTerm'[v] >= m_currentTerm[v]
  BY TermsGrow DEF Ground, TypeInv
<1>2. \A v \in Server : m_currentTerm[v] \in Nat
  BY DEF Ground, TypeInv, TypeOK, NodeTypeOK
<1>3. \A v \in Server : m_currentTerm'[v] \in Nat
  BY DEF Ground, TypeInv, TypeOK, NodeTypeOK
<1>4. \A v \in Server, t \in Nat : m_currentTerm[v] > t => m_currentTerm'[v] > t
  BY <1>1, <1>2, <1>3
<1>5. QED
  BY <1>4 DEF KeepsStay, Keeps, HasAt

\* What a server holds of the entries of a call it goes on holding.
LEMMA HoldsUpToStays ==
    ASSUME Ground, KeepsStay, NEW a, NEW v \in Server, HoldsUpTo(v, a),
           \A e \in Written' : e \in Written \/ ~(e.logterm = a.term /\ e.logindex <= EndOf(a))
    PROVE  HoldsUpTo(v, a)'
<1>1. \A e \in Written : e.logindex \in Nat /\ e.logterm \in Nat
  BY SlotIsIndex
<1>2. EndOf(a)' = EndOf(a)
  BY DEF EndOf
<1>3. QED
  BY <1>1, <1>2 DEF HoldsUpTo, KeepsStay

\* What is committed is still backed after the step.
LEMMA CommitsStayBacked ==
    ASSUME MaxSnapshotIndex = 0, Ground, Ground', CommitsBacked, [Next]_vars, KeepsStay,
           NEW s \in Server, m_status'[s] = "Leader", NEW k \in 1..m_commitIndex[s],
           k \in 1..Len(m_logs'[s]), NEW t, t = m_currentTerm'[s], m_logs'[s][k].logterm = t
    PROVE  Backed(k, t)'
<1>1. m_logs'[s][k] \in Written'
  BY WrittenMember
<1>2. m_status[s] = "Leader" /\ t = m_currentTerm[s]
  BY <1>1, LeaderBefore
<1>3. m_commitIndex[s] \in Nat /\ t \in Nat
  BY <1>2 DEF Ground, TypeInv, TypeOK, ApplyTypeOK, NodeTypeOK
<1>4. m_commitIndex[s] <= Len(m_logs[s]) /\ Len(m_logs[s]) \in Nat
  BY SlotIsIndex DEF Ground, IndexOrder
<1>5. k \in Nat /\ k \in 1..Len(m_logs[s])
  BY <1>3, <1>4
<1>6. m_logs'[s][k] = m_logs[s][k]
  <2>1. CASE m_logs'[s] = m_logs[s]
    BY <2>1
  <2>2. ASSUME NEW c \in Command, Start(s, c) PROVE m_logs'[s][k] = m_logs[s][k]
    BY <1>5, <2>2, StartAppends DEF Ground
  <2>3. QED
    BY <1>2, <2>1, <2>2, LeaderKept DEF Ground, LogInv, SafeInv
<1>7. Backed(k, t)
  BY <1>2, <1>5, <1>6 DEF CommitsBacked, HasAt
<1>8. QED
  BY <1>3, <1>5, <1>7 DEF Backed, KeepsStay

-----------------------------------------------------------------------------
\* A quiet step.
LEMMA QuietCommitInv ==
    ASSUME MaxSnapshotIndex = 0, Ground, Ground', CommitInv, [Next]_vars, Quiet,
           ~\E s \in Server, c \in Command : Start(s, c)
    PROVE  CommitInv'
<1>1. /\ UNCHANGED <<m_logs, round, appendNums, m_commitIndex>>
      /\ appendReq' \subseteq appendReq /\ AppendCalls' \subseteq AppendCalls
      /\ \A r \in appendRep' : r \in appendRep \/ ~r.success
      /\ Written' \subseteq Written
  BY OnlyStartWrites DEF Quiet, Ground
<1>2. KeepsStay
  BY <1>1, LongerLogsKeep
<1>3. \A v \in Server : m_currentTerm'[v] >= m_currentTerm[v]
  BY TermsGrow DEF Ground, TypeInv
<1>4. \A v \in Server : m_currentTerm[v] \in Nat /\ m_currentTerm'[v] \in Nat
  BY DEF Ground, TypeInv, TypeOK, NodeTypeOK
<1>5. \A v \in Server : \A k \in 1..Len(m_logs[v]) :
        /\ m_logs[v][k].logterm \in Nat /\ m_logs[v][k].logterm <= m_currentTerm[v]
  BY SlotIsIndex DEF CommitInv, TermsReached
<1>6. TermsReached'
  BY <1>1, <1>3, <1>4, <1>5 DEF CommitInv, TermsReached
<1>7. LeaderHasOwn'
  BY LeaderStillHasOwn DEF CommitInv
<1>8. CallsHaveOwn'
  BY <1>1 DEF CommitInv, CallsHaveOwn
<1>9. NoGapInTerm'
  <2>1. \A v \in Server : \A p \in 1..Len(m_logs[v]) :
          m_logs[v][p].logterm = m_currentTerm'[v] => m_currentTerm'[v] = m_currentTerm[v]
    BY <1>3, <1>4, <1>5
  <2>2. QED
    BY <1>1, <2>1 DEF CommitInv, NoGapInTerm, HasAt
<1>10. RoundsAgree'
  BY <1>1 DEF CommitInv, RoundsAgree, EndOf
<1>11. CountedHold'
  <2>1. \A a : \A v \in Server : HoldsUpTo(v, a) => HoldsUpTo(v, a)'
    BY <1>1, <1>2, HoldsUpToStays
  <2>2. \A a \in AppendCalls : appendNums[a.caller][a.round] \subseteq Server
    BY CallsTyped DEF Ground
  <2>3. \A r \in appendRep : r.args.callee \in Server
    BY CallsTyped DEF Ground, AppendCalls
  <2>4. QED
    BY <1>1, <2>1, <2>2, <2>3 DEF CommitInv, CountedHold
<1>12. CommitsBacked'
  BY <1>1, <1>2, CommitsStayBacked DEF CommitInv, CommitsBacked, HasAt
<1>13. QED
  BY <1>6, <1>7, <1>8, <1>9, <1>10, <1>11, <1>12 DEF CommitInv

\* A command is submitted.
LEMMA StartCommitInv ==
    ASSUME MaxSnapshotIndex = 0, Ground, Ground', CommitInv, [Next]_vars,
           NEW s \in Server, NEW c \in Command, Start(s, c)
    PROVE  CommitInv'
<1>1. /\ UNCHANGED <<m_currentTerm, m_status, round, appendNums, m_commitIndex, appendReq, appendRep>>
      /\ m_status[s] = "Leader"
  BY DEF Start, nodeVars, applyVars, roundVars, appendVars, AcceptsCommands
<1>2. AppendCalls' = AppendCalls
  BY <1>1 DEF AppendCalls
<1>3. PICK x \in Entry :
        /\ x.logterm = m_currentTerm[s] /\ x.logindex = getLastLogIndex(s) + 1
        /\ Len(m_logs'[s]) = Len(m_logs[s]) + 1
        /\ m_logs'[s][Len(m_logs[s]) + 1] = x
        /\ \A k \in 1..Len(m_logs[s]) : k \in 1..Len(m_logs'[s]) /\ m_logs'[s][k] = m_logs[s][k]
        /\ \A v \in Server \ {s} : m_logs'[v] = m_logs[v]
  BY StartAppends DEF Ground
<1> DEFINE last == Len(m_logs[s])
           t == m_currentTerm[s]
<1>4. last \in Nat /\ x.logindex = last + 1 /\ Known(s) = last /\ t \in Nat
  BY <1>3, SlotIsIndex DEF Ground, TypeInv, TypeOK, NodeTypeOK
<1>5. \A k \in 1..(last + 1) : k \in 1..last \/ k = last + 1
  BY <1>4
<1>6. \A v \in Server : \A k \in 1..Len(m_logs'[v]) :
        \/ k \in 1..Len(m_logs[v]) /\ m_logs'[v][k] = m_logs[v][k]
        \/ v = s /\ k = last + 1 /\ m_logs'[v][k] = x
  BY <1>3, <1>5
<1>7. Written' \subseteq Written \cup {x}
  BY <1>1, <1>6, WrittenMember
<1>8. /\ \A v \in Server : m_status[v] = "Leader" /\ m_currentTerm[v] = t => v = s
      /\ \A a \in AppendCalls : a.term = t => EndOf(a) <= last
      /\ \A e \in Written : e.logterm = t => e.logindex <= last
  BY <1>1, <1>4, OneWriter
<1>9. KeepsStay
  BY <1>3, LongerLogsKeep
<1>10. HasAt(s, x.logindex, x.logterm)' /\ \A v \in Server : \A k, u : HasAt(v, k, u) => HasAt(v, k, u)'
  <2>1. last + 1 \in 1..(last + 1)
    BY <1>4
  <2>2. HasAt(s, x.logindex, x.logterm)'
    BY <1>3, <1>4, <2>1 DEF HasAt
  <2>3. QED
    BY <1>3, <2>2 DEF HasAt
<1>11. TermsReached'
  BY <1>1, <1>3, <1>4, <1>6 DEF CommitInv, TermsReached
<1>12. LeaderHasOwn'
  <2>1. ASSUME NEW v \in Server, m_status[v] = "Leader", NEW e \in Written', e.logterm = m_currentTerm[v]
        PROVE  HasAt(v, e.logindex, e.logterm)'
    <3>1. CASE e \in Written
      BY <1>10, <2>1, <3>1 DEF CommitInv, LeaderHasOwn
    <3>2. CASE e = x
      BY <1>3, <1>8, <1>10, <2>1, <3>2
    <3>3. QED
      BY <1>7, <3>1, <3>2
  <2>2. ASSUME NEW v \in Server, m_status[v] = "Leader", NEW k \in 1..Len(m_logs'[v]),
               NEW p \in 1..Len(m_logs'[v]), k <= p, m_logs'[v][k].logterm = m_currentTerm[v]
        PROVE  m_logs'[v][p].logterm = m_currentTerm[v]
    <3>1. CASE p \in 1..Len(m_logs[v]) /\ m_logs'[v][p] = m_logs[v][p]
      <4>1. k \in 1..Len(m_logs[v])
        BY <2>2, <3>1, SlotIsIndex
      <4>2. m_logs'[v][k] = m_logs[v][k]
        BY <1>3, <4>1
      <4>3. QED
        BY <2>2, <3>1, <4>1, <4>2 DEF CommitInv, LeaderHasOwn
    <3>2. CASE v = s /\ m_logs'[v][p] = x
      BY <1>3, <3>2
    <3>3. QED
      BY <1>6, <3>1, <3>2
  <2>3. QED
    BY <1>1, <2>1, <2>2 DEF LeaderHasOwn
<1>13. \A a \in AppendCalls : x.logterm = a.term => ~(x.logindex <= EndOf(a))
  <2>1. \A a \in AppendCalls : EndOf(a) \in Nat
    BY CallsTyped DEF Ground
  <2>2. QED
    BY <1>3, <1>4, <1>8, <2>1
<1>14. CallsHaveOwn'
  <2> SUFFICES ASSUME NEW m \in appendReq, NEW e \in Written', e.logterm = m.term
               PROVE  /\ e.logindex - m.prevlogindex \in 1..Len(m.entries) =>
                            m.entries[e.logindex - m.prevlogindex].logterm = m.term
                      /\ e.logindex <= m.prevlogindex => m.prevlogterm = m.term
    BY <1>1 DEF CallsHaveOwn
  <2>1. CASE e \in Written
    BY <2>1 DEF CommitInv, CallsHaveOwn
  <2>2. CASE e = x
    <3>1. ~(e.logindex <= EndOf(m)) /\ e.logindex \in Nat
      BY <1>4, <1>13, <2>2 DEF AppendCalls
    <3>2. m.prevlogindex \in Nat /\ Len(m.entries) \in Nat /\ EndOf(m) = m.prevlogindex + Len(m.entries)
      BY CallsTyped DEF Ground, AppendCalls, EndOf
    <3>3. QED
      BY <3>1, <3>2
  <2>3. QED
    BY <1>7, <2>1, <2>2
<1>15. NoGapInTerm'
  <2> SUFFICES ASSUME NEW v \in Server, NEW p \in 1..Len(m_logs'[v]),
                      m_logs'[v][p].logterm = m_currentTerm[v],
                      NEW e \in Written', e.logterm = m_currentTerm[v], e.logindex <= p
               PROVE  HasAt(v, e.logindex, e.logterm)'
    BY <1>1 DEF NoGapInTerm
  <2>1. CASE v = s
    BY <1>1, <1>12, <2>1 DEF LeaderHasOwn
  <2>2. CASE v # s
    <3>1. m_logs'[v] = m_logs[v]
      BY <1>3, <2>2
    <3>2. CASE e \in Written
      BY <1>10, <3>1, <3>2 DEF CommitInv, NoGapInTerm
    <3>3. CASE e = x
      <4>1. m_logs[v][p] \in Written /\ m_logs[v][p].logindex = p /\ m_logs[v][p].logterm = t
        BY <1>3, <3>1, <3>3, SlotIsIndex
      <4>2. p <= last
        BY <1>8, <4>1
      <4>3. p \in Nat
        BY <3>1, SlotIsIndex
      <4>4. FALSE
        BY <1>4, <3>3, <4>2, <4>3
      <4>5. QED
        BY <4>4
    <3>4. QED
      BY <1>7, <3>2, <3>3
  <2>3. QED
    BY <2>1, <2>2
<1>16. RoundsAgree'
  BY <1>1, <1>2 DEF CommitInv, RoundsAgree, EndOf
<1>17. CountedHold'
  <2>1. ASSUME NEW a \in AppendCalls, NEW v \in Server, HoldsUpTo(v, a) PROVE HoldsUpTo(v, a)'
    BY <1>7, <1>9, <1>13, <2>1, HoldsUpToStays
  <2>2. \A a \in AppendCalls : a.callee \in Server /\ appendNums[a.caller][a.round] \subseteq Server
    BY CallsTyped DEF Ground
  <2>3. \A r \in appendRep : r.args \in AppendCalls
    BY DEF AppendCalls
  <2>4. QED
    BY <1>1, <1>2, <2>1, <2>2, <2>3 DEF CommitInv, CountedHold
<1>18. CommitsBacked'
  BY <1>1, <1>9, CommitsStayBacked DEF CommitInv, CommitsBacked, HasAt
<1>19. QED
  BY <1>11, <1>12, <1>14, <1>15, <1>16, <1>17, <1>18 DEF CommitInv

-----------------------------------------------------------------------------
\* A call of a round carries the slots of the leader's log after prevlogindex.
LEMMA CallSlots ==
    ASSUME Ground, NEW s \in Server, NEW i \in Server \ {s}, m_status[s] = "Leader",
           NextIndexUsable(s, i), NEW m, m = AppendEntriesArgs(s, i)
    PROVE  /\ m.caller = s /\ m.round = round[s] + 1 /\ m.term = m_currentTerm[s]
           /\ m.prevlogindex \in Nat /\ Len(m.entries) \in Nat
           /\ EndOf(m) = Len(m_logs[s])
           /\ \A j \in 1..Len(m.entries) :
                 /\ m.prevlogindex + j \in 1..Len(m_logs[s])
                 /\ m.entries[j] = m_logs[s][m.prevlogindex + j]
           /\ m.prevlogindex >= 1 => m.prevlogterm = m_logs[s][m.prevlogindex].logterm
<1> DEFINE prev == m_nextIndex[s][i] - 1
<1>1. /\ m.caller = s /\ m.round = round[s] + 1 /\ m.term = m_currentTerm[s]
      /\ m.prevlogindex = prev /\ m.entries = EntriesAfter(s, prev)
      /\ m.prevlogterm = getLogTermFromLogIndex(s, prev)
  BY DEF AppendEntriesArgs
<1>2. m_nextIndex[s][i] \in Int
  BY DEF Ground, TypeInv, TypeOK, PeerTypeOK
<1>3. /\ m_lastSnapshotIncludeIndex[s] = 0 /\ Len(m_logs[s]) \in Nat
      /\ getLastLogIndex(s) = Len(m_logs[s]) /\ Known(s) = Len(m_logs[s])
  BY SlotIsIndex
<1>4. prev \in Nat /\ MatchLogDefined(s, prev)
  BY <1>2, <1>3 DEF NextIndexUsable, MatchLogDefined
<1> HIDE DEF prev
<1>5. EndOf(m) = Len(m_logs[s])
  BY <1>3, HeartBeatCalls DEF Ground, LogInv, SafeInv, EndOf
<1>6. Len(m.entries) \in Nat
  <2>1. m_logs[s] \in Seq(Entry)
    BY SlotIsIndex
  <2>2. m.entries \in Seq(Entry)
    BY <1>1, <1>3, <1>4, EntriesAfterIndex DEF Ground, TypeInv
  <2>3. QED
    BY <2>2
<1>7. getSlicesIndexFromLogIndex(s, prev) = prev
  BY <1>3, <1>4 DEF getSlicesIndexFromLogIndex
<1>8. \A j \in 1..Len(m.entries) :
        prev + j \in 1..Len(m_logs[s]) /\ m.entries[j] = m_logs[s][prev + j]
  BY <1>1, <1>4, <1>7, EntriesAfterSlots DEF Ground
<1>9. prev >= 1 => getLogTermFromLogIndex(s, prev) = m_logs[s][prev].logterm
  BY <1>3, <1>4, <1>7 DEF getLogTermFromLogIndex, EntryAt
<1>10. QED
  BY <1>1, <1>4, <1>5, <1>6, <1>8, <1>9

\* A leader begins a round.
LEMMA BeginsCommitInv ==
    ASSUME MaxSnapshotIndex = 0, Ground, Ground', CommitInv, [Next]_vars,
           ~\E s \in Server, c \in Command : Start(s, c), NEW s \in Server, Begins(s)
    PROVE  CommitInv'
<1> DEFINE t == m_currentTerm[s]
           new == round[s] + 1
           Called(m) == \E i \in Server \ {s} : NextIndexUsable(s, i) /\ m = AppendEntriesArgs(s, i)
<1>1. /\ UNCHANGED <<m_currentTerm, m_status, m_logs, m_commitIndex, appendRep>>
      /\ m_status[s] = "Leader"
      /\ round' = [round EXCEPT ![s] = new]
      /\ appendNums' = [appendNums EXCEPT ![s][new] = {s}]
  BY DEF Begins, nodeVars
<1>2. /\ \A m \in appendReq' : m \in appendReq \/ Called(m)
      /\ \A m \in AppendCalls' : m \in AppendCalls \/ Called(m)
  BY DEF Begins, AppendCalls
<1>3. ASSUME NEW m, Called(m)
      PROVE  /\ m.caller = s /\ m.round = new /\ m.term = t
             /\ m.prevlogindex \in Nat /\ Len(m.entries) \in Nat
             /\ EndOf(m) = Len(m_logs[s])
             /\ \A j \in 1..Len(m.entries) :
                   /\ m.prevlogindex + j \in 1..Len(m_logs[s])
                   /\ m.entries[j] = m_logs[s][m.prevlogindex + j]
             /\ m.prevlogindex >= 1 => m.prevlogterm = m_logs[s][m.prevlogindex].logterm
  BY <1>1, <1>3, CallSlots
<1> HIDE DEF Called
<1>4. Written' \subseteq Written /\ KeepsStay
  BY <1>1, OnlyStartWrites, LongerLogsKeep DEF Ground
<1>5. /\ round \in [Server -> Nat] /\ t \in Nat
      /\ appendNums \in [Server -> [1..MaxRound -> SUBSET Server]]
  BY DEF Ground, TypeInv, TypeOK, RoundTypeOK, NodeTypeOK
<1>6. /\ \A k \in 1..Len(m_logs[s]) : m_logs[s][k].logterm <= t
      /\ \A e \in Written : e.logterm = t => HasAt(s, e.logindex, t)
      /\ \A k, p \in 1..Len(m_logs[s]) : k <= p /\ m_logs[s][k].logterm = t => m_logs[s][p].logterm = t
  BY <1>1 DEF CommitInv, TermsReached, LeaderHasOwn
<1>7. /\ Len(m_logs[s]) \in Nat
      /\ \A e \in Written : e.logindex \in Nat /\ e.logindex >= 1
  BY SlotIsIndex
<1>8. TermsReached'
  BY <1>1, <1>2, <1>3, <1>6 DEF CommitInv, TermsReached
<1>9. LeaderHasOwn'
  BY LeaderStillHasOwn DEF CommitInv
<1>10. CallsHaveOwn'
  <2>1. ASSUME NEW m, Called(m), NEW e \in Written, e.logterm = m.term
        PROVE  /\ e.logindex - m.prevlogindex \in 1..Len(m.entries) =>
                     m.entries[e.logindex - m.prevlogindex].logterm = m.term
               /\ e.logindex <= m.prevlogindex => m.prevlogterm = m.term
    <3>1. HasAt(s, e.logindex, t) /\ m.term = t
      BY <1>3, <1>6, <2>1
    <3>2. ASSUME e.logindex - m.prevlogindex \in 1..Len(m.entries)
          PROVE  m.entries[e.logindex - m.prevlogindex].logterm = m.term
      <4>1. m.prevlogindex + (e.logindex - m.prevlogindex) = e.logindex
        BY <1>3, <1>7, <2>1
      <4>2. \A j \in 1..Len(m.entries) : m.entries[j] = m_logs[s][m.prevlogindex + j]
        BY <1>3, <2>1
      <4>3. m.entries[e.logindex - m.prevlogindex]
               = m_logs[s][m.prevlogindex + (e.logindex - m.prevlogindex)]
        BY <3>2, <4>2
      <4>4. QED
        BY <3>1, <4>1, <4>3 DEF HasAt
    <3>3. ASSUME e.logindex <= m.prevlogindex PROVE m.prevlogterm = m.term
      <4>1. m.prevlogindex <= Len(m_logs[s]) /\ m.prevlogindex >= 1 /\ m.prevlogindex \in Nat
        BY <1>3, <1>7, <2>1, <3>3 DEF EndOf
      <4>2. m_logs[s][m.prevlogindex].logterm = t
        BY <1>6, <1>7, <3>1, <3>3, <4>1 DEF HasAt
      <4>3. QED
        BY <1>3, <2>1, <3>1, <4>1, <4>2
    <3>4. QED
      BY <3>2, <3>3
  <2>2. QED
    BY <1>2, <1>4, <2>1 DEF CommitInv, CallsHaveOwn
<1>11. NoGapInTerm'
  BY <1>1, <1>4 DEF CommitInv, NoGapInTerm, HasAt
<1>12. \A a \in AppendCalls : a.round \in Nat /\ a.caller \in Server /\ a.round <= round[a.caller]
  BY CallsTyped DEF Ground, CommitInv, RoundsAgree
<1>13. /\ round'[s] = new /\ new \in Nat /\ new > round[s] /\ round[s] \in Nat
       /\ \A v \in Server \ {s} : round'[v] = round[v]
  BY <1>1, <1>5
<1>14. \A a \in AppendCalls : ~(a.caller = s /\ a.round = new)
  BY <1>12, <1>13
<1> HIDE DEF new, t
<1>15. RoundsAgree'
  <2>1. \A a \in AppendCalls' : a.round <= round'[a.caller]
    <3>1. \A a \in AppendCalls : a.round <= round'[a.caller]
      BY <1>5, <1>12, <1>13
    <3>2. \A a : Called(a) => a.round <= round'[a.caller]
      BY <1>3, <1>13
    <3>3. QED
      BY <1>2, <3>1, <3>2
  <2>2. ASSUME NEW a \in AppendCalls', NEW b \in AppendCalls', a.caller = b.caller, a.round = b.round
        PROVE  EndOf(a) = EndOf(b) /\ a.term = b.term
    BY <1>2, <1>3, <1>14, <2>2 DEF CommitInv, RoundsAgree
  <2>3. QED
    BY <2>1, <2>2 DEF RoundsAgree, EndOf
<1>16. CountedHold'
  <2>1. ASSUME NEW a, NEW v \in Server, HoldsUpTo(v, a) PROVE HoldsUpTo(v, a)'
    BY <1>4, <2>1, HoldsUpToStays
  <2>2. ASSUME NEW a, Called(a) PROVE HoldsUpTo(s, a)
    BY <1>3, <1>6, <2>2 DEF HoldsUpTo, Keeps, t
  <2>3. \A a \in AppendCalls : appendNums'[a.caller][a.round] = appendNums[a.caller][a.round]
    BY <1>1, <1>5, <1>12, <1>14
  <2>4. new \in 1..MaxRound => appendNums'[s][new] = {s}
    BY <1>1, <1>5
  <2>5. \A a \in AppendCalls' : a.round \in 1..MaxRound
    BY DEF Ground, TypeInv, TypeOK, AppendTypeOK, AppendCalls
  <2>6. \A a \in AppendCalls : a.callee \in Server /\ appendNums[a.caller][a.round] \subseteq Server
    BY CallsTyped DEF Ground
  <2>7. ASSUME NEW a \in AppendCalls', NEW v \in appendNums'[a.caller][a.round] PROVE HoldsUpTo(v, a)'
    <3>1. CASE a \in AppendCalls
      BY <2>1, <2>3, <2>6, <2>7, <3>1 DEF CommitInv, CountedHold
    <3>2. CASE Called(a)
      BY <1>3, <2>1, <2>2, <2>4, <2>5, <2>7, <3>2
    <3>3. QED
      BY <1>2, <3>1, <3>2
  <2>8. \A r \in appendRep : r.args.callee \in Server
    BY <2>6 DEF AppendCalls
  <2>9. \A r \in appendRep : r.success => HoldsUpTo(r.args.callee, r.args)' /\ r.term = r.args.term
    BY <2>1, <2>8 DEF CommitInv, CountedHold
  <2>10. QED
    BY <1>1, <2>7, <2>9 DEF CountedHold
<1>17. CommitsBacked'
  BY <1>1, <1>4, CommitsStayBacked DEF CommitInv, CommitsBacked, HasAt
<1>18. QED
  BY <1>8, <1>9, <1>10, <1>11, <1>15, <1>16, <1>17 DEF CommitInv

-----------------------------------------------------------------------------
\* What the loop of AppendEntries1 leaves of the call's term: what was there, and
\* all there is up to the end of the call.
LEMMA AcceptedTerm ==
    ASSUME MaxSnapshotIndex = 0, Ground, Ground', CommitInv, [Next]_vars,
           NEW s \in Server, NEW m \in appendReq, Accepts(s, m)
    PROVE  /\ \A v \in Server \ {s} : m_logs'[v] = m_logs[v] /\ m_currentTerm'[v] = m_currentTerm[v]
           /\ m_currentTerm'[s] = m.term /\ m.term \in Nat
           /\ \A k \in 1..Len(m_logs'[s]) :
                 \/ k \in 1..Len(m_logs[s]) /\ m_logs'[s][k] = m_logs[s][k]
                 \/ k \in 1..EndOf(m) /\ m_logs'[s][k].logterm <= m.term
           /\ \A k : HasAt(s, k, m.term) => HasAt(s, k, m.term)'
           /\ \A e \in Written :
                 e.logterm = m.term /\ e.logindex <= EndOf(m) => HasAt(s, e.logindex, m.term)'
<1> DEFINE prev == m.prevlogindex
           n == Len(m.entries)
           t == m.term
<1>1. /\ t >= m_currentTerm[s]
      /\ MatchLogDefined(s, prev) /\ matchLog(s, prev, m.prevlogterm)
      /\ m_currentTerm' = [m_currentTerm EXCEPT ![s] = t]
      /\ m_logs' = [m_logs EXCEPT ![s] = Merged(s, m)]
  BY DEF Accepts, FollowCaller
<1>2. m_logs \in [Server -> Seq(Entry)] /\ m_currentTerm \in [Server -> Nat] /\ m_currentTerm[s] \in Nat
  BY DEF Ground, TypeInv, TypeOK, LogTypeOK, NodeTypeOK
<1>3. /\ \A v \in Server \ {s} : m_logs'[v] = m_logs[v] /\ m_currentTerm'[v] = m_currentTerm[v]
      /\ m_currentTerm'[s] = t /\ m_logs'[s] = Merged(s, m)
  BY <1>1, <1>2
<1>4. t \in Nat
  BY DEF Ground, TypeInv, TypeOK, AppendTypeOK, AppendArgs
<1>5. prev \in Nat /\ n \in Nat /\ EndOf(m) = prev + n
  BY CallsTyped DEF Ground, AppendCalls, EndOf
<1>6. /\ Len(m_logs[s]) \in Nat /\ m_lastSnapshotIncludeIndex[s] = 0
      /\ getLastLogIndex(s) = Len(m_logs[s])
  BY SlotIsIndex
<1>7. getSlicesIndexFromLogIndex(s, prev) = prev
  BY <1>5, <1>6 DEF getSlicesIndexFromLogIndex
<1>8. /\ prev <= Len(m_logs[s]) /\ Len(Merged(s, m)) >= prev + n
      /\ \A k \in 1..Len(Merged(s, m)) :
           \/ k \in 1..Len(m_logs[s]) /\ Merged(s, m)[k] = m_logs[s][k]
           \/ k - prev \in 1..n /\ Merged(s, m)[k] = m.entries[k - prev]
      /\ \A k \in 1..Len(Merged(s, m)) : k - prev \in 1..n =>
           Merged(s, m)[k].logterm = m.entries[k - prev].logterm
      /\ \A k \in 1..Len(Merged(s, m)) : k - prev \notin 1..n =>
           k \in 1..Len(m_logs[s]) /\ Merged(s, m)[k] = m_logs[s][k]
  <2>1. /\ TypeInv /\ MatchLogDefined(s, m.prevlogindex)
        /\ m.prevlogindex = getSlicesIndexFromLogIndex(s, m.prevlogindex)
    BY <1>1, <1>7 DEF Ground
  <2>2. SlotsAfter(s, m, prev)
    BY <2>1, MergedSlots
  <2>3. QED
    BY <2>2, Zenon DEF SlotsAfter
<1>9. Len(Merged(s, m)) \in Nat /\ Len(Merged(s, m)) >= Len(m_logs[s])
  <2>1. Len(m_logs'[s]) \in Nat /\ m_lastSnapshotIncludeIndex'[s] = 0
    BY DEF Ground, TypeInv, TypeOK, LogTypeOK, SafeInv, NoSnapshots
  <2>2. Known(s)' >= Known(s)
    BY KnownGrows DEF Ground
  <2>3. Known(s)' = Len(m_logs'[s]) /\ Known(s) = Len(m_logs[s])
    BY <1>6, <2>1 DEF Known
  <2>4. QED
    BY <1>3, <2>1, <2>2, <2>3
<1> HIDE DEF prev, n, t
<1>10. \A k \in 1..n : m.entries[k].logterm <= t
  BY DEF CommitInv, TermsReached, n, t
<1>11. \A e \in Written : e.logterm = t =>
         /\ e.logindex - prev \in 1..n => m.entries[e.logindex - prev].logterm = t
         /\ e.logindex <= prev => m.prevlogterm = t
  BY DEF CommitInv, CallsHaveOwn, n, prev, t
<1>12. \A k \in 1..Len(m_logs'[s]) :
         \/ k \in 1..Len(m_logs[s]) /\ m_logs'[s][k] = m_logs[s][k]
         \/ k \in 1..EndOf(m) /\ m_logs'[s][k].logterm <= t
  BY <1>3, <1>5, <1>8, <1>9, <1>10
<1>13. ASSUME NEW k, HasAt(s, k, t) PROVE HasAt(s, k, t)'
  <2>1. k \in 1..Len(m_logs[s]) /\ m_logs[s][k].logterm = t
    BY <1>13 DEF HasAt
  <2>2. k \in 1..Len(Merged(s, m))
    BY <1>6, <1>9, <2>1
  <2>3. m_logs[s][k] \in Written /\ m_logs[s][k].logindex = k
    BY <2>1, SlotIsIndex
  <2>4. Merged(s, m)[k].logterm = t
    BY <1>8, <1>11, <2>1, <2>2, <2>3
  <2>5. QED
    BY <1>3, <2>2, <2>4 DEF HasAt, t
<1>14. ASSUME NEW e \in Written, e.logterm = t, e.logindex <= prev + n PROVE HasAt(s, e.logindex, t)'
  <2>1. e.logindex \in Nat /\ e.logindex >= 1
    BY SlotIsIndex
  <2>2. CASE e.logindex <= prev
    <3>1. m.prevlogterm = t /\ prev \in 1..Len(m_logs[s])
      BY <1>5, <1>6, <1>8, <1>11, <1>14, <2>1, <2>2
    <3>2. m_logs[s][prev].logterm = t
      <4>1. getLogTermFromLogIndex(s, prev) = m_logs[s][prev].logterm
        BY <1>6, <1>7, <3>1 DEF getLogTermFromLogIndex, EntryAt, prev
      <4>2. QED
        BY <1>1, <3>1, <4>1 DEF matchLog, prev
    <3>3. m_logs[s][prev].logterm <= m_currentTerm[s]
      BY <3>1 DEF CommitInv, TermsReached
    <3>4. m_currentTerm[s] = t
      BY <1>1, <1>2, <1>4, <3>2, <3>3 DEF t
    <3>5. HasAt(s, e.logindex, t)
      BY <1>14, <2>2, <3>1, <3>2, <3>4 DEF CommitInv, NoGapInTerm
    <3>6. QED
      BY <1>13, <3>5
  <2>3. CASE e.logindex - prev \in 1..n
    <3>1. m.entries[e.logindex - prev].logterm = t
      BY <1>11, <1>14, <2>3
    <3>2. e.logindex \in 1..Len(Merged(s, m))
      BY <1>5, <1>8, <1>9, <1>14, <2>1 DEF prev, n
    <3>3. Merged(s, m)[e.logindex].logterm = t
      BY <1>8, <2>3, <3>1, <3>2
    <3>4. QED
      BY <1>3, <3>2, <3>3 DEF HasAt, t
  <2>4. e.logindex <= prev \/ e.logindex - prev \in 1..n
    BY <1>5, <1>14, <2>1 DEF prev, n
  <2>5. QED
    BY <2>2, <2>3, <2>4
<1>15. QED
  BY <1>3, <1>4, <1>5, <1>12, <1>13, <1>14 DEF t, prev, n

\* A server accepts a call.
LEMMA AcceptsCommitInv ==
    ASSUME MaxSnapshotIndex = 0, Ground, Ground', CommitInv, [Next]_vars,
           ~\E v \in Server, c \in Command : Start(v, c),
           NEW s \in Server, NEW m \in appendReq, Accepts(s, m)
    PROVE  CommitInv'
<1> DEFINE t == m.term
           ans == [args |-> m, term |-> t, success |-> TRUE, updatenextindex |-> 0]
<1>1. /\ UNCHANGED <<round, appendNums>> /\ m.callee = s
      /\ appendReq' = appendReq \ {m} /\ appendRep' = appendRep \cup {ans}
      /\ \A v \in Server \ {s} : m_commitIndex'[v] = m_commitIndex[v]
      /\ m_currentTerm[s] <= t
  <2>1. t \in Nat /\ m_currentTerm[s] \in Nat
    BY DEF Ground, TypeInv, TypeOK, AppendTypeOK, AppendArgs, NodeTypeOK
  <2>2. QED
    BY <2>1 DEF Accepts, AnswerAppend
<1>2. m_status'[s] = "Follower"
  BY DEF Accepts, FollowCaller, Ground, TypeInv, TypeOK, NodeTypeOK
<1>3. /\ \A v \in Server \ {s} : m_logs'[v] = m_logs[v] /\ m_currentTerm'[v] = m_currentTerm[v]
      /\ m_currentTerm'[s] = t /\ t \in Nat
      /\ \A k \in 1..Len(m_logs'[s]) :
            \/ k \in 1..Len(m_logs[s]) /\ m_logs'[s][k] = m_logs[s][k]
            \/ k \in 1..EndOf(m) /\ m_logs'[s][k].logterm <= t
      /\ \A k : HasAt(s, k, t) => HasAt(s, k, t)'
      /\ \A e \in Written : e.logterm = t /\ e.logindex <= EndOf(m) => HasAt(s, e.logindex, t)'
  BY AcceptedTerm
<1>4. Written' \subseteq Written
  BY OnlyStartWrites DEF Ground
<1>5. AppendCalls' \subseteq AppendCalls
  <2>1. ans.args = m
    OBVIOUS
  <2>2. QED
    BY <1>1, <2>1 DEF AppendCalls
<1> HIDE DEF t
<1>6. \A k \in 1..Len(m_logs[s]) : m_logs[s][k].logterm <= m_currentTerm[s] /\ m_logs[s][k].logterm \in Nat
  BY SlotIsIndex DEF CommitInv, TermsReached
<1>7. m_currentTerm[s] \in Nat /\ Len(m_logs[s]) \in Nat /\ EndOf(m) \in Nat
  BY SlotIsIndex, CallsTyped DEF Ground, TypeInv, TypeOK, NodeTypeOK, AppendCalls
<1>8. KeepsStay
  <2>1. ASSUME NEW k \in Nat, NEW u \in Nat, Keeps(s, k, u) PROVE Keeps(s, k, u)'
    <3>1. CASE u < t
      BY <1>3, <3>1 DEF Keeps
    <3>2. CASE u = t
      BY <1>1, <1>3, <1>7, <2>1, <3>2 DEF Keeps
    <3>3. CASE u > t
      BY <1>1, <1>3, <1>6, <1>7, <2>1, <3>3 DEF Keeps, HasAt
    <3>4. QED
      BY <1>3, <3>1, <3>2, <3>3
  <2>2. \A v \in Server \ {s} : \A k, u \in Nat : Keeps(v, k, u) => Keeps(v, k, u)'
    BY <1>3 DEF Keeps, HasAt
  <2>3. QED
    BY <2>1, <2>2 DEF KeepsStay
<1>9. TermsReached'
  <2>1. \A k \in 1..Len(m_logs'[s]) : m_logs'[s][k].logterm <= t
    BY <1>1, <1>3, <1>6, <1>7
  <2>2. QED
    BY <1>1, <1>3, <2>1 DEF CommitInv, TermsReached
<1>10. LeaderHasOwn'
  BY LeaderStillHasOwn DEF CommitInv
<1>11. CallsHaveOwn'
  BY <1>1, <1>4 DEF CommitInv, CallsHaveOwn
<1>12. NoGapInTerm'
  <2>1. ASSUME NEW p \in 1..Len(m_logs'[s]), m_logs'[s][p].logterm = t,
               NEW e \in Written, e.logterm = t, e.logindex <= p
        PROVE  HasAt(s, e.logindex, t)'
    <3>1. CASE e.logindex <= EndOf(m)
      BY <1>3, <2>1, <3>1
    <3>2. CASE ~(e.logindex <= EndOf(m))
      <4>1. e.logindex \in Nat
        BY SlotIsIndex
      <4>2. p \notin 1..EndOf(m)
        BY <1>7, <2>1, <3>2, <4>1
      <4>3. p \in 1..Len(m_logs[s]) /\ m_logs'[s][p] = m_logs[s][p]
        BY <1>3, <4>2
      <4>4. m_currentTerm[s] = t
        BY <1>1, <1>3, <1>6, <1>7, <2>1, <4>3
      <4>5. HasAt(s, e.logindex, t)
        BY <2>1, <4>3, <4>4 DEF CommitInv, NoGapInTerm
      <4>6. QED
        BY <1>3, <4>5
    <3>3. QED
      BY <3>1, <3>2
  <2>2. ASSUME NEW v \in Server, v # s, NEW p \in 1..Len(m_logs'[v]),
               m_logs'[v][p].logterm = m_currentTerm'[v],
               NEW e \in Written, e.logterm = m_currentTerm'[v], e.logindex <= p
        PROVE  HasAt(v, e.logindex, e.logterm)'
    BY <1>3, <2>2 DEF CommitInv, NoGapInTerm, HasAt
  <2>3. QED
    BY <1>3, <1>4, <2>1, <2>2 DEF NoGapInTerm
<1>13. RoundsAgree'
  BY <1>1, <1>5 DEF CommitInv, RoundsAgree, EndOf
<1>14. CountedHold'
  <2>1. ASSUME NEW a, NEW v \in Server, HoldsUpTo(v, a) PROVE HoldsUpTo(v, a)'
    BY <1>4, <1>8, <2>1, HoldsUpToStays
  <2>2. \A a \in AppendCalls : a.callee \in Server /\ appendNums[a.caller][a.round] \subseteq Server
    BY CallsTyped DEF Ground
  <2>3. \A r \in appendRep : r.args.callee \in Server
    BY <2>2 DEF AppendCalls
  <2>4. \A r \in appendRep : r.success => HoldsUpTo(r.args.callee, r.args)' /\ r.term = r.args.term
    BY <2>1, <2>3 DEF CommitInv, CountedHold
  <2>5. HoldsUpTo(s, m)'
    <3>1. EndOf(m)' = EndOf(m)
      BY DEF EndOf
    <3>2. QED
      BY <1>3, <1>4, <3>1 DEF HoldsUpTo, Keeps, t
  <2>6. ans.args = m /\ ans.term = m.term
    BY DEF t
  <2>7. \A r \in appendRep' : r.success => HoldsUpTo(r.args.callee, r.args)' /\ r.term = r.args.term
    BY <1>1, <2>4, <2>5, <2>6
  <2>8. \A a \in AppendCalls' : \A v \in appendNums'[a.caller][a.round] : HoldsUpTo(v, a)'
    BY <1>1, <1>5, <2>1, <2>2 DEF CommitInv, CountedHold
  <2>9. QED
    BY <2>7, <2>8 DEF CountedHold
<1>15. CommitsBacked'
  <2>1. ASSUME NEW v \in Server, m_status'[v] = "Leader" PROVE m_commitIndex'[v] = m_commitIndex[v]
    BY <1>1, <1>2, <2>1
  <2>2. QED
    BY <1>8, <2>1, CommitsStayBacked DEF CommitInv, CommitsBacked, HasAt
<1>16. QED
  BY <1>9, <1>10, <1>11, <1>12, <1>13, <1>14, <1>15 DEF CommitInv

\* A leader counts a positive answer.
LEMMA CountsCommitInv ==
    ASSUME MaxSnapshotIndex = 0, Ground, Ground', CommitInv, [Next]_vars,
           ~\E v \in Server, c \in Command : Start(v, c),
           NEW s \in Server, NEW r \in appendRep, Counts(s, r)
    PROVE  CommitInv'
<1> DEFINE n == r.args.round
           counted == appendNums[s][n] \cup {r.args.callee}
           t == m_currentTerm[s]
<1>1. /\ UNCHANGED <<m_currentTerm, m_status, m_logs, round, appendReq>>
      /\ r.args.caller = s /\ r.term = t /\ m_status[s] = "Leader" /\ r.success
      /\ appendRep' = appendRep \ {r}
      /\ appendNums' = [appendNums EXCEPT ![s][n] = Tally(counted)]
      /\ m_commitIndex' = [m_commitIndex EXCEPT ![s] =
             IF Cardinality(counted) >= Majority THEN CommitAfter(s, r.args) ELSE @]
  BY DEF Counts, nodeVars
<1>2. r.args \in AppendCalls /\ AppendCalls' \subseteq AppendCalls
  BY <1>1 DEF AppendCalls
<1>3. /\ appendNums \in [Server -> [1..MaxRound -> SUBSET Server]]
      /\ m_commitIndex \in [Server -> Nat] /\ t \in Nat
  BY DEF Ground, TypeInv, TypeOK, RoundTypeOK, ApplyTypeOK, NodeTypeOK
<1>4. \A a \in AppendCalls : /\ a.caller \in Server /\ a.callee \in Server /\ a.round \in 1..MaxRound
                             /\ EndOf(a) \in Nat /\ appendNums[a.caller][a.round] \subseteq Server
  BY CallsTyped DEF Ground
<1>5. counted \subseteq Server
  BY <1>1, <1>2, <1>4
<1>6. Written' \subseteq Written /\ KeepsStay
  BY <1>1, OnlyStartWrites, LongerLogsKeep DEF Ground
<1>7. \A v \in counted : HoldsUpTo(v, r.args)
  BY <1>1, <1>2 DEF CommitInv, CountedHold
<1>8. r.args.term = t
  BY <1>1 DEF CommitInv, CountedHold
<1> HIDE DEF counted
<1>9. Tally(counted) \subseteq counted
  BY DEF Tally
<1>10. TermsReached' /\ CallsHaveOwn' /\ NoGapInTerm' /\ RoundsAgree'
  <2>1. TermsReached' /\ RoundsAgree'
    BY <1>1, <1>2 DEF CommitInv, TermsReached, RoundsAgree, EndOf
  <2>2. CallsHaveOwn' /\ NoGapInTerm'
    BY <1>1, <1>6 DEF CommitInv, CallsHaveOwn, NoGapInTerm, HasAt
  <2>3. QED
    BY <2>1, <2>2
<1>11. LeaderHasOwn'
  BY LeaderStillHasOwn DEF CommitInv
<1>12. CountedHold'
  <2>1. ASSUME NEW a, NEW v \in Server, HoldsUpTo(v, a) PROVE HoldsUpTo(v, a)'
    BY <1>6, <2>1, HoldsUpToStays
  <2>2. ASSUME NEW a \in AppendCalls, NEW v \in appendNums'[a.caller][a.round] PROVE HoldsUpTo(v, a)
    <3>1. CASE a.caller = s /\ a.round = n
      <4>1. appendNums'[s][n] = Tally(counted)
        BY <1>1, <1>2, <1>3, <1>4
      <4>2. HoldsUpTo(v, r.args)
        BY <1>7, <1>9, <2>2, <3>1, <4>1
      <4>3. EndOf(a) = EndOf(r.args) /\ a.term = r.args.term
        BY <1>1, <1>2, <3>1 DEF CommitInv, RoundsAgree
      <4>4. QED
        BY <4>2, <4>3 DEF HoldsUpTo
    <3>2. CASE ~(a.caller = s /\ a.round = n)
      <4>1. appendNums'[a.caller][a.round] = appendNums[a.caller][a.round]
        BY <1>1, <1>3, <1>4, <3>2
      <4>2. QED
        BY <2>2, <4>1 DEF CommitInv, CountedHold
    <3>3. QED
      BY <3>1, <3>2
  <2>3. \A a \in AppendCalls : appendNums'[a.caller][a.round] \subseteq Server
    BY <1>1, <1>3, <1>4, <1>5, <1>9
  <2>4. \A p \in appendRep : p.args.callee \in Server
    BY <1>4 DEF AppendCalls
  <2>5. \A p \in appendRep : p.success => HoldsUpTo(p.args.callee, p.args)' /\ p.term = p.args.term
    BY <2>1, <2>4 DEF CommitInv, CountedHold
  <2>6. QED
    BY <1>1, <1>2, <2>1, <2>2, <2>3, <2>5 DEF CountedHold
<1>13. CommitsBacked'
  <2>1. ASSUME NEW v \in Server, m_status[v] = "Leader", NEW k \in 1..m_commitIndex'[v],
               k \in 1..Len(m_logs[v]), m_logs[v][k].logterm = m_currentTerm[v]
        PROVE  Backed(k, m_currentTerm[v])'
    <3>1. CASE k \in 1..m_commitIndex[v]
      BY <1>1, <1>6, <2>1, <3>1, CommitsStayBacked DEF CommitInv
    <3>2. CASE k \notin 1..m_commitIndex[v]
      <4>1. v = s /\ Cardinality(counted) >= Majority /\ k <= EndOf(r.args)
        <5>1. CommitAfter(s, r.args) = m_commitIndex[s] \/ CommitAfter(s, r.args) = EndOf(r.args)
          BY DEF CommitAfter, MaxOf, EndOf
        <5>2. /\ \A u \in Server \ {s} : m_commitIndex'[u] = m_commitIndex[u]
              /\ m_commitIndex'[s] = m_commitIndex[s] \/
                   (Cardinality(counted) >= Majority /\ m_commitIndex'[s] = EndOf(r.args))
          BY <1>1, <1>3, <5>1
        <5>3. EndOf(r.args) \in Nat
          BY <1>2, <1>4
        <5>4. QED
          BY <2>1, <3>2, <5>2, <5>3
      <4>2. m_logs[s][k] \in Written /\ m_logs[s][k].logindex = k /\ m_logs[s][k].logterm = t
        BY <2>1, <4>1, SlotIsIndex
      <4>3. \A u \in counted : Keeps(u, k, t)
        BY <1>7, <1>8, <4>1, <4>2 DEF HoldsUpTo
      <4>4. 2 * Cardinality(counted) > Cardinality(Server)
        <5>1. Cardinality(counted) \in Nat /\ Cardinality(Server) \in Nat
          BY <1>5, ServerAssumption, FS_Subset, FS_CardinalityType
        <5>2. QED
          BY <4>1, <5>1 DEF Majority
      <4>5. QED
        BY <1>1, <1>5, <4>1, <4>3, <4>4 DEF Backed, Keeps, HasAt
    <3>3. QED
      BY <3>1, <3>2
  <2>2. QED
    BY <1>1, <2>1 DEF CommitsBacked, HasAt
<1>14. QED
  BY <1>10, <1>11, <1>12, <1>13 DEF CommitInv

-----------------------------------------------------------------------------
\* Without snapshots the inductive invariant of the next theorem holds.
THEOREM CommitInvariant ==
    ASSUME MaxSnapshotIndex = 0
    PROVE  Spec => []CommitInv
<1>1. Init => CommitInv
  <2> SUFFICES ASSUME Init PROVE CommitInv
    OBVIOUS
  <2>1. Written = {} /\ AppendCalls = {}
    BY WrittenMember DEF Init, AppendCalls
  <2>2. TermsReached /\ NoGapInTerm /\ LeaderHasOwn /\ CommitsBacked
    BY DEF Init, TermsReached, NoGapInTerm, LeaderHasOwn, CommitsBacked
  <2>3. QED
    BY <2>1, <2>2 DEF Init, CommitInv, CallsHaveOwn, RoundsAgree, CountedHold
<1>2. Ground /\ Ground' /\ CommitInv /\ [Next]_vars => CommitInv'
  <2> SUFFICES ASSUME Ground, Ground', CommitInv, [Next]_vars PROVE CommitInv'
    OBVIOUS
  <2>1. CASE \E s \in Server, c \in Command : Start(s, c)
    BY <2>1, StartCommitInv
  <2>2. CASE ~\E s \in Server, c \in Command : Start(s, c)
    BY <2>2, KindsOfSteps, QuietCommitInv, BeginsCommitInv, AcceptsCommitInv, CountsCommitInv
      DEF Ground, TypeInv, SafeInv
  <2>3. QED
    BY <2>1, <2>2
<1>3. Spec => []Ground
  <2>1. TypeInv /\ ElectionSafety /\ IndexOrder /\ LogInv /\ CountInv /\ SafeInv => Ground
    BY DEF Ground
  <2>2. QED
    BY <2>1, TypeInvariant, OneLeaderPerTerm, IndexesOrdered, LogInvariant, CountInvariant,
      SafeInvariant, PTL
<1>4. QED
  BY <1>1, <1>2, <1>3, PTL DEF Spec

\* Without snapshots what a leader commits in its own term is on a majority, as far
\* as the majority has not moved on: no mixture of rounds, lost answers and late
\* ones makes sendAppendEntries count a server that does not have the entries.
THEOREM CommitsOnMajority ==
    ASSUME MaxSnapshotIndex = 0
    PROVE  Spec => []CommitBackedByMajority
<1>1. Ground /\ CommitInv => CommitBackedByMajority
  <2> SUFFICES ASSUME Ground, CommitInv, NEW s \in Server, m_status[s] = "Leader",
                      NEW k \in 1..m_commitIndex[s], InLog(s, k),
                      EntryAt(s, k).logterm = m_currentTerm[s]
               PROVE  2 * Cardinality({v \in Server : Holds(v, k, m_currentTerm[s])})
                        > Cardinality(Server)
    BY DEF CommitBackedByMajority
  <2> DEFINE t == m_currentTerm[s]
             Holders == {v \in Server : Holds(v, k, t)}
  <2>1. \A v \in Server : /\ m_lastSnapshotIncludeIndex[v] = 0 /\ Len(m_logs[v]) \in Nat
                          /\ getLastLogIndex(v) = Len(m_logs[v])
    BY SlotIsIndex
  <2>2. k \in Nat /\ k >= 1
    BY DEF Ground, TypeInv, TypeOK, ApplyTypeOK
  <2>3. \A v \in Server : EntryAt(v, k) = m_logs[v][k] /\ (InLog(v, k) <=> k \in 1..Len(m_logs[v]))
    BY <2>1, <2>2 DEF EntryAt, getSlicesIndexFromLogIndex, InLog
  <2>4. HasAt(s, k, t)
    BY <2>3 DEF HasAt
  <2>5. PICK Q \in SUBSET Server :
          2 * Cardinality(Q) > Cardinality(Server) /\ \A v \in Q : Keeps(v, k, t)
    BY <2>4 DEF CommitInv, CommitsBacked, Backed
  <2>6. Q \subseteq Holders
    BY <2>3, <2>5 DEF Keeps, HasAt, Holds
  <2> HIDE DEF Holders
  <2>7. IsFiniteSet(Holders)
    BY ServerAssumption, FS_Subset DEF Holders
  <2>8. Cardinality(Q) <= Cardinality(Holders)
    BY <2>6, <2>7, FS_Subset
  <2>9. Cardinality(Q) \in Nat /\ Cardinality(Holders) \in Nat /\ Cardinality(Server) \in Nat
    BY <2>6, <2>7, ServerAssumption, FS_Subset, FS_CardinalityType
  <2>10. 2 * Cardinality(Holders) > Cardinality(Server)
    BY <2>5, <2>8, <2>9
  <2>11. QED
    BY <2>10 DEF Holders
<1>2. TypeInv /\ ElectionSafety /\ IndexOrder /\ LogInv /\ CountInv /\ SafeInv => Ground
  BY DEF Ground
<1>3. QED
  BY <1>1, <1>2, TypeInvariant, OneLeaderPerTerm, IndexesOrdered, LogInvariant, CountInvariant,
    SafeInvariant, CommitInvariant, PTL
=============================================================================
