------------------------- MODULE RaftElectionProofs -------------------------
(***************************************************************************)
(* One leader per term, for any number of servers and any bounds.          *)
(***************************************************************************)
EXTENDS RaftProofs

\* Something in the system says that v gave its vote of term t to c: an answer in
\* flight, the counter of the election c is holding, or an election c has won.
Evidence(v, c, t) ==
    \/ \E r \in voteRep :
          r.votegranted /\ r.args.callee = v /\ r.args.caller = c /\ r.args.term = t
    \/ v \in votedNum[c] /\ m_votedFor[c] = c /\ m_currentTerm[c] = t
    \/ \E e \in elected : e.term = t /\ e.leader = c /\ v \in e.quorum

\* A server remembers the vote of its current term, and has none of a later one.
VotesRemembered ==
    \A v, c \in Server, t \in Nat : Evidence(v, c, t) =>
        t <= m_currentTerm[v] /\ (t = m_currentTerm[v] => m_votedFor[v] = c)

\* No server has voted for two candidates of one term.
VotesUnique ==
    \A v, c, d \in Server, t \in Nat : Evidence(v, c, t) /\ Evidence(v, d, t) => c = d

\* A candidate whose calls are on their way and that is still in their term has
\* voted for itself in it.
CandidateVoted(args) ==
    /\ args.caller # args.callee
    /\ args.term <= m_currentTerm[args.caller]
    /\ args.term = m_currentTerm[args.caller] => m_votedFor[args.caller] = args.caller

CallsOfCandidates ==
    /\ \A m \in voteReq : CandidateVoted(m)
    /\ \A r \in voteRep : CandidateVoted(r.args) /\ (r.votegranted => r.term = r.args.term)

WonByMajority == \A e \in elected : Cardinality(e.quorum) >= Majority

VoteInv == VotesRemembered /\ VotesUnique /\ CallsOfCandidates /\ WonByMajority

\* No election has begun in the initial state.
LEMMA InitVoteInv == Init => VoteInv
BY DEF Init, VoteInv, VotesRemembered, VotesUnique, CallsOfCandidates, WonByMajority, Evidence

\* Steps that give no vote: terms only grow, a vote is lost only with its term, and
\* nothing new is in flight.
LEMMA NoVoteGiven ==
    ASSUME TypeOK, TypeOK', VoteInv,
           \A v \in Server :
              /\ m_currentTerm'[v] >= m_currentTerm[v]
              /\ m_currentTerm'[v] = m_currentTerm[v] => m_votedFor'[v] = m_votedFor[v]
              /\ m_currentTerm'[v] > m_currentTerm[v] => m_votedFor'[v] = NoVote,
           voteReq' \subseteq voteReq, voteRep' \subseteq voteRep,
           UNCHANGED <<votedNum, elected>>
    PROVE  VoteInv'
<1>1. \A v \in Server : m_currentTerm[v] \in Nat /\ m_currentTerm'[v] \in Nat
  BY DEF TypeOK, NodeTypeOK
<1>2. \A v, c \in Server, t \in Nat : Evidence(v, c, t)' => Evidence(v, c, t)
  BY <1>1, NoVoteAssumption DEF Evidence
<1>3. VotesRemembered'
  <2> SUFFICES ASSUME NEW v \in Server, NEW c \in Server, NEW t \in Nat, Evidence(v, c, t)'
               PROVE  t <= m_currentTerm'[v] /\ (t = m_currentTerm'[v] => m_votedFor'[v] = c)
    BY DEF VotesRemembered
  <2>1. t <= m_currentTerm[v] /\ (t = m_currentTerm[v] => m_votedFor[v] = c)
    BY <1>2 DEF VoteInv, VotesRemembered
  <2>2. QED
    BY <1>1, <2>1
<1>4. VotesUnique'
  BY <1>2 DEF VoteInv, VotesUnique
<1>5. CallsOfCandidates'
  <2>1. ASSUME NEW m \in VoteArgs, CandidateVoted(m) PROVE CandidateVoted(m)'
    BY <1>1, <2>1 DEF CandidateVoted, VoteArgs
  <2>2. voteReq \subseteq VoteArgs /\ \A r \in voteRep : r.args \in VoteArgs
    BY DEF TypeOK, VoteTypeOK, VoteReply
  <2>3. QED
    BY <2>1, <2>2 DEF VoteInv, CallsOfCandidates
<1>6. WonByMajority'
  BY DEF VoteInv, WonByMajority
<1>7. QED
  BY <1>3, <1>4, <1>5, <1>6 DEF VoteInv

\* A campaign: the candidate's own vote is the only new one, and it is the first of
\* its term.
LEMMA ElectionVotes ==
    ASSUME TypeOK, VoteInv, NEW s \in Server, electionTimeOutTicker(s)
    PROVE  VoteInv'
<1>1. /\ m_currentTerm' = [m_currentTerm EXCEPT ![s] = @ + 1]
      /\ m_votedFor' = [m_votedFor EXCEPT ![s] = s]
      /\ votedNum' = [votedNum EXCEPT ![s] = {s}]
      /\ voteReq' = voteReq \cup {RequestVoteArgs(s, i) : i \in Server \ {s}}
      /\ UNCHANGED <<voteRep, elected>>
  BY DEF electionTimeOutTicker, doElection
<1>2. /\ m_currentTerm \in [Server -> Nat] /\ m_votedFor \in [Server -> Server \cup {NoVote}]
      /\ votedNum \in [Server -> SUBSET Server]
  BY DEF TypeOK, NodeTypeOK, VoteTypeOK
<1>3. \A v, c \in Server, t \in Nat : Evidence(v, c, t)' =>
         Evidence(v, c, t) \/ (v = s /\ c = s /\ t = m_currentTerm[s] + 1)
  BY <1>1, <1>2 DEF Evidence
<1>4. \A c \in Server : ~Evidence(s, c, m_currentTerm[s] + 1)
  <2>1. m_currentTerm[s] + 1 \in Nat /\ ~(m_currentTerm[s] + 1 <= m_currentTerm[s])
    BY <1>2
  <2>2. QED
    BY <2>1 DEF VoteInv, VotesRemembered
<1>5. VotesRemembered'
  <2> SUFFICES ASSUME NEW v \in Server, NEW c \in Server, NEW t \in Nat, Evidence(v, c, t)'
               PROVE  t <= m_currentTerm'[v] /\ (t = m_currentTerm'[v] => m_votedFor'[v] = c)
    BY DEF VotesRemembered
  <2>1. CASE v = s /\ c = s /\ t = m_currentTerm[s] + 1
    BY <1>1, <1>2, <2>1
  <2>2. CASE Evidence(v, c, t)
    <3>1. t <= m_currentTerm[v] /\ (t = m_currentTerm[v] => m_votedFor[v] = c)
      BY <2>2 DEF VoteInv, VotesRemembered
    <3>2. QED
      BY <1>1, <1>2, <3>1
  <2>3. QED
    BY <1>3, <2>1, <2>2
<1>6. VotesUnique'
  BY <1>2, <1>3, <1>4 DEF VoteInv, VotesUnique
<1>7. CallsOfCandidates'
  <2>1. ASSUME NEW m \in VoteArgs, CandidateVoted(m) PROVE CandidateVoted(m)'
    BY <1>1, <1>2, <2>1 DEF CandidateVoted, VoteArgs
  <2>2. ASSUME NEW i \in Server \ {s}, NEW m, m = RequestVoteArgs(s, i)
        PROVE  CandidateVoted(m)'
    <3>1. m.caller = s /\ m.callee = i /\ m.term = m_currentTerm[s] + 1
      BY <2>2 DEF RequestVoteArgs
    <3>2. m_currentTerm'[s] = m_currentTerm[s] + 1 /\ m_votedFor'[s] = s
          /\ m_currentTerm[s] \in Nat
      BY <1>1, <1>2
    <3>3. QED
      BY <3>1, <3>2 DEF CandidateVoted
  <2>3. voteReq \subseteq VoteArgs /\ \A r \in voteRep : r.args \in VoteArgs
    BY DEF TypeOK, VoteTypeOK, VoteReply
  <2>4. QED
    BY <1>1, <2>1, <2>2, <2>3 DEF VoteInv, CallsOfCandidates
<1>8. WonByMajority'
  BY <1>1 DEF VoteInv, WonByMajority
<1>9. QED
  BY <1>5, <1>6, <1>7, <1>8 DEF VoteInv

\* A voter: a vote is given only if this term's vote is still free or already the
\* candidate's.
LEMMA RequestVoteVotes ==
    ASSUME TypeOK, VoteInv, NEW s \in Server, RequestVote(s)
    PROVE  VoteInv'
<1>1. PICK m \in voteReq : /\ m.callee = s
                           /\ voteReq' = voteReq \ {m}
                           /\ RejectVote(s, m) \/ DecideVote(s, m)
  BY DEF RequestVote
<1>2. UNCHANGED <<votedNum, elected>>
  BY DEF RequestVote
<1>3. /\ m_currentTerm \in [Server -> Nat] /\ m_votedFor \in [Server -> Server \cup {NoVote}]
      /\ votedNum \in [Server -> SUBSET Server]
      /\ m \in VoteArgs /\ m.term \in Nat /\ m.caller \in Server
  BY DEF TypeOK, NodeTypeOK, VoteTypeOK, VoteArgs
<1>4. CandidateVoted(m)
  BY DEF VoteInv, CallsOfCandidates
<1>5. voteReq \subseteq VoteArgs /\ \A r \in voteRep : r.args \in VoteArgs
  BY DEF TypeOK, VoteTypeOK, VoteReply
<1>6. CASE RejectVote(s, m)
  <2>1. /\ UNCHANGED <<m_currentTerm, m_votedFor>>
        /\ voteRep' = voteRep \cup
             {[args |-> m, term |-> m_currentTerm[s], votegranted |-> FALSE]}
    BY <1>6 DEF RejectVote, nodeVars
  <2>2. \A v, c \in Server, t \in Nat : Evidence(v, c, t)' => Evidence(v, c, t)
    BY <1>2, <2>1 DEF Evidence
  <2>3. VotesRemembered'
    BY <2>1, <2>2 DEF VoteInv, VotesRemembered
  <2>4. VotesUnique'
    BY <2>2 DEF VoteInv, VotesUnique
  <2>5. CallsOfCandidates'
    BY <1>1, <1>4, <2>1 DEF VoteInv, CallsOfCandidates, CandidateVoted
  <2>6. QED
    BY <1>2, <2>3, <2>4, <2>5 DEF VoteInv, WonByMajority
<1>7. CASE DecideVote(s, m)
  <2> DEFINE grant == UpToDate(s, m.lastlogindex, m.lastlogterm) /\ FreeToVote(s, m)
             reply == [args |-> m, term |-> m.term, votegranted |-> grant]
  <2>1. /\ m.term >= m_currentTerm[s]
        /\ m_currentTerm' = [m_currentTerm EXCEPT ![s] = m.term]
        /\ m_votedFor' = [m_votedFor EXCEPT ![s] = IF grant THEN m.caller ELSE VoteOfTerm(s, m)]
    BY <1>7, Zenon DEF DecideVote
  <2>2. voteRep' = voteRep \cup {reply}
    BY <1>7, Zenon DEF DecideVote
  <2>3. grant => VoteOfTerm(s, m) \in {NoVote, m.caller}
    BY DEF FreeToVote
  <2>4. /\ reply.args = m /\ reply.term = m.term
        /\ (reply.votegranted <=> grant)
    OBVIOUS
  <2> HIDE DEF grant, reply
  <2>5. \* the voter's state afterwards
        /\ m_currentTerm[s] <= m_currentTerm'[s] /\ m_currentTerm'[s] = m.term
        /\ m_currentTerm'[s] = m_currentTerm[s] =>
              m_votedFor'[s] = m_votedFor[s] \/ (m_votedFor[s] = NoVote /\ m_votedFor'[s] = m.caller)
        /\ grant => m_votedFor'[s] = m.caller
        /\ m_votedFor'[s] \in {NoVote, m.caller, m_votedFor[s]}
        /\ m_currentTerm'[s] > m_currentTerm[s] => m_votedFor'[s] \in {NoVote, m.caller}
        /\ \A v \in Server \ {s} : m_currentTerm'[v] = m_currentTerm[v] /\ m_votedFor'[v] = m_votedFor[v]
    BY <1>3, <2>1, <2>3 DEF VoteOfTerm
  <2>6. m.caller # s
    BY <1>1, <1>4 DEF CandidateVoted
  <2>7. \A v, c \in Server, t \in Nat : Evidence(v, c, t)' =>
           Evidence(v, c, t) \/ (grant /\ v = s /\ c = m.caller /\ t = m.term)
    <3> SUFFICES ASSUME NEW v \in Server, NEW c \in Server, NEW t \in Nat, Evidence(v, c, t)'
                 PROVE  Evidence(v, c, t) \/ (grant /\ v = s /\ c = m.caller /\ t = m.term)
      OBVIOUS
    <3>1. CASE \E r \in voteRep' :
                 r.votegranted /\ r.args.callee = v /\ r.args.caller = c /\ r.args.term = t
      BY <1>1, <2>2, <2>4, <3>1 DEF Evidence
    <3>2. CASE v \in votedNum'[c] /\ m_votedFor'[c] = c /\ m_currentTerm'[c] = t
      <4>1. c = s => m_currentTerm'[s] = m_currentTerm[s] /\ m_votedFor'[s] = m_votedFor[s]
        BY <1>3, <2>5, <2>6, <3>2, NoVoteAssumption
      <4>2. v \in votedNum[c] /\ m_votedFor[c] = c /\ m_currentTerm[c] = t
        BY <1>2, <2>5, <3>2, <4>1
      <4>3. QED
        BY <4>2 DEF Evidence
    <3>3. CASE \E e \in elected' : e.term = t /\ e.leader = c /\ v \in e.quorum
      BY <1>2, <3>3 DEF Evidence
    <3>4. QED
      BY <3>1, <3>2, <3>3 DEF Evidence
  <2>8. ASSUME NEW c \in Server, grant, Evidence(s, c, m.term) PROVE c = m.caller
    <3>1. m.term <= m_currentTerm[s] /\ (m.term = m_currentTerm[s] => m_votedFor[s] = c)
      BY <1>3, <2>8 DEF VoteInv, VotesRemembered
    <3>2. m_votedFor[s] = c /\ m.term = m_currentTerm[s]
      BY <1>3, <2>1, <3>1
    <3>3. QED
      BY <1>3, <2>3, <2>8, <3>2, NoVoteAssumption DEF VoteOfTerm
  <2>9. VotesRemembered'
    <3> SUFFICES ASSUME NEW v \in Server, NEW c \in Server, NEW t \in Nat, Evidence(v, c, t)'
                 PROVE  t <= m_currentTerm'[v] /\ (t = m_currentTerm'[v] => m_votedFor'[v] = c)
      BY DEF VotesRemembered
    <3>1. CASE grant /\ v = s /\ c = m.caller /\ t = m.term
      BY <1>3, <2>5, <3>1
    <3>2. CASE Evidence(v, c, t)
      <4>1. t <= m_currentTerm[v] /\ (t = m_currentTerm[v] => m_votedFor[v] = c)
        BY <3>2 DEF VoteInv, VotesRemembered
      <4>2. m_currentTerm'[v] >= m_currentTerm[v]
            /\ (m_currentTerm'[v] = m_currentTerm[v] /\ m_votedFor[v] = c => m_votedFor'[v] = c)
        BY <1>3, <2>5, NoVoteAssumption
      <4>3. m_currentTerm'[v] \in Nat /\ m_currentTerm[v] \in Nat
        BY <1>3, <2>5
      <4>4. QED
        BY <4>1, <4>2, <4>3
    <3>3. QED
      BY <2>7, <3>1, <3>2
  <2>10. VotesUnique'
    BY <1>3, <2>7, <2>8 DEF VoteInv, VotesUnique
  <2>11. CallsOfCandidates'
    <3>1. ASSUME NEW a \in VoteArgs, CandidateVoted(a) PROVE CandidateVoted(a)'
      BY <1>3, <2>5, <3>1, NoVoteAssumption DEF CandidateVoted, VoteArgs
    <3>2. QED
      BY <1>1, <1>4, <1>5, <2>2, <2>4, <3>1 DEF VoteInv, CallsOfCandidates
  <2>12. QED
    BY <1>2, <2>9, <2>10, <2>11 DEF VoteInv, WonByMajority
<1>8. QED
  BY <1>1, <1>6, <1>7

\* A candidate: counting an answer, and winning, moves the evidence of a vote from
\* the answer to the counter, and from the counter to the election won.
LEMMA CountVoteVotes ==
    ASSUME TypeOK, VoteInv, NEW s \in Server, NEW r \in voteRep,
           r.args.caller = s, voteRep' = voteRep \ {r}, UNCHANGED voteReq,
           r.term = m_currentTerm[s], r.votegranted, CountVote(s, r)
    PROVE  VoteInv'
<1> DEFINE counted == votedNum[s] \cup {r.args.callee}
           wins == Cardinality(counted) >= Majority
<1>1. UNCHANGED <<m_currentTerm, m_votedFor>>
  BY DEF CountVote, nodeVars
<1>2. /\ r.args.term = m_currentTerm[s] /\ m_votedFor[s] = s
      /\ m_currentTerm[s] \in Nat /\ r.args.callee \in Server
      /\ votedNum \in [Server -> SUBSET Server]
  <2>1. CandidateVoted(r.args) /\ r.term = r.args.term
    BY DEF VoteInv, CallsOfCandidates
  <2>2. QED
    BY <2>1 DEF CandidateVoted, TypeOK, NodeTypeOK, VoteTypeOK, VoteReply, VoteArgs
<1>3. \A v \in counted : Evidence(v, s, m_currentTerm[s])
  BY <1>2 DEF Evidence
<1>4. /\ \/ votedNum' = votedNum \/ votedNum' = [votedNum EXCEPT ![s] = counted]
         \/ votedNum' = [votedNum EXCEPT ![s] = {}]
      /\ \/ elected' = elected
         \/ /\ wins
            /\ elected' = elected \cup
                  {[term |-> m_currentTerm[s], leader |-> s, quorum |-> counted]}
  <2>1. CASE wins /\ m_status[s] = "Leader"
    BY <2>1 DEF CountVote
  <2>2. CASE ~(wins /\ m_status[s] = "Leader")
    <3>1. /\ votedNum' = [votedNum EXCEPT ![s] = Tally(counted)]
          /\ elected' = elected \cup
                (IF wins THEN {[term |-> m_currentTerm[s], leader |-> s, quorum |-> counted]}
                 ELSE {})
      BY <2>2 DEF CountVote
    <3>2. QED
      BY <3>1 DEF Tally
  <2>3. QED
    BY <2>1, <2>2
<1> HIDE DEF counted, wins
<1>5. \A v, c \in Server, t \in Nat : Evidence(v, c, t)' => Evidence(v, c, t)
  <2> SUFFICES ASSUME NEW v \in Server, NEW c \in Server, NEW t \in Nat, Evidence(v, c, t)'
               PROVE  Evidence(v, c, t)
    OBVIOUS
  <2>1. CASE \E q \in voteRep' :
               q.votegranted /\ q.args.callee = v /\ q.args.caller = c /\ q.args.term = t
    BY <2>1 DEF Evidence
  <2>2. CASE v \in votedNum'[c] /\ m_votedFor'[c] = c /\ m_currentTerm'[c] = t
    <3>1. v \in votedNum[c] \/ (c = s /\ v \in counted)
      BY <1>2, <1>4, <2>2
    <3>2. QED
      BY <1>1, <1>3, <2>2, <3>1 DEF Evidence
  <2>3. CASE \E e \in elected' : e.term = t /\ e.leader = c /\ v \in e.quorum
    <3>1. (\E e \in elected : e.term = t /\ e.leader = c /\ v \in e.quorum)
          \/ (t = m_currentTerm[s] /\ c = s /\ v \in counted)
      BY <1>4, <2>3
    <3>2. QED
      BY <1>3, <3>1 DEF Evidence
  <2>4. QED
    BY <2>1, <2>2, <2>3 DEF Evidence
<1>6. VotesRemembered'
  BY <1>1, <1>5 DEF VoteInv, VotesRemembered
<1>7. VotesUnique'
  BY <1>5 DEF VoteInv, VotesUnique
<1>8. CallsOfCandidates'
  BY <1>1 DEF VoteInv, CallsOfCandidates, CandidateVoted
<1>9. WonByMajority'
  BY <1>4 DEF VoteInv, WonByMajority, wins, Majority
<1>10. QED
  BY <1>6, <1>7, <1>8, <1>9 DEF VoteInv

\* What the steps other than elections do to terms and votes.
LEMMA TermsAdvance ==
    ASSUME TypeOK, NEW s \in Server, NEW t \in Nat, t >= m_currentTerm[s],
           \/ t > m_currentTerm[s] /\ StepDown(s, t)
           \/ FollowCaller(s, t)
           \/ UNCHANGED <<m_currentTerm, m_votedFor>>
    PROVE  \A v \in Server :
              /\ m_currentTerm'[v] >= m_currentTerm[v]
              /\ m_currentTerm'[v] = m_currentTerm[v] => m_votedFor'[v] = m_votedFor[v]
              /\ m_currentTerm'[v] > m_currentTerm[v] => m_votedFor'[v] = NoVote
BY DEF TypeOK, NodeTypeOK, StepDown, FollowCaller

\* An answer is dropped, makes its caller step down, or is counted.
LEMMA SendRequestVoteVotes ==
    ASSUME TypeOK, TypeOK', VoteInv, NEW s \in Server, sendRequestVote(s)
    PROVE  VoteInv'
<1>1. PICK r \in voteRep :
        /\ r.args.caller = s
        /\ voteRep' = voteRep \ {r}
        /\ \/ /\ r.term > m_currentTerm[s]
              /\ StepDown(s, r.term)
              /\ UNCHANGED <<votedNum, elected>>
           \/ UNCHANGED <<nodeVars, votedNum, elected>>
           \/ r.term = m_currentTerm[s] /\ r.votegranted /\ CountVote(s, r)
  BY DEF sendRequestVote
<1>2. UNCHANGED voteReq
  BY DEF sendRequestVote
<1>3. r.term \in Nat /\ m_currentTerm[s] \in Nat
  BY DEF TypeOK, VoteTypeOK, NodeTypeOK, VoteReply
<1>4. CASE r.term > m_currentTerm[s] /\ StepDown(s, r.term) /\ UNCHANGED <<votedNum, elected>>
  <2>1. r.term >= m_currentTerm[s]
    BY <1>3, <1>4
  <2>2. QED
    BY <1>1, <1>2, <1>3, <1>4, <2>1, TermsAdvance, NoVoteGiven
<1>5. CASE UNCHANGED <<nodeVars, votedNum, elected>>
  <2>1. UNCHANGED <<m_currentTerm, m_votedFor>>
    BY <1>5 DEF nodeVars
  <2>2. m_currentTerm[s] >= m_currentTerm[s]
    BY <1>3
  <2>3. QED
    BY <1>1, <1>2, <1>3, <1>5, <2>1, <2>2, TermsAdvance, NoVoteGiven
<1>6. CASE r.term = m_currentTerm[s] /\ r.votegranted /\ CountVote(s, r)
  BY <1>1, <1>2, <1>6, CountVoteVotes
<1>7. QED
  BY <1>1, <1>4, <1>5, <1>6

\* All other steps.
LEMMA OtherStepsVotes ==
    ASSUME TypeOK, TypeOK', VoteInv, NEW s \in Server,
           ReplicationStep(s) \/ SnapshotStep(s) \/ CallFails(s)
    PROVE  VoteInv'
<1>1. m_currentTerm[s] \in Nat /\ m_currentTerm[s] >= m_currentTerm[s]
  BY DEF TypeOK, NodeTypeOK
<1>2. CASE UNCHANGED <<nodeVars, voteVars>>
  BY <1>1, <1>2, TermsAdvance, NoVoteGiven DEF nodeVars, voteVars
<1>3. ASSUME NEW c \in Command, Start(s, c) PROVE UNCHANGED <<nodeVars, voteVars>>
  BY <1>3 DEF Start
<1>4. leaderHearBeatTicker(s) => UNCHANGED <<nodeVars, voteVars>>
  BY DEF leaderHearBeatTicker, doHeartBeat
<1>5. CASE AppendEntries1(s)
  <2>1. PICK m \in appendReq :
          \/ UNCHANGED nodeVars
          \/ m.term >= m_currentTerm[s] /\ FollowCaller(s, m.term)
    <3>1. \A m : AcceptAppend(s, m) =>
            UNCHANGED nodeVars \/ (m.term >= m_currentTerm[s] /\ FollowCaller(s, m.term))
      BY DEF AcceptAppend
    <3>2. QED
      BY <1>5, <3>1 DEF AppendEntries1, RejectStaleAppend, RejectGap, FailInMatchLog, RejectMismatch
  <2>2. m.term \in Nat /\ UNCHANGED voteVars
    BY <1>5 DEF TypeOK, AppendTypeOK, AppendArgs, AppendEntries1
  <2>3. CASE m.term >= m_currentTerm[s] /\ FollowCaller(s, m.term)
    BY <2>2, <2>3, TermsAdvance, NoVoteGiven DEF voteVars
  <2>4. QED
    BY <1>2, <2>1, <2>2, <2>3
<1>6. CASE sendAppendEntries(s)
  <2>1. PICK r \in appendRep :
          \/ UNCHANGED nodeVars
          \/ r.term > m_currentTerm[s] /\ StepDown(s, r.term)
    BY <1>6 DEF sendAppendEntries
  <2>2. r.term \in Nat /\ UNCHANGED voteVars
    BY <1>6 DEF TypeOK, AppendTypeOK, AppendReply, sendAppendEntries
  <2>3. CASE r.term > m_currentTerm[s] /\ StepDown(s, r.term)
    <3>1. r.term >= m_currentTerm[s]
      BY <1>1, <2>2, <2>3
    <3>2. QED
      BY <2>2, <2>3, <3>1, TermsAdvance, NoVoteGiven DEF voteVars
  <2>4. QED
    BY <1>2, <2>1, <2>2, <2>3
<1>7. applierTicker(s) => UNCHANGED <<nodeVars, voteVars>>
  BY DEF applierTicker
<1>8. ASSUME NEW i \in 1..MaxSnapshotIndex, Snapshot(s, i) PROVE UNCHANGED <<nodeVars, voteVars>>
  BY <1>8 DEF Snapshot
<1>9. SendSnapShot(s) \/ ConnectionClosed(s) => UNCHANGED <<nodeVars, voteVars>>
  BY DEF SendSnapShot, ConnectionClosed
<1>10. CASE InstallSnapshot(s)
  <2>1. PICK m \in snapReq :
          \/ UNCHANGED nodeVars
          \/ m.term >= m_currentTerm[s] /\ FollowCaller(s, m.term)
    BY <1>10 DEF InstallSnapshot, IgnoreSnapshot, TakeSnapshot
  <2>2. m.term \in Nat /\ UNCHANGED voteVars
    BY <1>10 DEF TypeOK, SnapTypeOK, SnapArgs, InstallSnapshot
  <2>3. CASE m.term >= m_currentTerm[s] /\ FollowCaller(s, m.term)
    BY <2>2, <2>3, TermsAdvance, NoVoteGiven DEF voteVars
  <2>4. QED
    BY <1>2, <2>1, <2>2, <2>3
<1>11. CASE leaderSendSnapShot(s)
  <2>1. PICK r \in snapRep :
          \/ UNCHANGED nodeVars
          \/ r.term > m_currentTerm[s] /\ StepDown(s, r.term)
    BY <1>11 DEF leaderSendSnapShot
  <2>2. r.term \in Nat /\ UNCHANGED voteVars
    BY <1>11 DEF TypeOK, SnapTypeOK, SnapReply, leaderSendSnapShot
  <2>3. CASE r.term > m_currentTerm[s] /\ StepDown(s, r.term)
    <3>1. r.term >= m_currentTerm[s]
      BY <1>1, <2>2, <2>3
    <3>2. QED
      BY <2>2, <2>3, <3>1, TermsAdvance, NoVoteGiven DEF voteVars
  <2>4. QED
    BY <1>2, <2>1, <2>2, <2>3
<1>12. CASE CallFails(s)
  <2>1. /\ UNCHANGED <<m_currentTerm, m_votedFor, votedNum, elected>>
        /\ voteReq' \subseteq voteReq /\ voteRep' \subseteq voteRep
    BY <1>12 DEF CallFails, nodeVars
  <2>2. QED
    BY <1>1, <2>1, TermsAdvance, NoVoteGiven
<1>13. QED
  BY <1>2, <1>3, <1>4, <1>5, <1>6, <1>7, <1>8, <1>9, <1>10, <1>11, <1>12
    DEF ReplicationStep, SnapshotStep

\* TypeInv and VoteInv together are inductive.
THEOREM VoteInvariant == Spec => [](TypeInv /\ VoteInv)
<1>1. Init => TypeInv /\ VoteInv
  BY InitTypeInv, InitVoteInv
<1>2. ASSUME TypeInv, VoteInv, [Next]_vars PROVE TypeInv' /\ VoteInv'
  <2>1. TypeOK /\ TypeInv' /\ TypeOK'
    BY <1>2, NextTypeInv DEF TypeInv
  <2>2. CASE UNCHANGED vars
    <3>1. /\ UNCHANGED <<m_currentTerm, m_votedFor, votedNum, elected>>
          /\ voteReq' \subseteq voteReq /\ voteRep' \subseteq voteRep
      BY <2>2 DEF vars, nodeVars, voteVars
    <3>2. \A v \in Server : m_currentTerm[v] \in Nat
      BY <2>1 DEF TypeOK, NodeTypeOK
    <3>3. QED
      BY <1>2, <2>1, <3>1, <3>2, NoVoteGiven
  <2>3. CASE Next
    <3>1. PICK s \in Server :
            ElectionStep(s) \/ ReplicationStep(s) \/ SnapshotStep(s) \/ CallFails(s)
      BY <2>3 DEF Next
    <3>2. CASE ElectionStep(s)
      BY <1>2, <2>1, <3>2, ElectionVotes, RequestVoteVotes, SendRequestVoteVotes DEF ElectionStep
    <3>3. CASE ReplicationStep(s) \/ SnapshotStep(s) \/ CallFails(s)
      BY <1>2, <2>1, <3>3, OtherStepsVotes
    <3>4. QED
      BY <2>1, <3>1, <3>2, <3>3
  <2>4. QED
    BY <1>2, <2>1, <2>2, <2>3
<1>3. QED
  BY <1>1, <1>2, PTL DEF Spec

\* At most one server wins the election of a term: two winners would share a voter.
THEOREM OneLeaderPerTerm == Spec => []ElectionSafety
<1>1. TypeInv /\ VoteInv => ElectionSafety
  <2> SUFFICES ASSUME TypeInv, VoteInv, NEW e \in elected, NEW f \in elected, e.term = f.term
               PROVE  e.leader = f.leader
    BY DEF ElectionSafety
  <2>1. /\ e.quorum \subseteq Server /\ f.quorum \subseteq Server
        /\ e.leader \in Server /\ f.leader \in Server /\ e.term \in Nat
    BY DEF TypeInv, TypeOK, VoteTypeOK
  <2>2. Cardinality(Server) \in Nat /\ Cardinality(e.quorum) \in Nat /\ Cardinality(f.quorum) \in Nat
    BY <2>1, ServerAssumption, FS_CardinalityType, FS_Subset
  <2>3. Cardinality(e.quorum) >= Cardinality(Server) \div 2 + 1
        /\ Cardinality(f.quorum) >= Cardinality(Server) \div 2 + 1
    BY DEF VoteInv, WonByMajority, Majority
  <2>4. Cardinality(e.quorum) + Cardinality(f.quorum) > Cardinality(Server)
    BY <2>2, <2>3
  <2>5. PICK v \in Server : v \in e.quorum /\ v \in f.quorum
    BY <2>1, <2>4, ServerAssumption, FS_MajoritiesIntersect
  <2>6. Evidence(v, e.leader, e.term) /\ Evidence(v, f.leader, e.term)
    BY <2>5 DEF Evidence
  <2>7. QED
    BY <2>1, <2>6 DEF VoteInv, VotesUnique
<1>2. QED
  BY <1>1, VoteInvariant, PTL
=============================================================================
