------------------------------- MODULE MCRaft -------------------------------
(***************************************************************************)
(* Instances of Raft for TLC.                                              *)
(***************************************************************************)
EXTENDS RaftProperties, FiniteSetsExt, TLC

\* Bound on the calls and snapshot threads in flight at one time.
CONSTANT MaxInFlight

InFlight ==
    Cardinality(voteReq) + Cardinality(voteRep) + Cardinality(appendReq)
    + Cardinality(appendRep) + Cardinality(snapThread) + Cardinality(snapReq)
    + Cardinality(snapRep)

BoundedInFlight == InFlight <= MaxInFlight

\* For the runs about replication: two servers do not campaign in one term.
UncontestedElections ==
    \A s, t \in Server :
        m_votedFor[s] = s /\ m_votedFor[t] = t /\ m_currentTerm[s] = m_currentTerm[t] => s = t

\* Bound on the heartbeat rounds of all servers together.
CONSTANT MaxRounds
BoundedRounds == MapThenSumSet(LAMBDA s : round[s], Server) <= MaxRounds

\* First rounds and elections in full, what comes after them in outline: five calls
\* in flight until the first command or heartbeat of two contested terms, then
\* two, and three terms.
ElectionsInFull ==
    IF \A s \in Server : m_currentTerm[s] <= 2 /\ round[s] = 0 /\ m_logs[s] = <<>>
    THEN InFlight <= MaxInFlight
    ELSE InFlight <= 2 /\ UncontestedElections

\* Three rounds and three calls in flight with one leader and one command, then two
\* of each, with a second leader or a second command.
SnapshotsInFull ==
    LET oneTerm == \A s \in Server : m_currentTerm[s] <= 1
        oneEntry == \A s \in Server : getLastLogIndex(s) <= 1
    IN
    IF oneTerm /\ oneEntry
    THEN InFlight <= MaxInFlight
    ELSE /\ oneTerm \/ oneEntry
         /\ InFlight <= 2
         /\ MapThenSumSet(LAMBDA s : round[s], Server) <= 2

\* For the long counterexample: elections and heartbeats do not overlap, and only
\* the leader of term 2 sends heartbeats.
AlmostSequential ==
    /\ InFlight <= 2
    /\ voteReq # {} \/ voteRep # {} => appendReq = {} /\ appendRep = {}
    /\ \A m \in appendReq : m.term = 2

\* Servers are interchangeable, and so are commands.
Symmetry == Permutations(Server) \cup Permutations(Command)
=============================================================================
