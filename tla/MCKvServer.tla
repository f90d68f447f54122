----------------------------- MODULE MCKvServer -----------------------------
(***************************************************************************)
(* Instances of KvServer for TLC.                                          *)
(***************************************************************************)
EXTENDS KvServerProperties

\* Clerks of one process draw different ids.
OwnIds == [c \in Clerk |-> c]

\* The requests that are Gets.
Gets == {op \in {clerk[c].op : c \in Clerk} \cup UNION {Range(raftLog[s]) : s \in Server} :
            op # Nothing /\ ~IsWrite(op)}

Alone == \E c \in Clerk : \A d \in Clerk \ {c} : clerk[d].m_requestId = 0

Logged(n) == \A s \in Server : Len(raftLog[s]) <= n

\* Four situations: one clerk whose calls fail, under one leader; the same with a
\* longer log, the first request being a Get and the leader staying one: a late Get
\* takes an id back here, and the copy of a write that is executed again fits into the
\* log; one clerk and two leaders; and two clerks that compete in writing.
Failing == Alone /\ elections <= 1 /\ Logged(3)
Late ==
    /\ Alone /\ elections <= 1
    /\ \A s \in Server : isLeader[s] <=> elections = 1 /\ s = 0
    /\ \A c \in Clerk : clerk[c].m_requestId # 0 => {op.RequestId : op \in Gets} = {1}
Electing == Alone /\ failures = 0 /\ Logged(3)
Competing ==
    /\ failures = 0 /\ Gets = {}
    /\ \A c \in Clerk : clerk[c].m_requestId <= 1
    /\ Logged(2)
    /\ Cardinality({s \in Server : Len(raftLog[s]) = 2}) <= 1

Situations == Failing \/ Late \/ Electing \/ Competing

\* Clerks are interchangeable, each with its own id.
Symmetry == Permutations(Clerk)
=============================================================================
