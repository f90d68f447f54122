----------------------------- MODULE KvSnapshot -----------------------------
(***************************************************************************)
(* How a snapshot travels: the apply loop of a KvServer takes it, Persister*)
(* keeps it, the leader reads it back for a follower that is too far       *)
(* behind, and the follower's Raft hands it to its KvServer, through the   *)
(* same applyChan as commands but by a thread of its own.                  *)
(*                                                                         *)
(* There is one leader and no change of term: module Raft has those.  What *)
(* is in the logs, and how far a server knows it to be committed, is       *)
(* external.  Command i puts a value of its own under a key of its own.    *)
(***************************************************************************)
EXTENDS Naturals, Sequences, FiniteSets, FiniteSetsExt, TLC

CONSTANTS
    Server, Leader,
    MaxIndex,       \* bound on the commands
    MaxRequests     \* bound on the calls of InstallSnapshot under way

VARIABLES
    m_commitIndex, m_lastApplied, m_lastSnapshotIncludeIndex,
    m_nextIndex,                    \* the leader's, of each follower
    m_snapshotFile,                 \* Persister: the words in the file
    applyMsgs,                      \* what applierTicker has taken and not yet pushed
    detached,                       \* threads with a message for applyChan
    applyChan,
    m_skipList,                     \* a function from the keys present to their values
    m_lastSnapShotRaftLogIndex,
    requests,                       \* calls of InstallSnapshot on their way
    alive,
    handled                         \* history: the last index the KvServer has handled

raftVars == <<m_commitIndex, m_lastApplied, m_lastSnapshotIncludeIndex, m_nextIndex, requests>>
chanVars == <<applyMsgs, detached, applyChan>>
kvVars == <<m_skipList, m_lastSnapShotRaftLogIndex, alive, handled>>
vars == <<raftVars, m_snapshotFile, chanVars, kvVars>>

Follower == Server \ {Leader}
ValueOf(i) == <<"value", i>>
Largest(a, b) == Max({a, b})

Init ==
    /\ m_commitIndex = [s \in Server |-> 0]
    /\ m_lastApplied = [s \in Server |-> 0]
    /\ m_lastSnapshotIncludeIndex = [s \in Server |-> 0]
    /\ m_nextIndex = [s \in Follower |-> 1]
    /\ m_snapshotFile = [s \in Server |-> <<>>]
    /\ applyMsgs = [s \in Server |-> <<>>]
    /\ detached = [s \in Server |-> {}]
    /\ applyChan = [s \in Server |-> <<>>]
    /\ m_skipList = [s \in Server |-> <<>>]
    /\ m_lastSnapShotRaftLogIndex = [s \in Server |-> 0]
    /\ requests = {}
    /\ alive = [s \in Server |-> TRUE]
    /\ handled = [s \in Server |-> 0]

-----------------------------------------------------------------------------
(* Raft, as far as it is external here, and what it sends to applyChan.    *)

CommandMsg(i) == [CommandValid |-> TRUE, CommandIndex |-> i]
SnapshotMsg(i, data) == [CommandValid |-> FALSE, SnapshotIndex |-> i, Snapshot |-> data]

\* One more entry is known to be committed; a follower has been sent it, which the
\* leader can do only for entries after its snapshot.
Commit(s) ==
    /\ alive[s] /\ m_commitIndex[s] < MaxIndex
    /\ s # Leader => /\ m_commitIndex[s] < m_commitIndex[Leader]
                     /\ m_commitIndex[s] >= m_lastSnapshotIncludeIndex[Leader]
    /\ m_commitIndex' = [m_commitIndex EXCEPT ![s] = @ + 1]
    /\ m_nextIndex' = [f \in Follower |-> IF f = s THEN m_commitIndex[s] + 2 ELSE m_nextIndex[f]]
    /\ UNCHANGED <<m_lastApplied, m_lastSnapshotIncludeIndex, requests, m_snapshotFile, chanVars, kvVars>>

\* applierTicker under the lock.
getApplyLogs(s) ==
    LET first == m_lastApplied[s] + 1 IN
    /\ alive[s] /\ applyMsgs[s] = <<>>
    /\ first <= m_commitIndex[s]
    /\ applyMsgs' = [applyMsgs EXCEPT ![s] =
           [j \in 1 .. (m_commitIndex[s] - first + 1) |-> CommandMsg(first + j - 1)]]
    /\ m_lastApplied' = [m_lastApplied EXCEPT ![s] = m_commitIndex[s]]
    /\ UNCHANGED <<m_commitIndex, m_lastSnapshotIncludeIndex, m_nextIndex, requests, m_snapshotFile,
                   detached, applyChan, kvVars>>

\* ... and after it.
applierPushes(s) ==
    /\ alive[s] /\ applyMsgs[s] # <<>>
    /\ applyChan' = [applyChan EXCEPT ![s] = Append(@, Head(applyMsgs[s]))]
    /\ applyMsgs' = [applyMsgs EXCEPT ![s] = Tail(@)]
    /\ UNCHANGED <<raftVars, m_snapshotFile, detached, kvVars>>

pushMsgToKvServer(s) ==
    /\ alive[s]
    /\ \E msg \in detached[s] :
        /\ applyChan' = [applyChan EXCEPT ![s] = Append(@, msg)]
        /\ detached' = [detached EXCEPT ![s] = @ \ {msg}]
    /\ UNCHANGED <<raftVars, m_snapshotFile, applyMsgs, kvVars>>

-----------------------------------------------------------------------------
(* Persister.  A snapshot is a text of several words.                      *)

\* getSnapshotData: the archive, which begins with the length of its signature.
Archive(store) == <<"22", "serialization::archive", store>>

\* Persister::Save; the stream buffers, but whoever reads the file closes it first.
Save(s, data) == m_snapshotFile' = [m_snapshotFile EXCEPT ![s] = data]

\* ReadSnapshot reads up to the first space ...
ReadSnapshot(s) == SubSeq(m_snapshotFile[s], 1, Min({1, Len(m_snapshotFile[s])}))

\* ... and opens the file for writing again, which empties it.
EmptySnapshotFile(s) == m_snapshotFile' = [m_snapshotFile EXCEPT ![s] = <<>>]

-----------------------------------------------------------------------------
(* Sending and installing.                                                 *)

leaderSendSnapShot(f) ==
    /\ alive[Leader] /\ Cardinality(requests) < MaxRequests
    /\ m_nextIndex[f] <= m_lastSnapshotIncludeIndex[Leader]
    /\ requests' = requests \cup {[to |-> f, index |-> m_lastSnapshotIncludeIndex[Leader],
                                   data |-> ReadSnapshot(Leader)]}
    /\ EmptySnapshotFile(Leader)
    /\ UNCHANGED <<m_commitIndex, m_lastApplied, m_lastSnapshotIncludeIndex, m_nextIndex, chanVars, kvVars>>

\* Raft::InstallSnapshot, and its answer at the leader.
InstallSnapshot(r) ==
    LET f == r.to IN
    /\ alive[f]
    /\ requests' = requests \ {r}
    /\ m_nextIndex' = [m_nextIndex EXCEPT ![f] = r.index + 1]
    /\ IF r.index <= m_lastSnapshotIncludeIndex[f]
       THEN UNCHANGED <<m_commitIndex, m_lastApplied, m_lastSnapshotIncludeIndex, detached, m_snapshotFile>>
       ELSE /\ m_commitIndex' = [m_commitIndex EXCEPT ![f] = Largest(@, r.index)]
            /\ m_lastApplied' = [m_lastApplied EXCEPT ![f] = Largest(@, r.index)]
            /\ m_lastSnapshotIncludeIndex' = [m_lastSnapshotIncludeIndex EXCEPT ![f] = r.index]
            /\ detached' = [detached EXCEPT ![f] = @ \cup {SnapshotMsg(r.index, r.data)}]
            /\ Save(f, r.data)
    /\ UNCHANGED <<applyMsgs, applyChan, kvVars>>

-----------------------------------------------------------------------------
(* KvServer::ReadRaftApplyCommandLoop.                                     *)

Pop(s) ==
    /\ alive[s] /\ applyChan[s] # <<>>
    /\ applyChan' = [applyChan EXCEPT ![s] = Tail(@)]
    /\ UNCHANGED <<applyMsgs, detached>>

\* IfNeedToSendSnapShotCommand, MakeSnapShot and Raft::Snapshot, when the state is
\* large enough (the size in bytes is not modelled).
TakeSnapshot(s, i, store) ==
    \/ UNCHANGED <<m_lastSnapshotIncludeIndex, m_snapshotFile>>
    \/ /\ m_lastSnapshotIncludeIndex[s] < i /\ i <= m_commitIndex[s]
       /\ m_lastSnapshotIncludeIndex' = [m_lastSnapshotIncludeIndex EXCEPT ![s] = i]
       /\ Save(s, Archive(store))

GetCommandFromRaft(s) ==
    LET i == Head(applyChan[s]).CommandIndex
        store == (i :> ValueOf(i)) @@ m_skipList[s]
    IN
    /\ Pop(s) /\ Head(applyChan[s]).CommandValid
    /\ IF i <= m_lastSnapShotRaftLogIndex[s]
       THEN UNCHANGED <<m_skipList, handled, m_lastSnapshotIncludeIndex, m_snapshotFile>>
       ELSE /\ m_skipList' = [m_skipList EXCEPT ![s] = store]
            /\ handled' = [handled EXCEPT ![s] = Largest(@, i)]
            /\ TakeSnapshot(s, i, store)
    /\ UNCHANGED <<m_commitIndex, m_lastApplied, m_nextIndex, requests, m_lastSnapShotRaftLogIndex, alive>>

\* ReadSnapShotToInstall: an empty snapshot is skipped; reading an archive that ends
\* too early throws, and nobody catches it; load_file adds the keys that are missing,
\* with themselves as values.
GetSnapShotFromRaft(s) ==
    LET msg == Head(applyChan[s]) IN
    /\ Pop(s) /\ ~msg.CommandValid
    /\ CASE msg.Snapshot = <<>> ->
              UNCHANGED <<m_skipList, alive>>
         [] Len(msg.Snapshot) \in 1 .. 2 ->
              alive' = [alive EXCEPT ![s] = FALSE] /\ UNCHANGED m_skipList
         [] OTHER ->
              /\ m_skipList' = [m_skipList EXCEPT ![s] = @ @@ [k \in DOMAIN msg.Snapshot[3] |-> k]]
              /\ UNCHANGED alive
    /\ m_lastSnapShotRaftLogIndex' = [m_lastSnapShotRaftLogIndex EXCEPT ![s] = msg.SnapshotIndex]
    /\ handled' = [handled EXCEPT ![s] = Largest(@, msg.SnapshotIndex)]
    /\ UNCHANGED <<raftVars, m_snapshotFile>>

Next ==
    \/ \E s \in Server :
        \/ Commit(s) \/ getApplyLogs(s) \/ applierPushes(s) \/ pushMsgToKvServer(s)
        \/ GetCommandFromRaft(s) \/ GetSnapShotFromRaft(s)
    \/ \E f \in Follower : leaderSendSnapShot(f)
    \/ \E r \in requests : InstallSnapshot(r)

Spec == Init /\ [][Next]_vars

\* A KvServer that has handled the commands or the snapshot up to some index has
\* executed every command up to it: a snapshot brings what the log no longer has
\* (kvServer.cpp:297-303), whatever order it arrives in with the commands after it.
RunningServersHaveAll ==
    \A s \in Server : alive[s] => m_skipList[s] = [k \in 1 .. handled[s] |-> ValueOf(k)]
=============================================================================
