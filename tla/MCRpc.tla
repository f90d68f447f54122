------------------------------- MODULE MCRpc -------------------------------
(***************************************************************************)
(* Instances of the RPC layer for TLC.                                     *)
(***************************************************************************)
EXTENDS RpcProperties, TLC

CONSTANTS c1, c2

Kv(method) == [service |-> "kvServerRpc", method |-> method,
               args |-> [Clear(kvServerRpc[method].request) EXCEPT !.Key = <<Text("k")>>, !.RequestId = 1]]
RaftCall(method, term) == [service |-> "raftRpc", method |-> method,
                           args |-> [Clear(raftRpc[method].request) EXCEPT !.Term = term]]
GetFriendsList == [service |-> "FiendServiceRpc", method |-> "GetFriendsList", args |-> [userid |-> 1000]]

\* Answers for each method that differ.  One of Get is longer than RecvSize, and the one of
\* InstallSnapshot to an old snapshot is empty; GetReply and GetFriendsListResponse have
\* several fields with a length.
MCReplies(service, method) ==
    CASE method = "Get" -> {[Err |-> <<Text("OK")>>, Value |-> <<Text("v"), Text("w")>>],
                            [Err |-> <<Text("OK")>>, Value |-> [i \in 1 .. RecvSize |-> Text("x")]],
                            [Err |-> <<Text("ErrNoKey")>>, Value |-> <<>>]}
      [] method = "PutAppend" -> {[Err |-> <<Text("OK")>>], [Err |-> <<Text("ErrWrongLeader")>>]}
      [] method = "AppendEntries" -> {[Term |-> 1, Success |-> s, UpdateNextIndex |-> 3, AppState |-> 1] : s \in BOOLEAN}
      [] method = "RequestVote" -> {[Term |-> 1, VoteGranted |-> TRUE, VoteState |-> 3],
                                    [Term |-> 2, VoteGranted |-> FALSE, VoteState |-> 2]}
      [] method = "InstallSnapshot" -> {[Term |-> t] : t \in {0, 1}}
      [] method = "GetFriendsList" -> {[result |-> <<[errcode |-> 0, errmsg |-> <<>>]>>,
                                        friends |-> <<<<Text("gao yang")>>, <<Text("liu hong")>>>>]}

\* Two clerks with a channel each, connected when they need it.
Clerks ==
    [channelOf |-> c1 :> 1 @@ c2 :> 2, connectNow |-> {}, split |-> FALSE, maxAnswer |-> RecvSize, mayClose |-> TRUE,
     calls |-> c1 :> <<Kv("PutAppend"), Kv("Get")>> @@ c2 :> <<Kv("Get")>>]

\* One thread after the other uses the channel of a peer of Raft.
OneByOne ==
    [channelOf |-> c1 :> 1 @@ c2 :> 2, connectNow |-> {1}, split |-> FALSE, maxAnswer |-> RecvSize, mayClose |-> TRUE,
     calls |-> c1 :> <<RaftCall("RequestVote", 1), RaftCall("AppendEntries", 1), RaftCall("InstallSnapshot", 1)>>
               @@ c2 :> <<>>]

\* The example, while the network splits requests and answers.
Split ==
    [channelOf |-> c1 :> 1 @@ c2 :> 2, connectNow |-> {1}, split |-> TRUE, maxAnswer |-> RecvSize, mayClose |-> TRUE,
     calls |-> c1 :> <<GetFriendsList, GetFriendsList>> @@ c2 :> <<>>]

\* A clerk reads values of which some are longer than what one recv takes.
LongValues ==
    [channelOf |-> c1 :> 1 @@ c2 :> 2, connectNow |-> {}, split |-> FALSE, maxAnswer |-> 2 * RecvSize, mayClose |-> FALSE,
     calls |-> c1 :> <<Kv("Get"), Kv("Get"), Kv("Get")>> @@ c2 :> <<>>]

\* Two threads of Raft call the same peer, as when a heartbeat is due before the last
\* one has been answered.
Heartbeats ==
    [channelOf |-> c1 :> 1 @@ c2 :> 1, connectNow |-> {1}, split |-> FALSE, maxAnswer |-> RecvSize, mayClose |-> FALSE,
     calls |-> c1 :> <<RaftCall("AppendEntries", 1)>> @@ c2 :> <<RaftCall("AppendEntries", 2)>>]

AllSetups == {Clerks, OneByOne, Split, LongValues, Heartbeats}
Shared == {Heartbeats}

\* With these setups OwnAnswer is violated, too.
Long == {LongValues}
=============================================================================
