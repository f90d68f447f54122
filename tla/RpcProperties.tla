--------------------------- MODULE RpcProperties ---------------------------
(***************************************************************************)
(* What the RPC layer promises to Raft and to the clerks.                  *)
(***************************************************************************)
EXTENDS Rpc

\* What the code relies on for a call to get its own answer: a channel is used by one
\* thread, requests and answers arrive in one piece, and one recv takes a whole answer.
\* Nothing in the code sees to any of it.
Reliable ==
    /\ \A c, d \in Caller : setup.channelOf[c] = setup.channelOf[d] => c = d
    /\ ~setup.split
    /\ setup.maxAnswer <= RecvSize

\* Under these conditions there is nothing on the channel's connection between two calls
\* that belongs to an earlier one, however it has ended: a failed recv gives the
\* connection up (mprpcchannel.cpp:91-98).
NothingLeftBehind ==
    Reliable =>
    \A c \in Caller :
        pc[c] = "idle" /\ Fd(c) # NoFd
        => /\ toClient[Fd(c)] = <<>>
           /\ toServer[Fd(c)] = <<>>
           /\ handling[Fd(c)] = None

\* A call returns the answer the server has given to its own request, the empty
\* message of a closed connection, or a failure.  mprpcchannel.cpp:86 takes it for
\* granted that what arrives after the request is its answer.
OwnAnswer ==
    \A k \in Call :
        \/ result[k] \in {None, SetFailed}
        \/ result[k].msg \in {answered[k], Clear(MethodOf(k).response)}

\* Unless the network splits requests, a handler runs with the arguments of the call it
\* serves, also when requests of several threads arrive together: what belongs to the
\* first is told by header_size and args_size alone (rpcprovider.cpp:121-148).
ArgumentsIntact ==
    ~setup.split =>
    \A conn \in Conn : handling[conn] # None => handling[conn].args = Made(handling[conn].call).args

\* The calls that have been made, with their methods, and what a method may answer.
MethodMade(k) == [service |-> Made(k).service, method |-> Made(k).method]
CallsMade == [k \in Call |-> IF k[2] > callNo[k[1]] THEN None ELSE MethodMade(k)]
AnswersOf(m) == Replies(m.service, m.method)
EmptyOf(m) == Clear(m_serviceMap[m.service][m.method].response)

Calls == INSTANCE RpcCalls WITH
    Method <- UNION {[service : {s}, method : DOMAIN m_serviceMap[s]] : s \in DOMAIN m_serviceMap},
    Answers <- AnswersOf,
    Empty <- EmptyOf,
    reliable <- Reliable,
    made <- CallsMade

\* Channels implement remote calls.  However they are shared and whatever the network
\* splits, every request is executed at most once, by the method it names, although send
\* is tried again after a failure and a request may be cut.  Where Reliable holds, no
\* call takes what belongs to an earlier one that has failed.
ImplementsCalls == Calls!Spec

\* A call whose answer has no bytes: nothing is sent to its caller.
AnsweredWithNothing(k) ==
    answered[k] # None /\ Serialize(MethodOf(k).response, answered[k]) = <<>>

\* Where Reliable holds, every call returns, unless its answer has no bytes, as that of
\* InstallSnapshot to an old snapshot (raft.cpp:392); recv has no time-out
\* (mprpcchannel.cpp:91).
CallsReturn ==
    \A c \in Caller :
        (Reliable /\ pc[c] # "idle") ~> (pc[c] = "idle" \/ AnsweredWithNothing(Current(c)))

Classes ==
    {LogEntry, AppendEntriesArgs, AppendEntriesReply, RequestVoteArgs, RequestVoteReply,
     InstallSnapshotRequest, InstallSnapshotResponse, GetArgs, GetReply, PutAppendArgs, PutAppendReply,
     RpcHeader, ResultCode, GetFriendsListRequest, GetFriendsListResponse}

\* Values for a field: the default and one or two others.
SomeValues(field) ==
    LET single == CASE field.kind = "bool" -> BOOLEAN
                    [] field.kind = "bytes" -> {<<>>, <<Text("a"), Text("b")>>}
                    [] field.kind = "message" ->
                           {Clear(field.sub), [Clear(field.sub) EXCEPT ![field.sub[1].name] =
                               IF field.sub[1].kind = "bytes" THEN <<Text("a")>> ELSE 7]}
                    [] OTHER -> {0, 5}
    IN  IF field.repeated THEN {<<>>, SetToSeq(single)}
        ELSE IF field.kind = "message" THEN {<<>>} \cup {<<v>> : v \in single}
        ELSE single

\* The messages of a class with some value in every field.
Samples(schema) ==
    FoldLeft(LAMBDA ms, field : {[m EXCEPT ![field.name] = v] : m \in ms, v \in SomeValues(field)},
             {Clear(schema)}, schema)

\* Statements about the message classes alone are evaluated before the first call.
BeforeFirstCall == \A c \in Caller : callNo[c] = 0

\* For every class, what Serialize writes Parse reads, and two messages one after the
\* other, as when recv returns two answers at once, are read as if the second had been
\* merged into the first (MergeFrom): without an error, as one message.
TwoAnswersMerge ==
    BeforeFirstCall =>
    \A schema \in Classes :
        \A a, b \in Samples(schema) :
            Parse(schema, Serialize(schema, a) \o Serialize(schema, b))
                = [ok |-> TRUE, msg |-> MergeFrom(schema, a, b)]

Disconnected == 0

\* An answer to another call of Raft, or none, read as an answer to AppendEntries has
\* AppState = Disconnected, and sendAppendEntries ignores it (raft.cpp:773).
OtherAnswerIsNoAppend ==
    BeforeFirstCall =>
    \A schema \in {RequestVoteReply, InstallSnapshotResponse} :
        \A m \in Samples(schema) :
            Parse(AppendEntriesReply, Serialize(schema, m)).msg.AppState = Disconnected
=============================================================================
