-------------------------------- MODULE Rpc --------------------------------
(***************************************************************************)
(* MprpcChannel and RpcProvider: callers, which are threads, call methods  *)
(* of one server over channels, each of which owns one TCP connection at a *)
(* time.  Nothing but its place on the connection says which request an    *)
(* answer belongs to.                                                      *)
(*                                                                         *)
(* CallMethod reads the member m_clientFd anew for every system call, so   *)
(* its steps are the system calls.  TCP, and the event loop of muduo that  *)
(* calls OnMessage when something has arrived, are external.  A connection *)
(* that is closed by the client keeps its number here: what the server     *)
(* still sends on it reaches only a thread that is already in recv.        *)
(***************************************************************************)
EXTENDS Messages, FiniteSets

CONSTANTS
    Caller, None,
    Channel,        \* channels are numbered
    Setups,         \* records [channelOf, calls, connectNow, split, maxAnswer, mayClose], see MCRpc
    Replies(_, _),  \* the answers of a service's method
    RecvSize,       \* what one recv takes at most (1024 bytes in the code)
    MaxCalls,       \* calls of one caller
    MaxConn,        \* connections in one behaviour
    MaxCloses       \* times the server closes its connections

ASSUME RpcAssumption ==
    /\ RecvSize \in Nat \ {0} /\ MaxCalls \in Nat /\ MaxConn \in Nat /\ MaxCloses \in Nat
    /\ Channel \subseteq 1 .. MaxConn

VARIABLES
    setup,
    m_clientFd,     \* of each channel: a connection, or 0 for -1
    pc,             \* where each caller is in CallMethod
    callNo,         \* the call it is in, or has made last
    sock,           \* the connection its recv waits on
    link,           \* of each connection: "unused", "up", "fin" or "rst", by the server
    toServer,       \* units on the way to the server
    toClient,       \* units on the way to the client
    handling,       \* the request whose handler runs on the connection's thread
    closes,
    answered,       \* history: the answer the server has given to each call
    result          \* what each call has returned

rpcVars == <<setup, m_clientFd, pc, callNo, sock, link, toServer, toClient, handling, closes, answered, result>>

Conn == 1 .. MaxConn
NoFd == 0

\* The second call of a caller is <<caller, 2>>; calls of the setup name the method and the request.
Call == {k \in Caller \X (1 .. MaxCalls) : \E s \in Setups : k[2] \in DOMAIN s.calls[k[1]]}
Current(c) == <<c, callNo[c]>>
Made(k) == setup.calls[k[1]][k[2]]

\* RpcProvider::NotifyService of every service: its methods by name.
m_serviceMap == [kvServerRpc |-> kvServerRpc, raftRpc |-> raftRpc, FiendServiceRpc |-> FiendServiceRpc]

MethodOf(k) == m_serviceMap[Made(k).service][Made(k).method]

-----------------------------------------------------------------------------
(* The frame of a request: size of the header, header, arguments.          *)

\* args_str.
Arguments(call) == Serialize(m_serviceMap[call.service][call.method].request, call.args)

\* Mutant: args_size is one too small.
HeaderOf_Mutant(call) ==
    [service_name |-> <<Text(call.service)>>, method_name |-> <<Text(call.method)>>,
     args_size |-> Len(Arguments(call)) - 1]

\* rpcHeader with its three fields set.
HeaderOf(call) ==
    [service_name |-> <<Text(call.service)>>, method_name |-> <<Text(call.method)>>,
     args_size |-> Len(Arguments(call))]

\* send_rpc_str; the call is a history field.
Frame(k) ==
    LET header == Serialize(RpcHeader, HeaderOf(Made(k)))
    IN  <<[wire |-> "size", val |-> Len(header), call |-> k]>> \o header \o Arguments(Made(k))

\* Where the header ends that ReadString takes out of the buffer: it reads as much as
\* there is, and nobody looks at its result.
HeaderEnd(buf) == IF Len(buf) > buf[1].val THEN buf[1].val + 1 ELSE Len(buf)

\* rpcHeader.ParseFromString: fields that have not arrived are not set.
HeaderRead(buf) == Parse(RpcHeader, SubSeq(buf, 2, HeaderEnd(buf)))

\* The request at the head of what OnMessage has taken out of the buffer, or None if
\* the header or the arguments cannot be read, the names are unknown or the request is
\* malformed: OnMessage then returns and nobody is answered.  A header that is cut
\* before args_size is read as one without arguments.  What does not begin with the
\* size of a header is taken for no request.
FirstRequest(buf) ==
    LET header == HeaderRead(buf)
        service == header.msg.service_name[1].val
        method == header.msg.method_name[1].val
        args == SubSeq(buf, HeaderEnd(buf) + 1, HeaderEnd(buf) + header.msg.args_size)
    IN  IF /\ buf[1].wire = "size"
           /\ header.ok
           /\ Len(buf) >= HeaderEnd(buf) + header.msg.args_size
           /\ header.msg.service_name # <<>> /\ header.msg.method_name # <<>>
           /\ service \in DOMAIN m_serviceMap
           /\ method \in DOMAIN m_serviceMap[service]
           /\ Parse(m_serviceMap[service][method].request, args).ok
        THEN [call |-> buf[1].call, service |-> service, method |-> method,
              args |-> Parse(m_serviceMap[service][method].request, args).msg]
        ELSE None

-----------------------------------------------------------------------------
(* What the setups and the replies have to be.                             *)

\* Callers have channels, and call methods that exist.
ASSUME SetupAssumption ==
    \A s \in Setups :
        /\ s.channelOf \in [Caller -> Channel]
        /\ s.connectNow \subseteq Channel
        /\ s.split \in BOOLEAN /\ s.maxAnswer \in Nat
        /\ \A c \in Caller :
            /\ Len(s.calls[c]) \in 0 .. MaxCalls
            /\ DOMAIN s.calls[c] = 1 .. Len(s.calls[c])
            /\ \A i \in DOMAIN s.calls[c] :
                /\ s.calls[c][i].service \in DOMAIN m_serviceMap
                /\ s.calls[c][i].method \in DOMAIN m_serviceMap[s.calls[c][i].service]
                /\ None # [service |-> s.calls[c][i].service, method |-> s.calls[c][i].method]

\* A sequence of units without the beginning of a frame.
Contents(units) ==
    /\ Len(units) \in Nat /\ units = [i \in 1 .. Len(units) |-> units[i]]
    /\ \A i \in DOMAIN units : units[i].wire # "size"

\* Requests can be written, and of a header that is cut a name is read whole or not at all.
ASSUME RequestAssumption ==
    \A s \in Setups : \A c \in Caller : \A i \in DOMAIN s.calls[c] :
        LET call == s.calls[c][i]
            header == Serialize(RpcHeader, HeaderOf(call))
        IN  /\ Contents(Arguments(call))
            /\ Contents(header)
            /\ \A n \in 0 .. Len(header) :
                LET part == Parse(RpcHeader, SubSeq(header, 1, n)).msg
                IN  /\ part.service_name \in {<<>>, HeaderOf(call).service_name}
                    /\ part.method_name \in {<<>>, HeaderOf(call).method_name}

\* Replies can be written and read again, and nothing at all is read as the empty
\* message.  Nothing is assumed of how long a reply is, except that every method has one
\* that a setup allows.
ASSUME ReplyAssumption ==
    \A service \in DOMAIN m_serviceMap : \A method \in DOMAIN m_serviceMap[service] :
        LET response == m_serviceMap[service][method].response
        IN  /\ Parse(response, <<>>) = [ok |-> TRUE, msg |-> Clear(response)]
            /\ \A m \in Replies(service, method) :
                /\ m # None
                /\ Contents(Serialize(response, m))
                /\ Parse(response, Serialize(response, m)) = [ok |-> TRUE, msg |-> m]
            /\ \A s \in Setups : \E m \in Replies(service, method) : Len(Serialize(response, m)) <= s.maxAnswer

-----------------------------------------------------------------------------
(* The caller: MprpcChannel::CallMethod.                                   *)

Fd(c) == m_clientFd[setup.channelOf[c]]
SetFd(c, conn) == m_clientFd' = [m_clientFd EXCEPT ![setup.channelOf[c]] = conn]
Goto(c, label) == pc' = [pc EXCEPT ![c] = label]

\* CallMethod returns to the caller.
Returns(c, out) ==
    /\ result' = [result EXCEPT ![Current(c)] = out]
    /\ Goto(c, "idle")

SetFailed == [failed |-> TRUE]

CallMethod(c) ==
    /\ pc[c] = "idle"
    /\ callNo[c] < Len(setup.calls[c])
    /\ callNo' = [callNo EXCEPT ![c] = @ + 1]
    /\ Goto(c, IF Fd(c) = NoFd THEN "connect" ELSE "send")
    /\ UNCHANGED <<setup, m_clientFd, sock, link, toServer, toClient, handling, closes, answered, result>>

\* newConnect, at the beginning and after a failed send.
Connect(c) ==
    /\ pc[c] = "connect"
    /\ \E conn \in Conn :
        /\ link[conn] = "unused" /\ \A d \in Conn : d < conn => link[d] # "unused"
        /\ link' = [link EXCEPT ![conn] = "up"]
        /\ SetFd(c, conn)
    /\ Goto(c, "send")
    /\ UNCHANGED <<setup, callNo, sock, toServer, toClient, handling, closes, answered, result>>

ConnectFails(c) ==
    /\ pc[c] = "connect"
    /\ SetFd(c, NoFd)
    /\ Returns(c, SetFailed)
    /\ UNCHANGED <<setup, callNo, sock, link, toServer, toClient, handling, closes, answered>>

\* send: on a connection the server has closed, what is sent is lost.
Send(c) ==
    /\ pc[c] = "send"
    /\ Fd(c) # NoFd /\ link[Fd(c)] \in {"up", "fin"}
    /\ IF link[Fd(c)] = "up"
       THEN toServer' = [toServer EXCEPT ![Fd(c)] = @ \o Frame(Current(c))] /\ UNCHANGED link
       ELSE link' \in {link, [link EXCEPT ![Fd(c)] = "rst"]} /\ UNCHANGED toServer
    /\ Goto(c, "recv")
    /\ UNCHANGED <<setup, m_clientFd, callNo, sock, toClient, handling, closes, answered, result>>

SendFails(c) ==
    /\ pc[c] = "send"
    /\ Fd(c) = NoFd \/ link[Fd(c)] = "rst"
    /\ SetFd(c, NoFd)
    /\ Goto(c, "connect")
    /\ UNCHANGED <<setup, callNo, sock, link, toServer, toClient, handling, closes, answered, result>>

\* recv is called: from here on it is this connection, whatever becomes of m_clientFd.
RecvBegins(c) ==
    /\ pc[c] = "recv"
    /\ sock' = [sock EXCEPT ![c] = Fd(c)]
    /\ Goto(c, "inRecv")
    /\ UNCHANGED <<setup, m_clientFd, callNo, link, toServer, toClient, handling, closes, answered, result>>

\* Mutant: a failed recv is tried again, like a failed send.
RecvFails_Mutant(c) ==
    /\ pc[c] = "inRecv"
    /\ sock[c] = NoFd \/ link[sock[c]] = "rst"
    /\ SetFd(c, NoFd)
    /\ Goto(c, "connect")
    /\ UNCHANGED <<setup, callNo, sock, link, toServer, toClient, handling, closes, answered, result>>

\* Mutant: the channel keeps a connection on which recv has failed.
RecvFails_KeepsMutant(c) ==
    /\ pc[c] = "inRecv"
    /\ sock[c] = NoFd \/ link[sock[c]] = "rst"
    /\ Returns(c, SetFailed)
    /\ UNCHANGED <<setup, m_clientFd, callNo, sock, link, toServer, toClient, handling, closes, answered>>

\* recv returns -1: the channel's connection is closed, which may be another one by now.
RecvFails(c) ==
    /\ pc[c] = "inRecv"
    /\ sock[c] = NoFd \/ link[sock[c]] = "rst"
    /\ SetFd(c, NoFd)
    /\ Returns(c, SetFailed)
    /\ UNCHANGED <<setup, callNo, sock, link, toServer, toClient, handling, closes, answered>>

\* What a call makes of the units it has received.
Outcome(k, units) ==
    LET p == Parse(MethodOf(k).response, units)
    IN  IF p.ok THEN [failed |-> FALSE, msg |-> p.msg] ELSE SetFailed

\* How much of the units that have been sent one recv returns: all that fits into its
\* buffer, or only the first of them if the network splits answers.
Received(units) ==
    LET fits == IF Len(units) > RecvSize THEN RecvSize ELSE Len(units)
    IN  {n \in 0 .. fits : n = fits \/ (setup.split /\ n > 0)}

\* recv returns what is there (also before an RST, unless that was faster), or 0 when
\* the server has closed the connection, and the response is parsed.  The connection is
\* kept in any case, with what has not been received.
Recv(c) ==
    LET conn == sock[c]
    IN
    /\ pc[c] = "inRecv"
    /\ conn # NoFd
    /\ \E n \in Received(toClient[conn]) :
        /\ n > 0 \/ link[conn] = "fin"
        /\ toClient' = [toClient EXCEPT ![conn] = SubSeq(@, n + 1, Len(@))]
        /\ Returns(c, Outcome(Current(c), SubSeq(toClient[conn], 1, n)))
    /\ UNCHANGED <<setup, m_clientFd, callNo, sock, link, toServer, handling, closes, answered>>

CallerStep(c) ==
    \/ CallMethod(c) \/ Connect(c) \/ ConnectFails(c) \/ Send(c) \/ SendFails(c)
    \/ RecvBegins(c) \/ RecvFails(c) \/ Recv(c)

-----------------------------------------------------------------------------
(* The server: RpcProvider.                                                *)

\* How much of what has been sent OnMessage may find in the buffer: whole frames, or
\* any part if the network splits them.
Arrivals(conn) ==
    {n \in DOMAIN toServer[conn] :
        setup.split \/ n = Len(toServer[conn]) \/ toServer[conn][n + 1].wire = "size"}

\* Everything that has arrived is taken and the first request in it served.  The
\* connection's thread does nothing else until the handler returns.
OnMessage(conn) ==
    /\ link[conn] = "up" /\ handling[conn] = None
    /\ \E n \in Arrivals(conn) :
        /\ toServer' = [toServer EXCEPT ![conn] = SubSeq(@, n + 1, Len(@))]
        /\ handling' = [handling EXCEPT ![conn] = FirstRequest(SubSeq(toServer[conn], 1, n))]
    /\ UNCHANGED <<setup, m_clientFd, pc, callNo, sock, link, toClient, closes, answered, result>>

\* Mutant: the handler returns without done->Run().
SendRpcResponse_Mutant(conn) ==
    /\ handling[conn] # None
    /\ \E m \in Replies(handling[conn].service, handling[conn].method) :
        answered' = [answered EXCEPT ![handling[conn].call] = m]
    /\ handling' = [handling EXCEPT ![conn] = None]
    /\ UNCHANGED <<setup, m_clientFd, pc, callNo, sock, link, toServer, toClient, closes, result>>

\* The handler has filled in the response and runs done.  A response of defaults only
\* has no bytes, and nothing is sent.  How long answers get is part of the setup.
SendRpcResponse(conn) ==
    /\ handling[conn] # None
    /\ \E m \in Replies(handling[conn].service, handling[conn].method) :
        LET schema == m_serviceMap[handling[conn].service][handling[conn].method].response
        IN  /\ Len(Serialize(schema, m)) <= setup.maxAnswer
            /\ answered' = [answered EXCEPT ![handling[conn].call] = m]
            /\ toClient' = [toClient EXCEPT ![conn] = @ \o Serialize(schema, m)]
    /\ handling' = [handling EXCEPT ![conn] = None]
    /\ UNCHANGED <<setup, m_clientFd, pc, callNo, sock, link, toServer, closes, result>>

\* The server process ends and is started again, or its peer is cut off: connections
\* end with FIN or RST, and what was under way on them is lost.
ServerCloses ==
    /\ setup.mayClose /\ closes < MaxCloses
    /\ closes' = closes + 1
    /\ \E end \in {"fin", "rst"} : link' = [conn \in Conn |-> IF link[conn] = "up" THEN end ELSE link[conn]]
    /\ toServer' = [conn \in Conn |-> <<>>]
    /\ handling' = [conn \in Conn |-> None]
    /\ UNCHANGED <<setup, m_clientFd, pc, callNo, sock, toClient, answered, result>>

-----------------------------------------------------------------------------
\* The constructors: some channels are connected at once (connectNow), the others, and
\* those for which that failed four times, with the first call.
Init ==
    /\ setup \in Setups
    /\ m_clientFd = [ch \in Channel |-> IF ch \in setup.connectNow THEN ch ELSE NoFd]
    /\ pc = [c \in Caller |-> "idle"]
    /\ callNo = [c \in Caller |-> 0]
    /\ sock = [c \in Caller |-> NoFd]
    /\ link = [conn \in Conn |-> IF conn \in setup.connectNow THEN "up" ELSE "unused"]
    /\ toServer = [conn \in Conn |-> <<>>]
    /\ toClient = [conn \in Conn |-> <<>>]
    /\ handling = [conn \in Conn |-> None]
    /\ closes = 0
    /\ answered = [k \in Call |-> None]
    /\ result = [k \in Call |-> None]

Next ==
    \/ \E c \in Caller : CallerStep(c)
    \/ \E conn \in Conn : OnMessage(conn) \/ SendRpcResponse(conn)
    \/ ServerCloses

\* A caller that is not blocked in recv gets on: every step of it changes its pc.
CallerMoves(c) ==
    /\ \/ pc[c] \in {"connect", "send", "recv"}
       \/ /\ pc[c] = "inRecv"
          /\ sock[c] = NoFd \/ link[sock[c]] \in {"fin", "rst"} \/ toClient[sock[c]] # <<>>
    /\ \E label \in {"idle", "connect", "send", "recv", "inRecv"} \ {pc[c]} : Goto(c, label)

\* The event loop reads what has arrived when the connection's thread is free.
EventLoopReads(conn) ==
    /\ link[conn] = "up" /\ handling[conn] = None
    /\ \E n \in Arrivals(conn) : toServer' = [toServer EXCEPT ![conn] = SubSeq(@, n + 1, Len(@))]

HandlerReturns(conn) ==
    /\ handling[conn] # None
    /\ handling' = [handling EXCEPT ![conn] = None]

\* Threads and the event loop run and handlers return; no call has to be made and the
\* server need not close anything.
Fairness ==
    /\ \A c \in Caller : WF_pc(CallerMoves(c))
    /\ \A conn \in Conn : WF_toServer(EventLoopReads(conn)) /\ WF_handling(HandlerReturns(conn))

Spec == Init /\ [][Next]_rpcVars /\ Fairness
=============================================================================
