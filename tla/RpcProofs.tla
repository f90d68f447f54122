----------------------------- MODULE RpcProofs -----------------------------
(***************************************************************************)
(* Proofs about the RPC layer, for any number of callers, calls,           *)
(* connections and closes.  However channels are shared and whatever the   *)
(* network splits, a request is executed at most once and a call returns   *)
(* once; where Reliable holds, nothing is left on a connection between two *)
(* calls either, and a call returns its own answer.  Together: the         *)
(* channels implement the calls of RpcCalls.                               *)
(*                                                                         *)
(* The first part of the invariant (BaseInv) follows the one copy of a     *)
(* request from the wire into its handler.  The second (RelInv) is about   *)
(* ownership: a connection on which a request is under way or a handler    *)
(* runs is that of a caller that waits for the answer to just that request *)
(* (Owned), so neither another request nor another answer can get onto it. *)
(***************************************************************************)
EXTENDS RpcProperties, TLAPS

-----------------------------------------------------------------------------
(* The invariant of every channel.                                         *)

\* A call that has got past its send.
Sent(k) ==
    \/ k[2] < callNo[k[1]]
    \/ k[2] = callNo[k[1]] /\ pc[k[1]] \notin {"connect", "send"}

\* A call that has not been made or has not returned.
Open(k) ==
    \/ k[2] > callNo[k[1]]
    \/ k[2] = callNo[k[1]] /\ pc[k[1]] # "idle"

\* The variables have the right shape, and a caller that is in a call has made it.
Shape ==
    /\ setup \in Setups
    /\ DOMAIN pc = Caller
    /\ DOMAIN callNo = Caller
    /\ \A c \in Caller : callNo[c] \in 0 .. Len(setup.calls[c]) /\ (pc[c] # "idle" => callNo[c] > 0)
    /\ DOMAIN sock = Caller
    /\ DOMAIN link = Conn
    /\ toServer = [d \in Conn |-> toServer[d]]
    /\ DOMAIN toClient = Conn
    /\ DOMAIN handling = Conn
    /\ DOMAIN answered = Call
    /\ DOMAIN result = Call

\* A request begins with unit i, and the units from there on begin with f.
Begins(u, i) == i \in DOMAIN u /\ u[i].wire = "size"
WholeAt(u, i, f) == i + Len(f) - 1 <= Len(u) /\ \A j \in 1 .. Len(f) : u[i + j - 1] = f[j]

\* A call whose request has been sent and not been answered.
Pending(k) == k \in Call /\ Sent(k) /\ answered[k] = None

\* The request of call k begins with unit i on connection d.
RequestAt(d, i, k) ==
    /\ Begins(toServer[d], i)
    /\ toServer[d][i].call = k

\* What begins on the wire is the whole request of a call that waits for its answer.
OnWire ==
    \A d \in Conn :
        /\ \E S : toServer[d] \in Seq(S)
        /\ \A i, k : RequestAt(d, i, k) => Pending(k) /\ WholeAt(toServer[d], i, Frame(k))

\* The request of call k as OnMessage hands it to the service.
IsRequest(k, r) ==
    /\ r.call = k
    /\ r.service = Made(k).service
    /\ r.method = Made(k).method

\* The handler on connection d runs for call k.
Handles(d, k) == handling[d] # None /\ handling[d].call = k

Handlers == \A d \in Conn : \A k : Handles(d, k) => Pending(k) /\ IsRequest(k, handling[d])

\* There is one copy of a request, on the wire or with a handler.
OneCopy ==
    \A d, e \in Conn : \A k :
        /\ \A i, j : RequestAt(d, i, k) /\ RequestAt(e, j, k) => d = e /\ i = j
        /\ Handles(d, k) /\ Handles(e, k) => d = e
        /\ \A i : ~(Handles(d, k) /\ RequestAt(e, i, k))

\* Only a request that has been sent is answered, by an answer of its method that the
\* setup allows, and only a call that has ended has a result.
History ==
    \A k \in Call :
        /\ answered[k] # None =>
            /\ Sent(k)
            /\ answered[k] \in Replies(Made(k).service, Made(k).method)
            /\ Len(Serialize(MethodOf(k).response, answered[k])) <= setup.maxAnswer
        /\ Open(k) => result[k] = None

BaseInv == Shape /\ OnWire /\ Handlers /\ OneCopy /\ History

-----------------------------------------------------------------------------
(* The invariant of reliable channels.                                     *)

\* A caller has sent its request and not returned.
Waits(c) == pc[c] \in {"recv", "inRecv"}

\* Neither a request nor a handler is on the connection.
Quiet(d) == toServer[d] = <<>> /\ handling[d] = None

\* The connection d is busy with the call that c is in.
Serves(c, d) ==
    /\ Fd(c) = d
    /\ Waits(c)
    /\ answered[Current(c)] = None
    /\ toClient[d] = <<>>
    /\ \/ handling[d] = None /\ toServer[d] = Frame(Current(c))
       \/ toServer[d] = <<>> /\ handling[d].call = Current(c)

\* Two channels never have the same connection.
Descriptors ==
    /\ DOMAIN m_clientFd = Channel
    /\ \A ch \in Channel : m_clientFd[ch] \in Conn \cup {NoFd}
    /\ \A ch \in Channel : m_clientFd[ch] # NoFd => link[m_clientFd[ch]] # "unused"
    /\ \A ch, other \in Channel :
        m_clientFd[ch] = m_clientFd[other] /\ m_clientFd[ch] # NoFd => ch = other

\* A caller waits on the connection of its channel.
OnOwnConnection ==
    \A c \in Caller : Waits(c) => Fd(c) # NoFd /\ (pc[c] = "inRecv" => sock[c] = Fd(c))

\* Nothing is under way on a connection that is not up, or has not been made.
DownIsQuiet ==
    \A d \in Conn :
        /\ link[d] # "up" => Quiet(d)
        /\ link[d] = "unused" => toClient[d] = <<>>

\* A connection that is not quiet is busy with the call of the caller that waits on it.
Owned == \A d \in Conn : Quiet(d) \/ \E c \in Caller : Serves(c, d)

\* What can be received on a caller's connection is the answer to its call.
AnswerFor(c) ==
    Fd(c) # NoFd /\ toClient[Fd(c)] # <<>>
    => /\ Waits(c)
       /\ answered[Current(c)] # None
       /\ toClient[Fd(c)] = Serialize(MethodOf(Current(c)).response, answered[Current(c)])

AnswerOnTheWay == \A c \in Caller : AnswerFor(c)

RelInv == Descriptors /\ OnOwnConnection /\ DownIsQuiet /\ Owned /\ AnswerOnTheWay

RpcInv == BaseInv /\ (Reliable => RelInv)

-----------------------------------------------------------------------------
(* Requests on the wire.                                                   *)

\* Units without the beginning of a frame are a sequence.
LEMMA ContentsSeq ==
    ASSUME NEW u, Contents(u)
    PROVE  /\ u \in Seq({u[i] : i \in 1 .. Len(u)})
           /\ Len(u) \in Nat
           /\ \A i \in 1 .. Len(u) : u[i].wire # "size"
<1>1. Len(u) \in Nat /\ u = [i \in 1 .. Len(u) |-> u[i]]
  BY DEF Contents
<1>2. DOMAIN u = 1 .. Len(u)
  BY <1>1
<1>3. u \in [1 .. Len(u) -> {u[i] : i \in 1 .. Len(u)}]
  BY <1>1
<1>4. u \in Seq({u[i] : i \in 1 .. Len(u)})
  BY <1>1, <1>3
<1> QED BY <1>1, <1>2, <1>4 DEF Contents

\* A sequence over a set is one over every larger set.
LEMMA SeqWiden ==
    ASSUME NEW T, NEW S, T \subseteq S, NEW u \in Seq(T)
    PROVE  u \in Seq(S)
OBVIOUS

\* The sequence f is the unit a, which begins a frame, then the contents u, then others.
FrameLike(f, a, u) ==
    /\ Len(u) \in Nat
    /\ \E S : u \in Seq(S)
    /\ \E S : f \in Seq(S)
    /\ Len(f) \in Nat /\ Len(f) >= 1 + Len(u)
    /\ f[1] = a
    /\ \A j \in 1 .. Len(u) : f[j + 1] = u[j]
    /\ \A j \in 2 .. Len(f) : f[j].wire # "size"

\* Contents put together after a unit are such a sequence.
LEMMA HeadAndTwo ==
    ASSUME NEW a, NEW u, NEW v, Contents(u), Contents(v)
    PROVE  FrameLike(<<a>> \o u \o v, a, u)
<1> DEFINE f == <<a>> \o u \o v
<1> DEFINE U == {u[i] : i \in 1 .. Len(u)}
           V == {v[i] : i \in 1 .. Len(v)}
           S == U \cup V \cup {a}
<1>1. u \in Seq(U) /\ v \in Seq(V) /\ Len(u) \in Nat /\ Len(v) \in Nat
  BY ContentsSeq
<1>2. /\ \A i \in 1 .. Len(u) : u[i].wire # "size"
      /\ \A i \in 1 .. Len(v) : v[i].wire # "size"
  BY ContentsSeq
<1>3. U \subseteq S /\ V \subseteq S /\ a \in S
  OBVIOUS
<1> HIDE DEF U, V, S
<1>4. u \in Seq(S) /\ v \in Seq(S)
  BY <1>1, <1>3, SeqWiden
<1>5. f \in Seq(S)
  BY <1>3, <1>4
<1>6. Len(f) = 1 + Len(u) + Len(v)
  BY <1>3, <1>4
<1>7. f[1] = a
  BY <1>3, <1>4
<1>8. \A j \in 1 .. Len(u) : f[j + 1] = u[j]
  BY <1>3, <1>4
<1>9. \A j \in 1 .. Len(v) : f[j + 1 + Len(u)] = v[j]
  BY <1>3, <1>4
<1>10. ASSUME NEW j \in 2 .. Len(f)
       PROVE  f[j].wire # "size"
  <2>1. CASE j <= 1 + Len(u)
    <3>1. j - 1 \in 1 .. Len(u) /\ (j - 1) + 1 = j
      BY <2>1, <1>1
    <3>2. f[j] = u[j - 1]
      BY <3>1, <1>8
    <3> QED BY <3>1, <3>2, <1>2
  <2>2. CASE j > 1 + Len(u)
    <3>1. j - 1 - Len(u) \in 1 .. Len(v) /\ (j - 1 - Len(u)) + 1 + Len(u) = j
      BY <2>2, <1>1, <1>6
    <3>2. f[j] = v[j - 1 - Len(u)]
      BY <3>1, <1>9
    <3> QED BY <3>1, <3>2, <1>2
  <2> QED BY <2>1, <2>2, <1>1
<1> HIDE DEF f
<1>11. FrameLike(f, a, u)
  BY <1>1, <1>4, <1>5, <1>6, <1>7, <1>8, <1>10 DEF FrameLike
<1> QED BY <1>11 DEF f

\* The calls of a caller are calls, of methods that exist.
LEMMA CallFacts ==
    ASSUME setup \in Setups, NEW c \in Caller, NEW i \in 1 .. Len(setup.calls[c])
    PROVE  /\ <<c, i>> \in Call
           /\ i \in DOMAIN setup.calls[c]
           /\ Made(<<c, i>>) = setup.calls[c][i]
           /\ Made(<<c, i>>).service \in DOMAIN m_serviceMap
           /\ Made(<<c, i>>).method \in DOMAIN m_serviceMap[Made(<<c, i>>).service]
           /\ MethodMade(<<c, i>>) # None
<1>1. /\ Len(setup.calls[c]) \in 0 .. MaxCalls
      /\ DOMAIN setup.calls[c] = 1 .. Len(setup.calls[c])
      /\ \A n \in DOMAIN setup.calls[c] :
          /\ setup.calls[c][n].service \in DOMAIN m_serviceMap
          /\ setup.calls[c][n].method \in DOMAIN m_serviceMap[setup.calls[c][n].service]
          /\ None # [service |-> setup.calls[c][n].service, method |-> setup.calls[c][n].method]
  BY SetupAssumption
<1>2. i \in DOMAIN setup.calls[c] /\ i \in 1 .. MaxCalls
  BY <1>1, RpcAssumption
<1>3. <<c, i>> \in Call
  BY <1>2 DEF Call
<1>4. Made(<<c, i>>) = setup.calls[c][i]
  BY DEF Made
<1> QED BY <1>1, <1>2, <1>3, <1>4 DEF MethodMade

\* The same of a call that has been made or sent.
LEMMA SentFacts ==
    ASSUME Shape, NEW k \in Call, Sent(k)
    PROVE  /\ k[1] \in Caller /\ k[2] \in 1 .. Len(setup.calls[k[1]]) /\ k = <<k[1], k[2]>>
           /\ Made(k) = setup.calls[k[1]][k[2]]
           /\ Made(k).service \in DOMAIN m_serviceMap
           /\ Made(k).method \in DOMAIN m_serviceMap[Made(k).service]
           /\ MethodMade(k) # None
<1>1. k[1] \in Caller /\ k[2] \in 1 .. MaxCalls /\ k = <<k[1], k[2]>>
  BY DEF Call
<1>2. Len(setup.calls[k[1]]) \in 0 .. MaxCalls /\ MaxCalls \in Nat /\ setup \in Setups
  BY <1>1, SetupAssumption, RpcAssumption DEF Shape
<1>3. callNo[k[1]] \in 0 .. Len(setup.calls[k[1]])
  BY <1>1 DEF Shape
<1>4. k[2] <= callNo[k[1]]
  BY <1>1, <1>2, <1>3 DEF Sent
<1>5. k[2] \in 1 .. Len(setup.calls[k[1]])
  BY <1>1, <1>2, <1>3, <1>4
<1> QED BY <1>1, <1>2, <1>5, CallFacts

\* A frame is the size of the header, the header and the arguments.
LEMMA FrameFacts ==
    ASSUME setup \in Setups, NEW c \in Caller, NEW i \in 1 .. Len(setup.calls[c]),
           NEW header, header = Serialize(RpcHeader, HeaderOf(Made(<<c, i>>)))
    PROVE  FrameLike(Frame(<<c, i>>), [wire |-> "size", val |-> Len(header), call |-> <<c, i>>], header)
<1>1. i \in DOMAIN setup.calls[c] /\ Made(<<c, i>>) = setup.calls[c][i]
  BY CallFacts
<1>2. Contents(Arguments(Made(<<c, i>>))) /\ Contents(header)
  BY <1>1, RequestAssumption
<1>3. Frame(<<c, i>>) = <<[wire |-> "size", val |-> Len(header), call |-> <<c, i>>]>> \o header \o Arguments(Made(<<c, i>>))
  BY DEF Frame
<1>4. FrameLike(<<[wire |-> "size", val |-> Len(header), call |-> <<c, i>>]>> \o header \o Arguments(Made(<<c, i>>)),
                [wire |-> "size", val |-> Len(header), call |-> <<c, i>>], header)
  BY <1>2, HeadAndTwo
<1> QED BY <1>3, <1>4

\* What a frame looks like on the wire.
LEMMA FrameOnWire ==
    ASSUME setup \in Setups, NEW c \in Caller, NEW i \in 1 .. Len(setup.calls[c]), NEW f, f = Frame(<<c, i>>)
    PROVE  /\ \E S : f \in Seq(S)
           /\ Len(f) \in Nat /\ Len(f) >= 1
           /\ f[1].wire = "size" /\ f[1].call = <<c, i>>
           /\ \A j \in 2 .. Len(f) : f[j].wire # "size"
           /\ <<>> \o f = f /\ f # <<>>
<1>1. PICK header : header = Serialize(RpcHeader, HeaderOf(Made(<<c, i>>)))
  OBVIOUS
<1>2. PICK a : a = [wire |-> "size", val |-> Len(header), call |-> <<c, i>>]
  OBVIOUS
<1>3. FrameLike(f, a, header)
  BY <1>1, <1>2, FrameFacts
<1>4. a.wire = "size" /\ a.call = <<c, i>>
  BY <1>2
<1>5. PICK S : f \in Seq(S)
  BY <1>3 DEF FrameLike
<1>6. /\ Len(f) \in Nat /\ Len(f) >= 1 /\ f[1] = a
      /\ \A j \in 2 .. Len(f) : f[j].wire # "size"
  <2>1. /\ Len(f) \in Nat /\ Len(header) \in Nat /\ Len(f) >= 1 + Len(header) /\ f[1] = a
        /\ \A j \in 2 .. Len(f) : f[j].wire # "size"
    BY <1>3 DEF FrameLike
  <2>2. Len(f) >= 1
    BY <2>1
  <2> QED BY <2>1, <2>2
<1>7. <<>> \o f = f /\ f # <<>>
  BY <1>5, <1>6
<1> QED BY <1>4, <1>5, <1>6, <1>7

\* The sequence f is a frame of call k.
IsFrame(f, k) ==
    /\ \E S : f \in Seq(S)
    /\ Len(f) >= 1
    /\ f[1].wire = "size" /\ f[1].call = k
    /\ \A j \in 2 .. Len(f) : f[j].wire # "size"

\* A frame of a call is one.
LEMMA FrameIsFrame ==
    ASSUME setup \in Setups, NEW c \in Caller, NEW i \in 1 .. Len(setup.calls[c]), NEW f, f = Frame(<<c, i>>)
    PROVE  IsFrame(f, <<c, i>>)
BY FrameOnWire DEF IsFrame

\* The first n units of a sequence that begins like f, from the second on.
LEMMA CutHeader ==
    ASSUME NEW S, NEW u \in Seq(S), NEW T, NEW h \in Seq(T), NEW n \in 1 .. Len(u),
           Len(u) >= 1 + Len(h), \A j \in 1 .. Len(h) : u[j + 1] = h[j],
           NEW end, end = IF n > Len(h) THEN Len(h) + 1 ELSE n
    PROVE  SubSeq(SubSeq(u, 1, n), 2, end) = SubSeq(h, 1, end - 1)
<1>1. Len(u) \in Nat /\ Len(h) \in Nat /\ end \in 1 .. n /\ end - 1 \in 0 .. Len(h)
  OBVIOUS
<1>2. SubSeq(u, 1, n) \in Seq(S) /\ Len(SubSeq(u, 1, n)) = n /\ \A j \in 1 .. n : SubSeq(u, 1, n)[j] = u[j]
  BY <1>1
<1>3. SubSeq(SubSeq(u, 1, n), 2, end) = [j \in 1 .. end - 1 |-> u[j + 1]]
  BY <1>1, <1>2
<1>4. SubSeq(h, 1, end - 1) = [j \in 1 .. end - 1 |-> h[j]]
  BY <1>1
<1>5. \A j \in 1 .. end - 1 : u[j + 1] = h[j]
  BY <1>1
<1> QED BY <1>3, <1>4, <1>5

\* What OnMessage makes of the beginning of a request, however much of it has arrived: the
\* request of that call, or nothing.
LEMMA FirstRequestIsOwn ==
    ASSUME setup \in Setups, NEW c \in Caller, NEW i \in 1 .. Len(setup.calls[c]),
           NEW S, NEW u \in Seq(S), WholeAt(u, 1, Frame(<<c, i>>)), NEW n \in 1 .. Len(u),
           NEW r, r = FirstRequest(SubSeq(u, 1, n)), r # None
    PROVE  IsRequest(<<c, i>>, r)
<1> DEFINE k == <<c, i>>
           header == Serialize(RpcHeader, HeaderOf(Made(k)))
           head == [wire |-> "size", val |-> Len(header), call |-> k]
           buf == SubSeq(u, 1, n)
           part == Parse(RpcHeader, SubSeq(buf, 2, HeaderEnd(buf)))
<1>1. FrameLike(Frame(k), head, header)
  BY FrameFacts
<1>2. head.val = Len(header) /\ head.call = k
  OBVIOUS
<1>3. i \in DOMAIN setup.calls[c] /\ Made(k) = setup.calls[c][i]
  BY CallFacts
<1>4. ASSUME NEW m \in 0 .. Len(header)
      PROVE  /\ Parse(RpcHeader, SubSeq(header, 1, m)).msg.service_name \in {<<>>, HeaderOf(Made(k)).service_name}
             /\ Parse(RpcHeader, SubSeq(header, 1, m)).msg.method_name \in {<<>>, HeaderOf(Made(k)).method_name}
  BY <1>3, RequestAssumption
<1>5. /\ HeaderOf(Made(k)).service_name[1].val = Made(k).service
      /\ HeaderOf(Made(k)).method_name[1].val = Made(k).method
  BY DEF HeaderOf, Text
<1> HIDE DEF header, head
<1>6. /\ Len(header) \in Nat /\ Len(Frame(k)) \in Nat /\ Len(Frame(k)) >= 1 + Len(header)
      /\ Frame(k)[1] = head /\ \A j \in 1 .. Len(header) : Frame(k)[j + 1] = header[j]
  BY <1>1 DEF FrameLike
<1>7. Len(u) \in Nat /\ Len(u) >= 1 + Len(header) /\ u[1] = head /\ \A j \in 1 .. Len(header) : u[j + 1] = header[j]
  <2>1. Len(u) \in Nat /\ Len(u) >= Len(Frame(k))
    BY <1>6 DEF WholeAt
  <2>2. \A j \in 1 .. Len(Frame(k)) : u[1 + j - 1] = Frame(k)[j]
    BY DEF WholeAt
  <2>3. \A j \in 1 .. Len(Frame(k)) : u[j] = Frame(k)[j]
    <3>1. \A j \in 1 .. Len(Frame(k)) : 1 + j - 1 = j
      BY <1>6
    <3> QED BY <2>2, <3>1
  <2>4. \A j \in 1 .. Len(header) : j + 1 \in 1 .. Len(Frame(k))
    BY <1>6
  <2>5. 1 \in 1 .. Len(Frame(k))
    BY <1>6
  <2>6. Len(u) >= 1 + Len(header)
    BY <2>1, <1>6
  <2>7. u[1] = head
    BY <2>3, <2>5, <1>6
  <2>8. ASSUME NEW j \in 1 .. Len(header)
        PROVE  u[j + 1] = header[j]
    <3>1. u[j + 1] = Frame(k)[j + 1]
      BY <2>3, <2>4
    <3>2. Frame(k)[j + 1] = header[j]
      BY <1>6
    <3> QED BY <3>1, <3>2
  <2> QED BY <2>1, <2>6, <2>7, <2>8
<1>8. Len(buf) = n /\ buf[1] = head
  BY <1>7
<1>9. HeaderEnd(buf) = IF n > Len(header) THEN Len(header) + 1 ELSE n
  BY <1>2, <1>8 DEF HeaderEnd
<1>10. PICK T : header \in Seq(T)
  BY <1>1 DEF FrameLike
<1>11. SubSeq(buf, 2, HeaderEnd(buf)) = SubSeq(header, 1, HeaderEnd(buf) - 1)
  BY <1>7, <1>9, <1>10, CutHeader
<1>12. HeaderEnd(buf) - 1 \in 0 .. Len(header)
  BY <1>6, <1>9
<1>13. /\ part.msg.service_name \in {<<>>, HeaderOf(Made(k)).service_name}
       /\ part.msg.method_name \in {<<>>, HeaderOf(Made(k)).method_name}
  BY <1>4, <1>11, <1>12
<1> HIDE DEF buf
<1>14. /\ r.call = buf[1].call
       /\ r.service = part.msg.service_name[1].val /\ part.msg.service_name # <<>>
       /\ r.method = part.msg.method_name[1].val /\ part.msg.method_name # <<>>
  BY DEF FirstRequest, HeaderRead, buf
<1> HIDE DEF part
<1>15. r.service = Made(k).service /\ r.method = Made(k).method
  BY <1>5, <1>13, <1>14
<1> QED BY <1>2, <1>8, <1>14, <1>15 DEF IsRequest

\* The requests in rest are those in u from n + 1 on.
Dropped(u, n, rest) ==
    /\ \E S : rest \in Seq(S)
    /\ \A i : Begins(rest, i) => Begins(u, i + n) /\ rest[i] = u[i + n] /\ i + n # 1 /\ i \in Nat \ {0}
    /\ \A i \in Nat \ {0} : \A f : Len(f) \in Nat /\ WholeAt(u, i + n, f) => WholeAt(rest, i, f)

\* What is left on the wire without the first n units.
LEMMA DropFacts ==
    ASSUME NEW S, NEW u \in Seq(S), NEW n \in 1 .. Len(u), NEW rest, rest = SubSeq(u, n + 1, Len(u))
    PROVE  Dropped(u, n, rest)
<1>1. rest \in Seq(S) /\ Len(u) \in Nat /\ Len(rest) = Len(u) - n /\ DOMAIN rest = 1 .. Len(u) - n
  OBVIOUS
<1>2. \A i \in 1 .. Len(u) - n : rest[i] = u[i + n]
  OBVIOUS
<1>3. \A i : Begins(rest, i) => Begins(u, i + n) /\ rest[i] = u[i + n] /\ i + n # 1 /\ i \in Nat \ {0}
  BY <1>1, <1>2 DEF Begins
<1>4. ASSUME NEW i \in Nat \ {0}, NEW f, Len(f) \in Nat, WholeAt(u, i + n, f)
      PROVE  WholeAt(rest, i, f)
  <2>1. i + n + Len(f) - 1 <= Len(u) /\ \A j \in 1 .. Len(f) : u[i + n + j - 1] = f[j]
    BY <1>4 DEF WholeAt
  <2>2. i + Len(f) - 1 <= Len(rest)
    BY <2>1, <1>1, <1>4
  <2>3. ASSUME NEW j \in 1 .. Len(f)
        PROVE  rest[i + j - 1] = f[j]
    <3>1. i + j - 1 \in 1 .. Len(u) - n /\ (i + j - 1) + n = i + n + j - 1
      BY <2>1, <1>1, <1>4
    <3>2. rest[i + j - 1] = u[(i + j - 1) + n]
      BY <3>1, <1>2
    <3> QED BY <3>1, <3>2, <2>1
  <2> QED BY <2>2, <2>3 DEF WholeAt
<1> QED BY <1>1, <1>3, <1>4 DEF Dropped

\* The requests in both are those in u and the one that is f.
Appended(u, f, both) ==
    /\ \E S : both \in Seq(S)
    /\ \A i : Begins(both, i) => \/ Begins(u, i) /\ both[i] = u[i]
                                 \/ i = Len(u) + 1 /\ both[i] = f[1]
    /\ \A i \in Nat : \A g : Len(g) \in Nat /\ Begins(u, i) /\ WholeAt(u, i, g) => WholeAt(both, i, g)
    /\ WholeAt(both, Len(u) + 1, f)

\* What is on the wire when f has been sent after u.
LEMMA AppendFacts ==
    ASSUME NEW S, NEW u \in Seq(S), NEW T, NEW f \in Seq(T), NEW both, both = u \o f, Len(f) >= 1,
           f[1].wire = "size", \A j \in 2 .. Len(f) : f[j].wire # "size"
    PROVE  Appended(u, f, both)
<1>1. u \in Seq(S \cup T) /\ f \in Seq(S \cup T) /\ Len(u) \in Nat /\ Len(f) \in Nat
  BY SeqWiden
<1>2. /\ both \in Seq(S \cup T) /\ Len(both) = Len(u) + Len(f) /\ DOMAIN both = 1 .. Len(u) + Len(f)
  BY <1>1
<1>3. \A i \in 1 .. Len(u) : both[i] = u[i]
  BY <1>1
<1>4. \A j \in 1 .. Len(f) : both[Len(u) + j] = f[j]
  BY <1>1
<1>5. ASSUME NEW i, Begins(both, i)
      PROVE  \/ Begins(u, i) /\ both[i] = u[i]
             \/ i = Len(u) + 1 /\ both[i] = f[1]
  <2>1. i \in 1 .. Len(u) + Len(f) /\ both[i].wire = "size"
    BY <1>2, <1>5 DEF Begins
  <2>2. CASE i <= Len(u)
    <3>1. i \in 1 .. Len(u) /\ i \in DOMAIN u
      BY <2>1, <2>2, <1>1
    <3> QED BY <3>1, <2>1, <1>3 DEF Begins
  <2>3. CASE i > Len(u)
    <3>1. PICK j \in 1 .. Len(f) : i = Len(u) + j
      <4>1. i - Len(u) \in 1 .. Len(f) /\ i = Len(u) + (i - Len(u))
        BY <2>1, <2>3, <1>1
      <4> QED BY <4>1
    <3>2. both[i] = f[j]
      BY <3>1, <1>4
    <3>3. j = 1
      <4>1. j # 1 => j \in 2 .. Len(f)
        BY <1>1
      <4> QED BY <4>1, <3>2, <2>1
    <3> QED BY <3>1, <3>2, <3>3
  <2> QED BY <2>1, <2>2, <2>3, <1>1
<1>7. ASSUME NEW i \in Nat, NEW g, Len(g) \in Nat, Begins(u, i), WholeAt(u, i, g)
      PROVE  WholeAt(both, i, g)
  <2>1. i \in 1 .. Len(u) /\ i + Len(g) - 1 <= Len(u) /\ \A j \in 1 .. Len(g) : u[i + j - 1] = g[j]
    BY <1>1, <1>7 DEF Begins, WholeAt
  <2>2. \A j \in 1 .. Len(g) : i + j - 1 \in 1 .. Len(u)
    BY <2>1, <1>1, <1>7
  <2>3. i + Len(g) - 1 <= Len(both)
    BY <2>1, <1>1, <1>2, <1>7
  <2> QED BY <2>1, <2>2, <2>3, <1>3 DEF WholeAt
<1>8. WholeAt(both, Len(u) + 1, f)
  <2>1. Len(u) + 1 + Len(f) - 1 <= Len(both)
    BY <1>1, <1>2
  <2>2. \A j \in 1 .. Len(f) : Len(u) + 1 + j - 1 = Len(u) + j
    BY <1>1
  <2> QED BY <2>1, <2>2, <1>4 DEF WholeAt
<1> QED BY <1>2, <1>5, <1>7, <1>8 DEF Appended

-----------------------------------------------------------------------------
(* Every step keeps the invariant of every channel.                        *)

\* The channel and the current call of a caller.
LEMMA CallerFacts ==
    ASSUME Shape, NEW c \in Caller
    PROVE  /\ setup.channelOf[c] \in Channel
           /\ callNo[c] \in Nat /\ Len(setup.calls[c]) \in Nat /\ callNo[c] <= Len(setup.calls[c])
           /\ pc[c] # "idle" => callNo[c] \in 1 .. Len(setup.calls[c]) /\ Current(c) \in Call
<1>1. setup.channelOf[c] \in Channel
  BY SetupAssumption DEF Shape
<1>2. Len(setup.calls[c]) \in 0 .. MaxCalls /\ MaxCalls \in Nat
  BY SetupAssumption, RpcAssumption DEF Shape
<1>3. callNo[c] \in 0 .. Len(setup.calls[c]) /\ (pc[c] # "idle" => callNo[c] > 0) /\ setup \in Setups
  BY DEF Shape
<1>4. pc[c] # "idle" => callNo[c] \in 1 .. Len(setup.calls[c])
  BY <1>2, <1>3
<1>5. pc[c] # "idle" => Current(c) \in Call
  BY <1>3, <1>4, CallFacts DEF Current
<1> QED BY <1>1, <1>2, <1>3, <1>4, <1>5

\* The setup never changes, so neither do the calls and their frames.
LEMMA FrameKept ==
    ASSUME NEW k, setup' = setup
    PROVE  /\ Made(k)' = Made(k) /\ Frame(k)' = Frame(k) /\ MethodOf(k)' = MethodOf(k)
           /\ \A r : IsRequest(k, r)' = IsRequest(k, r)
<1>1. Made(k)' = Made(k)
  BY DEF Made
<1>2. Frame(k)' = Frame(k)
  BY <1>1 DEF Frame
<1> QED BY <1>1, <1>2 DEF MethodOf, IsRequest

\* Requests and handlers stay what they are in a step that leaves them alone.
LEMMA WireKept ==
    ASSUME OnWire, Handlers, OneCopy, setup' = setup, UNCHANGED <<toServer, handling, answered>>,
           \A k \in Call : Sent(k) => Sent(k)'
    PROVE  OnWire' /\ Handlers' /\ OneCopy'
<1>1. ASSUME NEW d, NEW i, NEW k
      PROVE  (RequestAt(d, i, k)' <=> RequestAt(d, i, k)) /\ (Handles(d, k)' <=> Handles(d, k))
  BY DEF RequestAt, Begins, Handles
<1>2. \A k : Pending(k) => Pending(k)'
  BY DEF Pending
<1>3. ASSUME NEW k
      PROVE  Frame(k)' = Frame(k) /\ \A r : IsRequest(k, r)' = IsRequest(k, r)
  BY FrameKept
<1>4. OnWire'
  <2> SUFFICES ASSUME NEW d \in Conn
               PROVE  /\ \E S : toServer[d]' \in Seq(S)
                      /\ \A i, k : RequestAt(d, i, k)' => Pending(k)' /\ WholeAt(toServer[d], i, Frame(k))'
    BY DEF OnWire, Conn
  <2>1. \A i, k : RequestAt(d, i, k) => Pending(k) /\ WholeAt(toServer[d], i, Frame(k))
    BY DEF OnWire
  <2>2. ASSUME NEW i, NEW k
        PROVE  WholeAt(toServer[d], i, Frame(k))' <=> WholeAt(toServer[d], i, Frame(k))
    BY <1>3 DEF WholeAt
  <2> QED BY <2>1, <2>2, <1>1, <1>2 DEF OnWire
<1>5. Handlers'
  <2> SUFFICES ASSUME NEW d \in Conn, NEW k, Handles(d, k)'
               PROVE  Pending(k)' /\ IsRequest(k, handling[d])'
    BY DEF Handlers, Conn
  <2>1. Pending(k) /\ IsRequest(k, handling[d])
    BY <1>1 DEF Handlers
  <2>2. PICK r : r = handling[d] /\ r = handling'[d]
    OBVIOUS
  <2>3. IsRequest(k, r)'
    BY <2>1, <2>2, <1>3
  <2>4. IsRequest(k, handling[d])'
    BY <2>2, <2>3
  <2> QED BY <2>1, <2>4, <1>2
<1>6. OneCopy'
  BY <1>1 DEF OneCopy, Conn
<1> QED BY <1>4, <1>5, <1>6

\* Making a call.
LEMMA CallMethodBase ==
    ASSUME BaseInv, NEW c \in Caller, CallMethod(c)
    PROVE  BaseInv'
<1> USE DEF BaseInv
<1>1. /\ pc[c] = "idle" /\ callNo[c] < Len(setup.calls[c])
      /\ pc' = [pc EXCEPT ![c] = IF Fd(c) = NoFd THEN "connect" ELSE "send"]
      /\ callNo' = [callNo EXCEPT ![c] = callNo[c] + 1]
      /\ UNCHANGED <<setup, m_clientFd, sock, link, toServer, toClient, handling, answered, result>>
  BY DEF CallMethod, Goto
<1>2. /\ DOMAIN pc' = Caller /\ DOMAIN callNo' = Caller
      /\ pc'[c] \in {"connect", "send"} /\ callNo'[c] = callNo[c] + 1
      /\ \A e \in Caller : e # c => pc'[e] = pc[e] /\ callNo'[e] = callNo[e]
  BY <1>1 DEF Shape
<1>3. callNo[c] \in Nat /\ Len(setup.calls[c]) \in Nat
  BY CallerFacts
<1>4. Shape'
  BY <1>1, <1>2, <1>3 DEF Shape, Conn
<1>5. ASSUME NEW k \in Call
      PROVE  (Sent(k) => Sent(k)') /\ (Open(k)' => Open(k))
  <2>1. k[1] \in Caller /\ k[2] \in Nat
    BY DEF Call
  <2>2. callNo[k[1]] \in Nat
    BY <2>1, CallerFacts
  <2>3. Sent(k) => Sent(k)'
    BY <2>1, <2>2, <1>1, <1>2 DEF Sent
  <2>4. Open(k)' => Open(k)
    BY <2>1, <2>2, <1>1, <1>2 DEF Open
  <2> QED BY <2>3, <2>4
<1>6. OnWire' /\ Handlers' /\ OneCopy'
  BY <1>1, <1>5, WireKept
<1>7. History'
  <2>1. \A k \in Call : Made(k)' = Made(k) /\ MethodOf(k)' = MethodOf(k)
    BY <1>1, FrameKept
  <2> QED BY <2>1, <1>1, <1>5 DEF History
<1> QED BY <1>4, <1>6, <1>7

\* What a step within a call does to the variables of all callers.
LEMMA PcAfter ==
    ASSUME Shape, NEW c \in Caller, NEW label, label \in {"idle", "connect", "send", "recv", "inRecv"},
           Goto(c, label), callNo' = callNo, setup' = setup, pc[c] # "idle"
    PROVE  /\ DOMAIN pc' = Caller
           /\ pc'[c] = label
           /\ \A e \in Caller : e # c => pc'[e] = pc[e]
           /\ \A e \in Caller : callNo'[e] \in 0 .. Len(setup'.calls[e]) /\ (pc'[e] # "idle" => callNo'[e] > 0)
BY DEF Shape, Goto

\* A step within a call: a request is not unsent, and only a call that ends gets a result.
LEMMA InCall ==
    ASSUME Shape, History, NEW c \in Caller, NEW label, NEW out,
           label \in {"idle", "connect", "send", "recv", "inRecv"},
           setup' = setup, callNo' = callNo, answered' = answered, pc[c] # "idle", Goto(c, label),
           pc[c] \in {"connect", "send"} \/ label \notin {"connect", "send"},
           \/ label # "idle" /\ result' = result
           \/ label = "idle" /\ result' = [result EXCEPT ![Current(c)] = out],
           DOMAIN sock' = Caller, DOMAIN link' = Conn, toServer' = [d \in Conn |-> toServer'[d]], DOMAIN toClient' = Conn,
           DOMAIN handling' = Conn
    PROVE  Shape' /\ History' /\ \A k \in Call : Sent(k) => Sent(k)'
<1>1. /\ DOMAIN pc' = Caller /\ pc'[c] = label /\ \A e \in Caller : e # c => pc'[e] = pc[e]
      /\ \A e \in Caller : callNo'[e] \in 0 .. Len(setup'.calls[e]) /\ (pc'[e] # "idle" => callNo'[e] > 0)
  BY PcAfter
<1>2. DOMAIN result' = Call
  BY DEF Shape
<1>3. Shape'
  BY <1>1, <1>2 DEF Shape, Conn
<1>4. ASSUME NEW k \in Call
      PROVE  /\ Sent(k) => Sent(k)'
             /\ Open(k)' => Open(k) /\ result'[k] = result[k]
  <2>1. k[1] \in Caller /\ k[2] \in Nat /\ k = <<k[1], k[2]>>
    BY DEF Call
  <2>2. callNo[k[1]] \in Nat
    BY <2>1, CallerFacts
  <2>3. Sent(k) => Sent(k)'
    BY <2>1, <2>2, <1>1 DEF Sent
  <2>4. Open(k)' => Open(k)
    BY <2>1, <2>2, <1>1 DEF Open
  <2>5. Open(k)' => result'[k] = result[k]
    <3>1. CASE k = Current(c) /\ label = "idle"
      BY <3>1, <2>1, <2>2, <1>1 DEF Open, Current
    <3>2. CASE k # Current(c) \/ label # "idle"
      BY <3>2 DEF Shape
    <3> QED BY <3>1, <3>2
  <2> QED BY <2>3, <2>4, <2>5
<1>5. History'
  <2>1. \A k \in Call : Made(k)' = Made(k) /\ MethodOf(k)' = MethodOf(k)
    BY FrameKept
  <2> QED BY <2>1, <1>4 DEF History
<1> QED BY <1>3, <1>4, <1>5

\* The steps of a caller that leave the requests on the wire alone.
LEMMA CallerBase ==
    ASSUME BaseInv, NEW c \in Caller,
           Connect(c) \/ ConnectFails(c) \/ SendFails(c) \/ RecvBegins(c) \/ RecvFails(c) \/ Recv(c)
    PROVE  BaseInv'
<1> USE DEF BaseInv
<1>1. setup' = setup /\ callNo' = callNo /\ UNCHANGED <<toServer, handling, answered>>
  BY DEF Connect, ConnectFails, SendFails, RecvBegins, RecvFails, Recv
<1>2. DOMAIN sock' = Caller /\ DOMAIN link' = Conn /\ DOMAIN toClient' = Conn
  BY DEF Shape, Connect, ConnectFails, SendFails, RecvBegins, RecvFails, Recv
<1>3. toServer' = [d \in Conn |-> toServer'[d]] /\ DOMAIN handling' = Conn
  BY <1>1 DEF Shape
<1>4. \E label \in {"idle", "connect", "send", "recv", "inRecv"} :
        /\ Goto(c, label) /\ pc[c] # "idle"
        /\ pc[c] \in {"connect", "send"} \/ label \notin {"connect", "send"}
        /\ \/ label # "idle" /\ result' = result
           \/ label = "idle" /\ \E o : result' = [result EXCEPT ![Current(c)] = o]
  <2>1. CASE Connect(c)
    BY <2>1 DEF Connect
  <2>2. CASE ConnectFails(c)
    BY <2>2 DEF ConnectFails, Returns
  <2>3. CASE SendFails(c)
    BY <2>3 DEF SendFails
  <2>4. CASE RecvBegins(c)
    BY <2>4 DEF RecvBegins
  <2>5. CASE RecvFails(c)
    BY <2>5 DEF RecvFails, Returns
  <2>6. CASE Recv(c)
    BY <2>6 DEF Recv, Returns
  <2> QED BY <2>1, <2>2, <2>3, <2>4, <2>5, <2>6
<1>5. Shape' /\ History' /\ \A k \in Call : Sent(k) => Sent(k)'
  BY <1>1, <1>2, <1>3, <1>4, InCall
<1>6. OnWire' /\ Handlers' /\ OneCopy'
  BY <1>1, <1>5, WireKept
<1> QED BY <1>5, <1>6

\* The request is sent: it is on the wire once.
LEMMA SendBase ==
    ASSUME BaseInv, NEW c \in Caller, Send(c)
    PROVE  BaseInv'
<1> USE DEF BaseInv
<1>1. /\ pc[c] = "send" /\ Goto(c, "recv")
      /\ UNCHANGED <<setup, m_clientFd, callNo, sock, toClient, handling, answered, result>>
  BY DEF Send
<1>2. DOMAIN link' = Conn /\ toServer' = [d \in Conn |-> toServer'[d]]
  <2>1. CASE link[Fd(c)] = "up"
    BY <2>1 DEF Send, Shape
  <2>2. CASE link[Fd(c)] # "up"
    <3>1. toServer' = toServer /\ (link' = link \/ link' = [link EXCEPT ![Fd(c)] = "rst"])
      BY <2>2 DEF Send
    <3> QED BY <3>1 DEF Shape
  <2> QED BY <2>1, <2>2
<1>3. Shape' /\ History' /\ \A k \in Call : Sent(k) => Sent(k)'
  BY <1>1, <1>2, InCall DEF Shape
<1>4. CASE toServer' = toServer
  <2>1. OnWire' /\ Handlers' /\ OneCopy'
    BY <1>1, <1>3, <1>4, WireKept
  <2> QED BY <2>1, <1>3
<1>5. CASE toServer' # toServer
  <2>1. PICK k \in Call : k = Current(c)
    BY <1>1, CallerFacts
  <2>2. callNo[c] \in 1 .. Len(setup.calls[c]) /\ setup \in Setups /\ k = <<c, callNo[c]>> /\ callNo[c] \in Nat
    BY <2>1, <1>1, CallerFacts DEF Shape, Current
  <2>3. ~Sent(k) /\ Sent(k)' /\ answered[k] = None
    <3>1. k[1] = c /\ k[2] = callNo[c]
      BY <2>2
    <3>2. pc'[c] = "recv"
      BY <1>1, PcAfter
    <3>3. ~Sent(k) /\ Sent(k)'
      BY <3>1, <3>2, <2>2, <1>1 DEF Sent
    <3> QED BY <3>3 DEF History
  <2>4. PICK f : f = Frame(k)
    OBVIOUS
  <2>5. PICK x \in Conn : x = Fd(c) /\ toServer' = [toServer EXCEPT ![x] = toServer[x] \o f]
    <3>1. toServer' = [toServer EXCEPT ![Fd(c)] = toServer[Fd(c)] \o f]
      BY <2>1, <2>4, <1>5 DEF Send
    <3>2. Fd(c) \in Conn
      BY <3>1, <1>5 DEF Shape
    <3> QED BY <3>1, <3>2
  <2>6. toServer'[x] = toServer[x] \o f /\ \A d \in Conn : d # x => toServer'[d] = toServer[d]
    BY <2>5 DEF Shape
  <2>7. PICK T : f \in Seq(T)
    <3>1. IsFrame(f, k)
      BY <2>2, <2>4, FrameIsFrame
    <3> QED BY <3>1 DEF IsFrame
  <2>8. /\ Len(f) >= 1 /\ f[1].wire = "size" /\ f[1].call = k
        /\ \A j \in 2 .. Len(f) : f[j].wire # "size"
    <3>1. IsFrame(f, k)
      BY <2>2, <2>4, FrameIsFrame
    <3> QED BY <3>1 DEF IsFrame
  <2>9. PICK u, S : u = toServer[x] /\ u \in Seq(S)
    BY DEF OnWire
  <2>10. PICK both : both = u \o f
    OBVIOUS
  <2>11. Appended(u, f, both)
    BY <2>7, <2>8, <2>9, <2>10, AppendFacts
  <2>12. toServer'[x] = both
    BY <2>6, <2>9, <2>10
  <2>13. \A d \in Conn : \A i : ~RequestAt(d, i, k) /\ ~Handles(d, k)
    BY <2>3 DEF OnWire, Handlers, Pending
  <2>14. ASSUME NEW d \in Conn, NEW i, NEW l
         PROVE  /\ RequestAt(d, i, l)' => RequestAt(d, i, l) \/ (d = x /\ i = Len(u) + 1 /\ l = k)
                /\ Handles(d, l)' <=> Handles(d, l)
    <3>1. CASE d = x
      <4>1. RequestAt(d, i, l)' => Begins(both, i) /\ both[i].call = l
        BY <3>1, <2>12 DEF RequestAt, Begins
      <4>2. Begins(u, i) /\ u[i].call = l => RequestAt(d, i, l)
        BY <3>1, <2>9 DEF RequestAt
      <4> QED BY <4>1, <4>2, <3>1, <2>8, <2>11, <1>1 DEF Handles, Appended
    <3>2. CASE d # x
      BY <3>2, <2>6, <1>1 DEF RequestAt, Begins, Handles
    <3> QED BY <3>1, <3>2
  <2>15. \A l : Pending(l) => Pending(l)'
    BY <1>1, <1>3 DEF Pending
  <2>16. Pending(k)'
    BY <2>3, <1>1 DEF Pending
  <2>17. ASSUME NEW l
         PROVE  Frame(l)' = Frame(l) /\ \A r : IsRequest(l, r)' = IsRequest(l, r)
    BY <1>1, FrameKept
  <2>18. ASSUME NEW l, Pending(l)
         PROVE  Len(Frame(l)) \in Nat
    <3>1. l \in Call /\ Sent(l)
      BY <2>18 DEF Pending
    <3>2. l[1] \in Caller /\ l[2] \in 1 .. Len(setup.calls[l[1]]) /\ l = <<l[1], l[2]>>
      BY <3>1, SentFacts
    <3>3. PICK g : g = Frame(l)
      OBVIOUS
    <3>4. Len(g) \in Nat
      BY <3>2, <3>3, <2>2, FrameOnWire
    <3> QED BY <3>3, <3>4
  <2>19. OnWire'
    <3> SUFFICES ASSUME NEW d \in Conn
                 PROVE  /\ \E R : toServer'[d] \in Seq(R)
                        /\ \A i, l : RequestAt(d, i, l)' => Pending(l)' /\ WholeAt(toServer[d], i, Frame(l))'
      BY DEF OnWire, Conn
    <3>1. \E R : toServer'[d] \in Seq(R)
      BY <2>6, <2>11, <2>12 DEF OnWire, Appended
    <3>2. ASSUME NEW i, NEW l, RequestAt(d, i, l)'
          PROVE  Pending(l)' /\ WholeAt(toServer'[d], i, Frame(l))
      <4>1. CASE RequestAt(d, i, l)
        <5>1. Pending(l) /\ WholeAt(toServer[d], i, Frame(l))
          BY <4>1 DEF OnWire
        <5>2. CASE d # x
          BY <5>1, <5>2, <2>6, <2>15
        <5>3. CASE d = x
          <6>1. Begins(u, i) /\ i \in Nat
            BY <4>1, <5>3, <2>9 DEF RequestAt, Begins
          <6>2. WholeAt(u, i, Frame(l)) /\ Len(Frame(l)) \in Nat
            BY <5>1, <5>3, <2>9, <2>18
          <6>3. WholeAt(both, i, Frame(l))
            BY <6>1, <6>2, <2>11 DEF Appended
          <6> QED BY <6>3, <5>1, <5>3, <2>12, <2>15
        <5> QED BY <5>2, <5>3
      <4>2. CASE d = x /\ i = Len(u) + 1 /\ l = k
        BY <4>2, <2>4, <2>11, <2>12, <2>16 DEF Appended
      <4> QED BY <4>1, <4>2, <3>2, <2>14
    <3>3. ASSUME NEW i, NEW l
          PROVE  WholeAt(toServer[d], i, Frame(l))' <=> WholeAt(toServer'[d], i, Frame(l))
      BY <2>17 DEF WholeAt
    <3> QED BY <3>1, <3>2, <3>3
  <2>20. Handlers'
    <3> SUFFICES ASSUME NEW d \in Conn, NEW l, Handles(d, l)'
                 PROVE  Pending(l)' /\ IsRequest(l, handling[d])'
      BY DEF Handlers, Conn
    <3>1. Pending(l) /\ IsRequest(l, handling[d])
      BY <2>14 DEF Handlers
    <3>2. PICK r : r = handling[d] /\ r = handling'[d]
      BY <1>1
    <3>3. IsRequest(l, r)'
      BY <3>1, <3>2, <2>17
    <3>4. IsRequest(l, handling[d])'
      BY <3>2, <3>3
    <3> QED BY <3>1, <3>4, <2>15
  <2>21. OneCopy'
    <3> SUFFICES ASSUME NEW d \in Conn, NEW e \in Conn, NEW l
                 PROVE  /\ \A i, j : RequestAt(d, i, l)' /\ RequestAt(e, j, l)' => d = e /\ i = j
                        /\ Handles(d, l)' /\ Handles(e, l)' => d = e
                        /\ \A i : ~(Handles(d, l)' /\ RequestAt(e, i, l)')
      BY DEF OneCopy, Conn
    <3>1. ASSUME NEW i, NEW j, RequestAt(d, i, l)', RequestAt(e, j, l)'
          PROVE  d = e /\ i = j
      BY <3>1, <2>13, <2>14 DEF OneCopy
    <3>2. Handles(d, l)' /\ Handles(e, l)' => d = e
      BY <2>14 DEF OneCopy
    <3>3. \A i : ~(Handles(d, l)' /\ RequestAt(e, i, l)')
      BY <2>13, <2>14 DEF OneCopy
    <3> QED BY <3>1, <3>2, <3>3
  <2> QED BY <1>3, <2>19, <2>20, <2>21
<1> QED BY <1>4, <1>5

\* OnMessage takes the one copy of a request off the wire and hands it to the service, or
\* it is lost.
LEMMA OnMessageBase ==
    ASSUME BaseInv, NEW x \in Conn, OnMessage(x)
    PROVE  BaseInv'
<1> USE DEF BaseInv
<1>1. /\ handling[x] = None
      /\ UNCHANGED <<setup, m_clientFd, pc, callNo, sock, link, toClient, answered, result>>
  BY DEF OnMessage
<1>2. PICK u, S : u = toServer[x] /\ u \in Seq(S)
  BY DEF OnWire
<1>3. PICK n \in DOMAIN u :
      /\ toServer' = [toServer EXCEPT ![x] = SubSeq(u, n + 1, Len(u))]
      /\ handling' = [handling EXCEPT ![x] = FirstRequest(SubSeq(u, 1, n))]
  BY <1>2 DEF OnMessage, Arrivals
<1>4. PICK rest, r : rest = SubSeq(u, n + 1, Len(u)) /\ r = FirstRequest(SubSeq(u, 1, n))
  OBVIOUS
<1>5. /\ toServer' = [d \in Conn |-> toServer'[d]] /\ DOMAIN handling' = Conn
      /\ toServer'[x] = rest /\ handling'[x] = r
      /\ \A d \in Conn : d # x => toServer'[d] = toServer[d] /\ handling'[d] = handling[d]
  BY <1>3, <1>4 DEF Shape
<1>6. Shape'
  BY <1>1, <1>5 DEF Shape, Conn
<1>7. \A k \in Call : (Sent(k)' <=> Sent(k)) /\ (Open(k)' <=> Open(k))
  BY <1>1 DEF Sent, Open
<1>8. History'
  <2>1. \A k \in Call : Made(k)' = Made(k) /\ MethodOf(k)' = MethodOf(k)
    BY <1>1, FrameKept
  <2> QED BY <2>1, <1>1, <1>7 DEF History
<1>9. n \in 1 .. Len(u)
  BY <1>2, <1>3
<1>10. Dropped(u, n, rest)
  BY <1>2, <1>4, <1>9, DropFacts
<1>11. ASSUME NEW k
       PROVE  /\ Pending(k)' <=> Pending(k)
              /\ Frame(k)' = Frame(k) /\ \A q : IsRequest(k, q)' = IsRequest(k, q)
  BY <1>1, <1>7, FrameKept DEF Pending
<1>12. ASSUME NEW d \in Conn, NEW i, NEW k, RequestAt(d, i, k)'
       PROVE  /\ d # x => RequestAt(d, i, k)
              /\ d = x => RequestAt(d, i + n, k) /\ i + n # 1 /\ i \in Nat \ {0}
  <2>1. CASE d # x
    BY <2>1, <1>5, <1>12 DEF RequestAt, Begins
  <2>2. CASE d = x
    <3>1. Begins(rest, i) /\ rest[i].call = k
      BY <2>2, <1>5, <1>12 DEF RequestAt, Begins
    <3> QED BY <3>1, <2>2, <1>2, <1>10 DEF RequestAt, Dropped
  <2> QED BY <2>1, <2>2
<1>13. ASSUME NEW k, Pending(k)
       PROVE  /\ k[1] \in Caller /\ k[2] \in 1 .. Len(setup.calls[k[1]]) /\ k = <<k[1], k[2]>>
              /\ Len(Frame(k)) \in Nat
  <2>1. k \in Call /\ Sent(k)
    BY <1>13 DEF Pending
  <2>2. k[1] \in Caller /\ k[2] \in 1 .. Len(setup.calls[k[1]]) /\ k = <<k[1], k[2]>>
    BY <2>1, SentFacts
  <2>3. PICK g : g = Frame(k)
    OBVIOUS
  <2>4. Len(g) \in Nat
    BY <2>2, <2>3, FrameOnWire DEF Shape
  <2> QED BY <2>2, <2>3, <2>4
<1>14. ASSUME r # None
       PROVE  /\ RequestAt(x, 1, r.call) /\ Pending(r.call)
              /\ IsRequest(r.call, r)
  <2>1. SubSeq(u, 1, n)[1] = u[1] /\ 1 \in DOMAIN u
    BY <1>2, <1>9
  <2>2. u[1].wire = "size" /\ r.call = u[1].call
    BY <2>1, <1>4, <1>14 DEF FirstRequest
  <2>3. RequestAt(x, 1, r.call)
    BY <2>1, <2>2, <1>2 DEF RequestAt, Begins
  <2>4. PICK k : k = r.call
    OBVIOUS
  <2>5. Pending(k) /\ WholeAt(u, 1, Frame(k))
    BY <2>3, <2>4, <1>2 DEF OnWire
  <2>6. k[1] \in Caller /\ k[2] \in 1 .. Len(setup.calls[k[1]]) /\ k = <<k[1], k[2]>>
    BY <2>5, <1>13
  <2>7. PICK c \in Caller, i \in 1 .. Len(setup.calls[k[1]]) : c = k[1] /\ i = k[2]
    BY <2>6
  <2>8. k = <<c, i>> /\ i \in 1 .. Len(setup.calls[c])
    BY <2>6, <2>7
  <2>9. IsRequest(<<c, i>>, r)
    BY <2>5, <2>8, <1>2, <1>4, <1>9, <1>14, FirstRequestIsOwn DEF Shape
  <2> QED BY <2>3, <2>4, <2>5, <2>8, <2>9
<1>15. OnWire'
  <2> SUFFICES ASSUME NEW d \in Conn
               PROVE  /\ \E R : toServer'[d] \in Seq(R)
                      /\ \A i, k : RequestAt(d, i, k)' => Pending(k)' /\ WholeAt(toServer[d], i, Frame(k))'
    BY DEF OnWire, Conn
  <2>1. \E R : toServer'[d] \in Seq(R)
    BY <1>5, <1>10 DEF OnWire, Dropped
  <2>2. ASSUME NEW i, NEW k, RequestAt(d, i, k)'
        PROVE  Pending(k)' /\ WholeAt(toServer'[d], i, Frame(k))
    <3>1. CASE d # x
      BY <3>1, <2>2, <1>5, <1>11, <1>12 DEF OnWire
    <3>2. CASE d = x
      <4>1. RequestAt(x, i + n, k) /\ i \in Nat \ {0}
        BY <3>2, <2>2, <1>12
      <4>2. Pending(k) /\ WholeAt(u, i + n, Frame(k))
        BY <4>1, <1>2 DEF OnWire
      <4>3. WholeAt(rest, i, Frame(k))
        BY <4>1, <4>2, <1>10, <1>13 DEF Dropped
      <4> QED BY <4>2, <4>3, <3>2, <1>5, <1>11
    <3> QED BY <3>1, <3>2
  <2>3. ASSUME NEW i, NEW k
        PROVE  WholeAt(toServer[d], i, Frame(k))' <=> WholeAt(toServer'[d], i, Frame(k))
    BY <1>11 DEF WholeAt
  <2> QED BY <2>1, <2>2, <2>3
<1>16. Handlers'
  <2> SUFFICES ASSUME NEW d \in Conn, NEW k, Handles(d, k)'
               PROVE  Pending(k)' /\ IsRequest(k, handling[d])'
    BY DEF Handlers, Conn
  <2>1. PICK q : q = handling'[d] /\ q # None /\ q.call = k
    BY DEF Handles
  <2>2. Pending(k) /\ IsRequest(k, q)
    <3>1. CASE d = x
      BY <3>1, <2>1, <1>5, <1>14
    <3>2. CASE d # x
      <4>1. Handles(d, k) /\ q = handling[d]
        BY <3>2, <2>1, <1>5 DEF Handles
      <4> QED BY <4>1 DEF Handlers
    <3> QED BY <3>1, <3>2
  <2>3. IsRequest(k, q)'
    BY <2>2, <1>11
  <2>4. IsRequest(k, handling[d])'
    BY <2>1, <2>3
  <2> QED BY <2>2, <2>4, <1>11
<1>17. OneCopy'
  <2>1. ASSUME NEW d \in Conn, NEW k, Handles(d, k)'
        PROVE  (d # x => Handles(d, k)) /\ (d = x => RequestAt(x, 1, k))
    BY <2>1, <1>5, <1>14 DEF Handles
  <2> SUFFICES ASSUME NEW d \in Conn, NEW e \in Conn, NEW k
               PROVE  /\ \A i, j : RequestAt(d, i, k)' /\ RequestAt(e, j, k)' => d = e /\ i = j
                      /\ Handles(d, k)' /\ Handles(e, k)' => d = e
                      /\ \A i : ~(Handles(d, k)' /\ RequestAt(e, i, k)')
    BY DEF OneCopy, Conn
  <2>2. ASSUME NEW i, NEW j, RequestAt(d, i, k)', RequestAt(e, j, k)'
        PROVE  d = e /\ i = j
    <3>1. CASE d # x /\ e # x
      BY <3>1, <2>2, <1>12 DEF OneCopy
    <3>2. CASE d = x /\ e # x
      BY <3>2, <2>2, <1>12 DEF OneCopy
    <3>3. CASE d # x /\ e = x
      BY <3>3, <2>2, <1>12 DEF OneCopy
    <3>4. CASE d = x /\ e = x
      <4>1. RequestAt(x, i + n, k) /\ RequestAt(x, j + n, k) /\ i \in Nat \ {0} /\ j \in Nat \ {0}
        BY <3>4, <2>2, <1>12
      <4>2. i + n = j + n
        BY <4>1 DEF OneCopy
      <4> QED BY <4>1, <4>2, <3>4, <1>9
    <3> QED BY <3>1, <3>2, <3>3, <3>4
  <2>3. Handles(d, k)' /\ Handles(e, k)' => d = e
    BY <2>1 DEF OneCopy
  <2>4. ASSUME NEW i, Handles(d, k)', RequestAt(e, i, k)'
        PROVE  FALSE
    <3>1. CASE d # x
      BY <3>1, <2>1, <2>4, <1>12 DEF OneCopy
    <3>2. CASE d = x
      <4>1. RequestAt(x, 1, k)
        BY <3>2, <2>1, <2>4
      <4>2. CASE e # x
        BY <4>1, <4>2, <2>4, <1>12 DEF OneCopy
      <4>3. CASE e = x
        BY <4>1, <4>3, <2>4, <1>12 DEF OneCopy
      <4> QED BY <4>2, <4>3
    <3> QED BY <3>1, <3>2
  <2> QED BY <2>2, <2>3, <2>4
<1> QED BY <1>6, <1>8, <1>15, <1>16, <1>17

\* The one copy of a request is answered and gone: it is not executed a second time.
LEMMA SendRpcResponseBase ==
    ASSUME BaseInv, NEW x \in Conn, SendRpcResponse(x)
    PROVE  BaseInv'
<1> USE DEF BaseInv
<1>1. /\ handling[x] # None
      /\ handling' = [handling EXCEPT ![x] = None]
      /\ UNCHANGED <<setup, m_clientFd, pc, callNo, sock, link, toServer, result>>
  BY DEF SendRpcResponse
<1>2. PICK k : k = handling[x].call
  OBVIOUS
<1>3. Handles(x, k)
  BY <1>1, <1>2 DEF Handles
<1>4. k \in Call /\ Sent(k) /\ IsRequest(k, handling[x])
  BY <1>3 DEF Handlers, Pending
<1>5. PICK m \in Replies(Made(k).service, Made(k).method) :
      /\ Len(Serialize(MethodOf(k).response, m)) <= setup.maxAnswer
      /\ answered' = [answered EXCEPT ![k] = m]
      /\ DOMAIN toClient' = Conn
  <2>1. handling[x].service = Made(k).service /\ handling[x].method = Made(k).method
    BY <1>4 DEF IsRequest
  <2>2. PICK m \in Replies(handling[x].service, handling[x].method) :
        LET schema == m_serviceMap[handling[x].service][handling[x].method].response
        IN  /\ Len(Serialize(schema, m)) <= setup.maxAnswer
            /\ answered' = [answered EXCEPT ![handling[x].call] = m]
            /\ toClient' = [toClient EXCEPT ![x] = toClient[x] \o Serialize(schema, m)]
    BY DEF SendRpcResponse
  <2>3. DOMAIN toClient' = Conn
    BY <2>2 DEF Shape
  <2> QED BY <2>1, <2>2, <2>3, <1>2 DEF MethodOf
<1>6. /\ DOMAIN answered' = Call /\ answered'[k] = m
      /\ \A l \in Call : l # k => answered'[l] = answered[l]
      /\ DOMAIN handling' = Conn /\ handling'[x] = None
      /\ \A d \in Conn : d # x => handling'[d] = handling[d]
  BY <1>1, <1>4, <1>5 DEF Shape
<1>7. Shape'
  BY <1>1, <1>5, <1>6 DEF Shape, Conn
<1>8. \A l \in Call : (Sent(l)' <=> Sent(l)) /\ (Open(l)' <=> Open(l))
  BY <1>1 DEF Sent, Open
<1>9. ASSUME NEW l
      PROVE  /\ Made(l)' = Made(l) /\ MethodOf(l)' = MethodOf(l)
             /\ Frame(l)' = Frame(l) /\ \A q : IsRequest(l, q)' = IsRequest(l, q)
  BY <1>1, FrameKept
<1>10. History'
  <2> SUFFICES ASSUME NEW l \in Call
               PROVE  /\ answered'[l] # None =>
                          /\ Sent(l)'
                          /\ answered'[l] \in Replies(Made(l)'.service, Made(l)'.method)
                          /\ Len(Serialize(MethodOf(l)'.response, answered'[l])) <= setup'.maxAnswer
                      /\ Open(l)' => result'[l] = None
    BY DEF History, Call
  <2>1. CASE l = k
    BY <2>1, <1>1, <1>4, <1>5, <1>6, <1>8, <1>9 DEF History
  <2>2. CASE l # k
    BY <2>2, <1>1, <1>6, <1>8, <1>9 DEF History
  <2> QED BY <2>1, <2>2
<1>11. ASSUME NEW d \in Conn, NEW i, NEW l
       PROVE  /\ RequestAt(d, i, l)' <=> RequestAt(d, i, l)
              /\ Handles(d, l)' => Handles(d, l) /\ d # x
              /\ RequestAt(d, i, l) \/ Handles(d, l)' => l # k
  <2>1. RequestAt(d, i, l)' <=> RequestAt(d, i, l)
    BY <1>1 DEF RequestAt, Begins
  <2>2. Handles(d, l)' => Handles(d, l) /\ d # x
    BY <1>6 DEF Handles
  <2>3. RequestAt(d, i, l) \/ Handles(d, l)' => l # k
    BY <2>2, <1>3 DEF OneCopy
  <2> QED BY <2>1, <2>2, <2>3
<1>12. \A l : Pending(l) /\ l # k => Pending(l)'
  BY <1>6, <1>8 DEF Pending
<1>13. OnWire'
  <2> SUFFICES ASSUME NEW d \in Conn
               PROVE  /\ \E S : toServer'[d] \in Seq(S)
                      /\ \A i, l : RequestAt(d, i, l)' => Pending(l)' /\ WholeAt(toServer[d], i, Frame(l))'
    BY DEF OnWire, Conn
  <2>1. \E S : toServer'[d] \in Seq(S)
    BY <1>1 DEF OnWire
  <2>2. ASSUME NEW i, NEW l
        PROVE  WholeAt(toServer[d], i, Frame(l))' <=> WholeAt(toServer[d], i, Frame(l))
    BY <1>1, <1>9 DEF WholeAt
  <2>3. \A i, l : RequestAt(d, i, l) => Pending(l) /\ WholeAt(toServer[d], i, Frame(l))
    BY DEF OnWire
  <2> QED BY <2>1, <2>2, <2>3, <1>11, <1>12
<1>14. Handlers'
  <2> SUFFICES ASSUME NEW d \in Conn, NEW l, Handles(d, l)'
               PROVE  Pending(l)' /\ IsRequest(l, handling[d])'
    BY DEF Handlers, Conn
  <2>1. Handles(d, l) /\ d # x /\ l # k
    BY <1>11
  <2>2. PICK r : r = handling[d] /\ r = handling'[d]
    BY <2>1, <1>6
  <2>3. Pending(l) /\ IsRequest(l, r)
    BY <2>1, <2>2 DEF Handlers
  <2>4. IsRequest(l, r)'
    BY <2>3, <1>9
  <2>5. IsRequest(l, handling[d])'
    BY <2>2, <2>4
  <2> QED BY <2>1, <2>3, <2>5, <1>12
<1>15. OneCopy'
  BY <1>11 DEF OneCopy, Conn
<1> QED BY <1>7, <1>10, <1>13, <1>14, <1>15

\* Closing the connections loses requests and handlers.
LEMMA ServerClosesBase ==
    ASSUME BaseInv, ServerCloses
    PROVE  BaseInv'
<1> USE DEF BaseInv
<1>1. /\ toServer' = [d \in Conn |-> <<>>] /\ handling' = [d \in Conn |-> None]
      /\ DOMAIN link' = Conn
      /\ UNCHANGED <<setup, m_clientFd, pc, callNo, sock, toClient, answered, result>>
  BY DEF ServerCloses
<1>2. Shape'
  BY <1>1 DEF Shape, Conn
<1>3. \A l \in Call : (Sent(l)' <=> Sent(l)) /\ (Open(l)' <=> Open(l))
  BY <1>1 DEF Sent, Open
<1>4. History'
  <2>1. \A l \in Call : Made(l)' = Made(l) /\ MethodOf(l)' = MethodOf(l)
    BY <1>1, FrameKept
  <2> QED BY <2>1, <1>1, <1>3 DEF History
<1>5. \A d \in Conn : \A i, l : ~RequestAt(d, i, l)' /\ ~Handles(d, l)'
  BY <1>1 DEF RequestAt, Begins, Handles
<1>6. \A d \in Conn : toServer'[d] \in Seq({})
  BY <1>1
<1>7. OnWire'
  BY <1>5, <1>6 DEF OnWire, Conn
<1>8. Handlers' /\ OneCopy'
  BY <1>5 DEF Handlers, OneCopy, Conn
<1> QED BY <1>2, <1>4, <1>7, <1>8

\* Nothing has been sent in the beginning.
LEMMA InitBase ==
    ASSUME Init
    PROVE  BaseInv
<1>1. ASSUME NEW c \in Caller
      PROVE  callNo[c] \in 0 .. Len(setup.calls[c]) /\ (pc[c] # "idle" => callNo[c] > 0)
  <2>1. Len(setup.calls[c]) \in 0 .. MaxCalls /\ MaxCalls \in Nat
    BY SetupAssumption, RpcAssumption DEF Init
  <2>2. callNo[c] = 0 /\ pc[c] = "idle"
    BY DEF Init
  <2> QED BY <2>1, <2>2
<1>2. Shape
  BY <1>1 DEF Init, Shape
<1>3. \A d \in Conn : \A i, l : ~RequestAt(d, i, l) /\ ~Handles(d, l)
  BY DEF Init, RequestAt, Begins, Handles
<1>4. \A d \in Conn : toServer[d] \in Seq({})
  BY DEF Init
<1>5. OnWire /\ Handlers /\ OneCopy
  BY <1>3, <1>4 DEF OnWire, Handlers, OneCopy
<1>6. History
  BY DEF Init, History
<1> QED BY <1>2, <1>5, <1>6 DEF BaseInv

\* No step at all.
LEMMA StutterBase ==
    ASSUME BaseInv, UNCHANGED rpcVars
    PROVE  BaseInv'
<1> USE DEF BaseInv
<1>1. UNCHANGED <<setup, m_clientFd, pc, callNo, sock, link, toServer, toClient, handling, answered, result>>
  BY DEF rpcVars
<1>2. Shape'
  BY <1>1 DEF Shape, Conn
<1>3. \A l \in Call : (Sent(l)' <=> Sent(l)) /\ (Open(l)' <=> Open(l))
  BY <1>1 DEF Sent, Open
<1>4. OnWire' /\ Handlers' /\ OneCopy'
  BY <1>1, <1>3, WireKept
<1>5. History'
  <2>1. \A l \in Call : Made(l)' = Made(l) /\ MethodOf(l)' = MethodOf(l)
    BY <1>1, FrameKept
  <2> QED BY <2>1, <1>1, <1>3 DEF History
<1> QED BY <1>2, <1>4, <1>5

\* Every step keeps the first part of the invariant.
LEMMA NextBase ==
    ASSUME BaseInv, [Next]_rpcVars
    PROVE  BaseInv'
<1>1. ASSUME NEW c \in Caller, CallerStep(c)
      PROVE  BaseInv'
  BY <1>1, CallMethodBase, CallerBase, SendBase DEF CallerStep
<1>2. ASSUME NEW x \in Conn, OnMessage(x) \/ SendRpcResponse(x)
      PROVE  BaseInv'
  BY <1>2, OnMessageBase, SendRpcResponseBase
<1> QED BY <1>1, <1>2, ServerClosesBase, StutterBase DEF Next

-----------------------------------------------------------------------------
(* Every step keeps the invariant of reliable channels.                    *)

\* A channel has a connection or none.
LEMMA FdFacts ==
    ASSUME Shape, Descriptors, NEW c \in Caller
    PROVE  Fd(c) \in Conn \cup {NoFd} /\ NoFd \notin Conn
<1>1. setup.channelOf[c] \in Channel
  BY CallerFacts
<1>2. Fd(c) \in Conn \cup {NoFd}
  BY <1>1 DEF Descriptors, Fd
<1> QED BY <1>2 DEF Conn, NoFd

\* A connection belongs to one caller.
LEMMA OneOwner ==
    ASSUME Reliable, Shape, Descriptors, NEW c \in Caller, NEW e \in Caller, Fd(c) = Fd(e), Fd(c) # NoFd
    PROVE  c = e
<1>1. setup.channelOf[c] \in Channel /\ setup.channelOf[e] \in Channel
  BY CallerFacts
<1>2. setup.channelOf[c] = setup.channelOf[e]
  BY <1>1 DEF Fd, Descriptors
<1> QED BY <1>2 DEF Reliable

\* Giving a channel another connection does not concern the other callers.
LEMMA FdAfter ==
    ASSUME Reliable, Shape, Descriptors, NEW c \in Caller, NEW conn, SetFd(c, conn), setup' = setup
    PROVE  /\ Fd(c)' = conn
           /\ \A e \in Caller : e # c => Fd(e)' = Fd(e)
           /\ DOMAIN m_clientFd' = Channel
           /\ \A ch \in Channel : m_clientFd'[ch] = conn \/ m_clientFd'[ch] = m_clientFd[ch]
           /\ \A ch \in Channel : ch # setup.channelOf[c] => m_clientFd'[ch] = m_clientFd[ch]
<1>1. \A e \in Caller : setup.channelOf[e] \in Channel
  BY CallerFacts
<1>2. \A e \in Caller : e # c => setup.channelOf[e] # setup.channelOf[c]
  BY DEF Reliable
<1> QED BY <1>1, <1>2 DEF SetFd, Fd, Descriptors

\* A connection stays busy with a call that goes on waiting.
LEMMA ServesKept ==
    ASSUME NEW c \in Caller, NEW d \in Conn, Serves(c, d), setup' = setup, Fd(c)' = Fd(c),
           callNo'[c] = callNo[c], pc'[c] \in {"recv", "inRecv"},
           answered'[Current(c)] = answered[Current(c)],
           toClient'[d] = toClient[d], toServer'[d] = toServer[d], handling'[d] = handling[d]
    PROVE  Serves(c, d)'
<1>1. PICK k : k = Current(c)
  OBVIOUS
<1>2. Current(c)' = k
  BY <1>1 DEF Current
<1>3. Frame(k)' = Frame(k)
  BY FrameKept
<1>4. Frame(Current(c))' = Frame(k)'
  BY <1>2
<1> QED BY <1>1, <1>2, <1>3, <1>4 DEF Serves, Waits

\* So does the answer to it.
LEMMA AnswerKept ==
    ASSUME NEW c \in Caller, AnswerFor(c), setup' = setup, Fd(c)' = Fd(c), callNo'[c] = callNo[c],
           Waits(c) => pc'[c] \in {"recv", "inRecv"},
           answered'[Current(c)] = answered[Current(c)], Fd(c) # NoFd => toClient'[Fd(c)] = toClient[Fd(c)]
    PROVE  AnswerFor(c)'
<1>1. PICK k : k = Current(c)
  OBVIOUS
<1>2. Current(c)' = k
  BY <1>1 DEF Current
<1>3. MethodOf(k)' = MethodOf(k)
  BY FrameKept
<1>4. MethodOf(Current(c))' = MethodOf(k)'
  BY <1>2
<1> QED BY <1>1, <1>2, <1>3, <1>4 DEF AnswerFor, Waits

\* Steps that leave the wire alone leave a connection busy with a call that goes on waiting.
LEMMA OwnedKept ==
    ASSUME Owned, setup' = setup, UNCHANGED <<toServer, handling, answered>>,
           \A c \in Caller, d \in Conn :
               Serves(c, d) /\ ~Quiet(d)
               => /\ Fd(c)' = Fd(c) /\ callNo'[c] = callNo[c] /\ pc'[c] \in {"recv", "inRecv"}
                  /\ toClient'[d] = toClient[d]
    PROVE  Owned'
<1> SUFFICES ASSUME NEW d \in Conn
             PROVE  Quiet(d)' \/ \E c \in Caller : Serves(c, d)'
  BY DEF Owned, Conn
<1>1. CASE Quiet(d)
  BY <1>1 DEF Quiet
<1>2. CASE ~Quiet(d)
  <2>1. PICK c \in Caller : Serves(c, d)
    BY <1>2 DEF Owned
  <2>2. Serves(c, d)'
    BY <2>1, <1>2, ServesKept
  <2> QED BY <2>2
<1> QED BY <1>1, <1>2

\* Making a call.
LEMMA CallMethodStep ==
    ASSUME Reliable, BaseInv, RelInv, NEW c \in Caller, CallMethod(c)
    PROVE  RelInv'
<1> USE DEF BaseInv, RelInv
<1>1. /\ pc[c] = "idle"
      /\ pc' = [pc EXCEPT ![c] = IF Fd(c) = NoFd THEN "connect" ELSE "send"]
      /\ callNo' = [callNo EXCEPT ![c] = callNo[c] + 1]
      /\ UNCHANGED <<setup, m_clientFd, sock, link, toServer, toClient, handling, answered, result>>
  BY DEF CallMethod, Goto
<1>2. /\ pc'[c] \in {"connect", "send"}
      /\ \A e \in Caller : e # c => pc'[e] = pc[e] /\ callNo'[e] = callNo[e]
      /\ \A e \in Caller : Fd(e)' = Fd(e)
  BY <1>1 DEF Shape, Fd
<1>3. Descriptors' /\ DownIsQuiet'
  BY <1>1 DEF Descriptors, DownIsQuiet, Quiet, Conn
<1>4. OnOwnConnection'
  BY <1>1, <1>2 DEF OnOwnConnection, Waits
<1>5. Owned'
  BY <1>1, <1>2, OwnedKept DEF Serves, Waits
<1>6. AnswerOnTheWay'
  <2> SUFFICES ASSUME NEW e \in Caller PROVE AnswerFor(e)'
    BY DEF AnswerOnTheWay
  <2>1. CASE e = c
    BY <2>1, <1>1, <1>2 DEF AnswerOnTheWay, AnswerFor, Waits
  <2>2. CASE e # c
    BY <2>2, <1>1, <1>2, AnswerKept DEF AnswerOnTheWay, Waits
  <2> QED BY <2>1, <2>2
<1> QED BY <1>3, <1>4, <1>5, <1>6

\* The channel is connected.
LEMMA ConnectStep ==
    ASSUME Reliable, BaseInv, RelInv, NEW c \in Caller, Connect(c)
    PROVE  RelInv'
<1> USE DEF BaseInv, RelInv
<1>1. /\ pc[c] = "connect" /\ Goto(c, "send")
      /\ UNCHANGED <<setup, callNo, sock, toServer, toClient, handling, answered, result>>
  BY DEF Connect
<1>2. PICK conn \in Conn :
      /\ link[conn] = "unused" /\ link' = [link EXCEPT ![conn] = "up"]
      /\ SetFd(c, conn)
  BY DEF Connect
<1>3. /\ Fd(c)' = conn
      /\ \A e \in Caller : e # c => Fd(e)' = Fd(e)
      /\ DOMAIN m_clientFd' = Channel
      /\ \A ch \in Channel : m_clientFd'[ch] = conn \/ m_clientFd'[ch] = m_clientFd[ch]
      /\ \A ch \in Channel : ch # setup.channelOf[c] => m_clientFd'[ch] = m_clientFd[ch]
  BY <1>1, <1>2, FdAfter
<1>4. pc'[c] = "send" /\ \A e \in Caller : e # c => pc'[e] = pc[e]
  BY <1>1, PcAfter
<1>5. Descriptors'
  <2>1. \A ch \in Channel : m_clientFd[ch] # conn
    BY <1>2 DEF Descriptors, Conn, NoFd
  <2>2. conn # NoFd /\ setup.channelOf[c] \in Channel
    BY CallerFacts, FdFacts
  <2>3. link'[conn] = "up" /\ \A d \in Conn : d # conn => link'[d] = link[d]
    BY <1>2 DEF Shape
  <2> QED BY <2>1, <2>2, <2>3, <1>3 DEF Descriptors, Conn
<1>6. OnOwnConnection'
  BY <1>1, <1>3, <1>4 DEF OnOwnConnection, Waits
<1>7. DownIsQuiet'
  BY <1>1, <1>2 DEF DownIsQuiet, Quiet, Shape, Conn
<1>8. Owned'
  BY <1>1, <1>3, <1>4, OwnedKept DEF Serves, Waits
<1>9. AnswerOnTheWay'
  <2> SUFFICES ASSUME NEW e \in Caller PROVE AnswerFor(e)'
    BY DEF AnswerOnTheWay
  <2>1. CASE e = c
    BY <2>1, <1>1, <1>2, <1>3 DEF AnswerFor, DownIsQuiet
  <2>2. CASE e # c
    BY <2>2, <1>1, <1>3, <1>4, AnswerKept DEF AnswerOnTheWay, Waits
  <2> QED BY <2>1, <2>2
<1> QED BY <1>5, <1>6, <1>7, <1>8, <1>9

\* A caller that gives the connection up, none being busy with its call.
LEMMA GivesUp ==
    ASSUME Reliable, BaseInv, RelInv, NEW c \in Caller, NEW label, label \in {"idle", "connect"},
           pc[c] # "idle", SetFd(c, NoFd), Goto(c, label),
           \A d \in Conn : Serves(c, d) => Quiet(d),
           UNCHANGED <<setup, callNo, sock, link, toServer, toClient, handling, answered>>
    PROVE  RelInv'
<1> USE DEF BaseInv, RelInv
<1>1. /\ Fd(c)' = NoFd
      /\ \A e \in Caller : e # c => Fd(e)' = Fd(e)
      /\ DOMAIN m_clientFd' = Channel
      /\ \A ch \in Channel : m_clientFd'[ch] = NoFd \/ m_clientFd'[ch] = m_clientFd[ch]
  BY FdAfter
<1>2. pc'[c] = label /\ \A e \in Caller : e # c => pc'[e] = pc[e]
  BY PcAfter
<1>3. Descriptors'
  BY <1>1 DEF Descriptors, Conn
<1>4. OnOwnConnection'
  BY <1>1, <1>2 DEF OnOwnConnection, Waits
<1>5. DownIsQuiet'
  BY DEF DownIsQuiet, Quiet, Conn
<1>6. Owned'
  BY <1>1, <1>2, OwnedKept DEF Serves, Waits
<1>7. AnswerOnTheWay'
  <2> SUFFICES ASSUME NEW e \in Caller PROVE AnswerFor(e)'
    BY DEF AnswerOnTheWay
  <2>1. CASE e = c
    BY <2>1, <1>1 DEF AnswerFor, NoFd
  <2>2. CASE e # c
    BY <2>2, <1>1, <1>2, AnswerKept DEF AnswerOnTheWay, Waits
  <2> QED BY <2>1, <2>2
<1> QED BY <1>3, <1>4, <1>5, <1>6, <1>7

\* A failed connect, send or recv, each of which drops the connection.
LEMMA FailingSteps ==
    ASSUME Reliable, BaseInv, RelInv, NEW c \in Caller, ConnectFails(c) \/ SendFails(c) \/ RecvFails(c)
    PROVE  RelInv'
<1>1. CASE ConnectFails(c)
  <2>1. \A d \in Conn : Serves(c, d) => Quiet(d)
    BY <1>1 DEF ConnectFails, Serves, Waits
  <2> QED BY <2>1, <1>1, GivesUp DEF ConnectFails, Returns
<1>2. CASE SendFails(c)
  <2>1. \A d \in Conn : Serves(c, d) => Quiet(d)
    BY <1>2 DEF SendFails, Serves, Waits
  <2> QED BY <2>1, <1>2, GivesUp DEF SendFails
<1>3. CASE RecvFails(c)
  <2>1. pc[c] = "inRecv" /\ (sock[c] = NoFd \/ link[sock[c]] = "rst")
    BY <1>3 DEF RecvFails
  <2>2. Fd(c) # NoFd /\ sock[c] = Fd(c)
    BY <2>1 DEF RelInv, OnOwnConnection, Waits
  <2>3. \A d \in Conn : Serves(c, d) => Quiet(d)
    BY <2>1, <2>2 DEF RelInv, DownIsQuiet, Serves
  <2> QED BY <2>1, <2>3, <1>3, GivesUp DEF RecvFails, Returns
<1> QED BY <1>1, <1>2, <1>3

\* Before it sends, a caller has nothing on its connection.
LEMMA QuietBetween ==
    ASSUME Reliable, BaseInv, RelInv, NEW c \in Caller, ~Waits(c), Fd(c) # NoFd
    PROVE  Quiet(Fd(c)) /\ toClient[Fd(c)] = <<>>
<1> USE DEF BaseInv, RelInv
<1>1. Fd(c) \in Conn
  BY FdFacts
<1>2. Quiet(Fd(c)) \/ \E e \in Caller : Serves(e, Fd(c))
  BY <1>1 DEF Owned
<1>3. ASSUME NEW e \in Caller, Serves(e, Fd(c))
      PROVE  FALSE
  <2>1. Fd(e) = Fd(c) /\ Waits(e)
    BY <1>3 DEF Serves
  <2> QED BY <2>1, OneOwner
<1>4. toClient[Fd(c)] = <<>>
  BY DEF AnswerOnTheWay, AnswerFor
<1> QED BY <1>2, <1>3, <1>4

\* The request is sent, or lost on a connection that the server has closed.
LEMMA SendStep ==
    ASSUME Reliable, BaseInv, RelInv, NEW c \in Caller, Send(c)
    PROVE  RelInv'
<1> USE DEF BaseInv, RelInv
<1>1. /\ pc[c] = "send" /\ Goto(c, "recv")
      /\ Fd(c) # NoFd /\ link[Fd(c)] \in {"up", "fin"}
      /\ UNCHANGED <<setup, m_clientFd, callNo, sock, toClient, handling, answered, result>>
  BY DEF Send
<1>2. pc'[c] = "recv" /\ \A e \in Caller : e # c => pc'[e] = pc[e]
  BY <1>1, PcAfter
<1>3. PICK d \in Conn : d = Fd(c)
  BY <1>1, FdFacts
<1>4. Quiet(d) /\ toClient[d] = <<>>
  BY <1>1, <1>3, QuietBetween DEF Waits
<1>5. \A e \in Caller : Fd(e)' = Fd(e)
  BY <1>1 DEF Fd
<1>6. callNo[c] \in 1 .. Len(setup.calls[c]) /\ Current(c) \in Call /\ setup \in Setups
  BY <1>1, CallerFacts DEF Shape
<1>7. /\ DOMAIN link' = Conn
      /\ \A x \in Conn : x # d => link'[x] = link[x] /\ toServer'[x] = toServer[x]
      /\ link'[d] # "unused"
      /\ \/ link'[d] = "up" /\ toServer'[d] = toServer[d] \o Frame(Current(c))
         \/ link'[d] # "up" /\ toServer'[d] = toServer[d]
  <2>1. CASE link[Fd(c)] = "up"
    BY <2>1, <1>3 DEF Send, Shape
  <2>2. CASE link[Fd(c)] # "up"
    <3>1. toServer' = toServer /\ (link' = link \/ link' = [link EXCEPT ![Fd(c)] = "rst"])
      BY <2>2 DEF Send
    <3> QED BY <3>1, <2>2, <1>1, <1>3 DEF Shape
  <2> QED BY <2>1, <2>2
<1>8. Descriptors'
  BY <1>1, <1>7 DEF Descriptors, Conn
<1>9. OnOwnConnection'
  BY <1>1, <1>2, <1>5 DEF OnOwnConnection, Waits
<1>10. DownIsQuiet'
  BY <1>1, <1>4, <1>7 DEF DownIsQuiet, Quiet, Conn
<1>11. Owned'
  <2> SUFFICES ASSUME NEW x \in Conn
               PROVE  Quiet(x)' \/ \E e \in Caller : Serves(e, x)'
    BY DEF Owned, Conn
  <2>1. CASE x # d
    <3>1. CASE Quiet(x)
      BY <3>1, <2>1, <1>1, <1>7 DEF Quiet
    <3>2. CASE ~Quiet(x)
      <4>1. PICK e \in Caller : Serves(e, x)
        BY <3>2 DEF Owned
      <4>2. Serves(e, x)'
        BY <4>1, <2>1, <1>1, <1>2, <1>5, <1>7, ServesKept DEF Serves, Waits
      <4> QED BY <4>2
    <3> QED BY <3>1, <3>2
  <2>2. CASE x = d /\ link'[d] # "up"
    BY <2>2, <1>1, <1>4, <1>7 DEF Quiet
  <2>3. CASE x = d /\ link'[d] = "up"
    <3>1. PICK k : k = Current(c)
      OBVIOUS
    <3>2. Current(c)' = k
      BY <3>1, <1>1 DEF Current
    <3>3. PICK f : f = Frame(k)
      OBVIOUS
    <3>4. <<>> \o f = f
      BY <3>1, <3>3, <1>6, FrameOnWire DEF Current
    <3>5. toServer'[d] = f /\ handling'[d] = None /\ toClient'[d] = <<>>
      BY <3>1, <3>3, <3>4, <2>3, <1>1, <1>4, <1>7 DEF Quiet
    <3>6. Frame(k)' = f
      BY <3>3, <1>1, FrameKept
    <3>7. Frame(Current(c))' = f
      BY <3>2, <3>6
    <3>8. ~Sent(k)
      <4>1. callNo[c] \in Nat
        BY <1>6, CallerFacts
      <4> QED BY <4>1, <3>1, <1>1 DEF Sent, Current
    <3>9. answered[k] = None
      BY <3>1, <3>8, <1>6 DEF History
    <3>10. Serves(c, d)'
      BY <3>2, <3>5, <3>7, <3>9, <1>1, <1>2, <1>3, <1>5 DEF Serves, Waits
    <3> QED BY <3>10, <2>3
  <2> QED BY <2>1, <2>2, <2>3
<1>12. AnswerOnTheWay'
  <2> SUFFICES ASSUME NEW e \in Caller PROVE AnswerFor(e)'
    BY DEF AnswerOnTheWay
  <2> QED BY <1>1, <1>2, <1>5, AnswerKept DEF AnswerOnTheWay, Waits
<1> QED BY <1>8, <1>9, <1>10, <1>11, <1>12

\* recv is called.
LEMMA RecvBeginsStep ==
    ASSUME Reliable, BaseInv, RelInv, NEW c \in Caller, RecvBegins(c)
    PROVE  RelInv'
<1> USE DEF BaseInv, RelInv
<1>1. /\ pc[c] = "recv" /\ Goto(c, "inRecv") /\ sock' = [sock EXCEPT ![c] = Fd(c)]
      /\ UNCHANGED <<setup, m_clientFd, callNo, link, toServer, toClient, handling, answered, result>>
  BY DEF RecvBegins
<1>2. pc'[c] = "inRecv" /\ \A e \in Caller : e # c => pc'[e] = pc[e]
  BY <1>1, PcAfter
<1>3. \A e \in Caller : Fd(e)' = Fd(e)
  BY <1>1 DEF Fd
<1>4. Descriptors' /\ DownIsQuiet'
  BY <1>1 DEF Descriptors, DownIsQuiet, Quiet, Conn
<1>5. OnOwnConnection'
  BY <1>1, <1>2, <1>3 DEF OnOwnConnection, Waits, Shape
<1>6. Owned'
  BY <1>1, <1>2, <1>3, OwnedKept DEF Serves, Waits
<1>7. AnswerOnTheWay'
  <2> SUFFICES ASSUME NEW e \in Caller PROVE AnswerFor(e)'
    BY DEF AnswerOnTheWay
  <2> QED BY <1>1, <1>2, <1>3, AnswerKept DEF AnswerOnTheWay, Waits
<1> QED BY <1>4, <1>5, <1>6, <1>7

\* The answer to a call can be written and read again.
LEMMA AnswerFacts ==
    ASSUME BaseInv, NEW c \in Caller, Waits(c), answered[Current(c)] # None
    PROVE  LET response == MethodOf(Current(c)).response
               units == Serialize(response, answered[Current(c)])
           IN  /\ Contents(units) /\ Len(units) <= setup.maxAnswer
               /\ Parse(response, units) = [ok |-> TRUE, msg |-> answered[Current(c)]]
<1>1. callNo[c] \in 1 .. Len(setup.calls[c]) /\ Current(c) \in Call /\ setup \in Setups
  BY CallerFacts DEF BaseInv, Waits, Shape
<1>2. /\ Made(Current(c)).service \in DOMAIN m_serviceMap
      /\ Made(Current(c)).method \in DOMAIN m_serviceMap[Made(Current(c)).service]
  BY <1>1, CallFacts DEF Current
<1>3. /\ answered[Current(c)] \in Replies(Made(Current(c)).service, Made(Current(c)).method)
      /\ Len(Serialize(MethodOf(Current(c)).response, answered[Current(c)])) <= setup.maxAnswer
  BY <1>1 DEF BaseInv, History
<1> QED BY <1>2, <1>3, ReplyAssumption DEF MethodOf

\* What recv takes of an answer that fits and is not split: all of it.
LEMMA TakesAll ==
    ASSUME ~setup.split, NEW units, units = <<>> \/ Contents(units), Len(units) <= RecvSize,
           NEW n \in Received(units)
    PROVE  /\ SubSeq(units, n + 1, Len(units)) = <<>>
           /\ SubSeq(units, 1, n) = units
           /\ n > 0 => units # <<>>
<1>1. PICK S : units \in Seq(S)
  <2>1. CASE units = <<>>
    <3>1. units \in Seq({})
      BY <2>1
    <3> QED BY <3>1
  <2>2. CASE Contents(units)
    BY <2>2, ContentsSeq
  <2> QED BY <2>1, <2>2
<1>2. Len(units) \in Nat /\ RecvSize \in Nat
  BY <1>1, RpcAssumption
<1>3. n = Len(units)
  BY <1>2 DEF Received
<1>4. SubSeq(units, Len(units) + 1, Len(units)) = <<>> /\ SubSeq(units, 1, Len(units)) = units
  BY <1>1
<1>5. Len(units) > 0 => units # <<>>
  BY <1>1
<1> QED BY <1>3, <1>4, <1>5

\* What recv returns with: the answer to the caller's request, in one piece, or nothing,
\* which only a connection that the server has closed can mean.
LEMMA RecvFacts ==
    ASSUME Reliable, BaseInv, RelInv, NEW c \in Caller, Recv(c)
    PROVE  /\ sock[c] = Fd(c) /\ Fd(c) \in Conn /\ Waits(c)
           /\ Quiet(Fd(c))
           /\ toClient' = [toClient EXCEPT ![Fd(c)] = <<>>]
           /\ \/ /\ answered[Current(c)] # None
                 /\ result' = [result EXCEPT ![Current(c)] = [failed |-> FALSE, msg |-> answered[Current(c)]]]
              \/ result' = [result EXCEPT ![Current(c)] =
                                [failed |-> FALSE, msg |-> Clear(MethodOf(Current(c)).response)]]
<1>1. pc[c] = "inRecv" /\ sock[c] # NoFd
  BY DEF Recv
<1>2. sock[c] = Fd(c) /\ Fd(c) \in Conn /\ Waits(c)
  BY <1>1, FdFacts DEF BaseInv, RelInv, OnOwnConnection, Waits
<1>3. ~setup.split /\ setup.maxAnswer <= RecvSize /\ setup.maxAnswer \in Nat
  BY SetupAssumption DEF Reliable, BaseInv, Shape
<1> DEFINE units == toClient[Fd(c)]
<1>4. PICK n \in Received(units) :
      /\ n > 0 \/ link[Fd(c)] = "fin"
      /\ toClient' = [toClient EXCEPT ![Fd(c)] = SubSeq(units, n + 1, Len(units))]
      /\ result' = [result EXCEPT ![Current(c)] = Outcome(Current(c), SubSeq(units, 1, n))]
  BY <1>2 DEF Recv, Returns
<1>5. units # <<>> => answered[Current(c)] # None
                      /\ units = Serialize(MethodOf(Current(c)).response, answered[Current(c)])
  BY <1>1, <1>2 DEF RelInv, AnswerOnTheWay, AnswerFor
<1>6. units = <<>> \/ Contents(units)
  BY <1>2, <1>5, AnswerFacts
<1>7. Len(units) <= RecvSize
  <2>1. CASE units = <<>>
    <3>1. Len(<<>>) = 0
      OBVIOUS
    <3> QED BY <3>1, <2>1, RpcAssumption
  <2>2. CASE units # <<>>
    <3>1. Len(units) <= setup.maxAnswer /\ Contents(units)
      BY <2>2, <1>2, <1>5, AnswerFacts
    <3>2. Len(units) \in Nat /\ RecvSize \in Nat
      BY <3>1, RpcAssumption DEF Contents
    <3> QED BY <3>1, <3>2, <1>3
  <2> QED BY <2>1, <2>2
<1> HIDE DEF units
<1>8. /\ SubSeq(units, n + 1, Len(units)) = <<>>
      /\ SubSeq(units, 1, n) = units
      /\ n > 0 => units # <<>>
  BY <1>3, <1>6, <1>7, TakesAll
<1>9. toClient' = [toClient EXCEPT ![Fd(c)] = <<>>] /\ result' = [result EXCEPT ![Current(c)] = Outcome(Current(c), units)]
  BY <1>4, <1>8
<1>10. Quiet(Fd(c))
  <2>1. CASE units = <<>>
    BY <2>1, <1>2, <1>4, <1>8 DEF RelInv, DownIsQuiet
  <2>2. CASE units # <<>>
    <3>1. ~\E e \in Caller : Serves(e, Fd(c))
      BY <2>2 DEF Serves, units
    <3> QED BY <3>1, <1>2 DEF RelInv, Owned
  <2> QED BY <2>1, <2>2
<1>11. Outcome(Current(c), units) = IF units = <<>> THEN [failed |-> FALSE, msg |-> Clear(MethodOf(Current(c)).response)]
                                    ELSE [failed |-> FALSE, msg |-> answered[Current(c)]]
  <2>1. CASE units = <<>>
    <3>1. callNo[c] \in 1 .. Len(setup.calls[c]) /\ setup \in Setups
      BY <1>1, CallerFacts DEF BaseInv, Shape
    <3>2. /\ Made(Current(c)).service \in DOMAIN m_serviceMap
          /\ Made(Current(c)).method \in DOMAIN m_serviceMap[Made(Current(c)).service]
      BY <3>1, CallFacts DEF Current
    <3>3. Parse(MethodOf(Current(c)).response, <<>>) = [ok |-> TRUE, msg |-> Clear(MethodOf(Current(c)).response)]
      BY <3>2, ReplyAssumption DEF MethodOf
    <3>4. Parse(MethodOf(Current(c)).response, units) = [ok |-> TRUE, msg |-> Clear(MethodOf(Current(c)).response)]
      BY <3>3, <2>1
    <3>5. Outcome(Current(c), units) = [failed |-> FALSE, msg |-> Clear(MethodOf(Current(c)).response)]
      BY <3>4 DEF Outcome
    <3> QED BY <3>5, <2>1
  <2>2. CASE units # <<>>
    <3>1. Parse(MethodOf(Current(c)).response, units) = [ok |-> TRUE, msg |-> answered[Current(c)]]
      BY <2>2, <1>2, <1>5, AnswerFacts
    <3> QED BY <3>1, <2>2 DEF Outcome
  <2> QED BY <2>1, <2>2
<1> QED BY <1>2, <1>5, <1>9, <1>10, <1>11

\* recv returns with the answer, or with nothing.
LEMMA RecvStep ==
    ASSUME Reliable, BaseInv, RelInv, NEW c \in Caller, Recv(c)
    PROVE  RelInv'
<1> USE DEF BaseInv, RelInv
<1>1. /\ pc[c] = "inRecv" /\ Goto(c, "idle")
      /\ UNCHANGED <<setup, m_clientFd, callNo, sock, link, toServer, handling, answered>>
  BY DEF Recv, Returns
<1>2. PICK d \in Conn : d = Fd(c)
  BY RecvFacts
<1>3. Quiet(d) /\ toClient' = [toClient EXCEPT ![d] = <<>>]
  BY <1>2, RecvFacts
<1>4. pc'[c] = "idle" /\ \A e \in Caller : e # c => pc'[e] = pc[e]
  BY <1>1, PcAfter
<1>5. \A e \in Caller : Fd(e)' = Fd(e)
  BY <1>1 DEF Fd
<1>6. toClient'[d] = <<>> /\ \A x \in Conn : x # d => toClient'[x] = toClient[x]
  BY <1>3 DEF Shape
<1>7. Descriptors' /\ DownIsQuiet'
  BY <1>1, <1>6 DEF Descriptors, DownIsQuiet, Quiet, Conn
<1>8. OnOwnConnection'
  BY <1>1, <1>4, <1>5 DEF OnOwnConnection, Waits
<1>9. Owned'
  <2>1. ASSUME NEW e \in Caller, NEW x \in Conn, Serves(e, x), ~Quiet(x)
        PROVE  Fd(e)' = Fd(e) /\ callNo'[e] = callNo[e] /\ pc'[e] \in {"recv", "inRecv"} /\ toClient'[x] = toClient[x]
    <3>1. x # d
      BY <2>1, <1>3
    <3>2. e # c
      BY <2>1, <3>1, <1>2 DEF Serves
    <3> QED BY <3>1, <3>2, <2>1, <1>1, <1>4, <1>5, <1>6 DEF Serves, Waits
  <2> QED BY <2>1, <1>1, OwnedKept
<1>10. AnswerOnTheWay'
  <2> SUFFICES ASSUME NEW e \in Caller PROVE AnswerFor(e)'
    BY DEF AnswerOnTheWay
  <2>1. CASE e = c
    BY <2>1, <1>2, <1>5, <1>6 DEF AnswerFor
  <2>2. CASE e # c
    <3>1. Fd(e) # NoFd => Fd(e) \in Conn /\ Fd(e) # d
      BY <2>2, <1>2, OneOwner, FdFacts
    <3> QED BY <3>1, <2>2, <1>1, <1>4, <1>5, <1>6, AnswerKept DEF AnswerOnTheWay, Waits
  <2> QED BY <2>1, <2>2
<1> QED BY <1>7, <1>8, <1>9, <1>10

\* A frame that is not split arrives as a whole, and is taken as a whole.
LEMMA TakesFrame ==
    ASSUME NEW S, NEW f \in Seq(S), NEW n \in DOMAIN f, \A j \in 2 .. Len(f) : f[j].wire # "size",
           n = Len(f) \/ f[n + 1].wire = "size"
    PROVE  SubSeq(f, n + 1, Len(f)) = <<>> /\ SubSeq(f, 1, n)[1] = f[1]
<1>1. n \in 1 .. Len(f) /\ Len(f) \in Nat
  OBVIOUS
<1>2. n # Len(f) => n + 1 \in 2 .. Len(f)
  BY <1>1
<1>3. n = Len(f)
  BY <1>2
<1> QED BY <1>1, <1>3

\* A request is that of the call it begins with.
LEMMA FirstRequestCall ==
    ASSUME NEW buf
    PROVE  FirstRequest(buf) = None \/ FirstRequest(buf).call = buf[1].call
<1>1. PICK r : r = FirstRequest(buf)
  OBVIOUS
<1>2. r # None => r.call = buf[1].call
  BY <1>1 DEF FirstRequest
<1> QED BY <1>1, <1>2

\* OnMessage takes the request that has arrived, and hands it to the service or drops it.
LEMMA OnMessageStep ==
    ASSUME Reliable, BaseInv, RelInv, NEW d \in Conn, OnMessage(d)
    PROVE  RelInv'
<1> USE DEF BaseInv, RelInv
<1>1. /\ link[d] = "up" /\ handling[d] = None
      /\ UNCHANGED <<setup, m_clientFd, pc, callNo, sock, link, toClient, answered, result>>
  BY DEF OnMessage
<1>2. PICK n \in DOMAIN toServer[d] :
      /\ n = Len(toServer[d]) \/ toServer[d][n + 1].wire = "size"
      /\ toServer' = [toServer EXCEPT ![d] = SubSeq(toServer[d], n + 1, Len(toServer[d]))]
      /\ handling' = [handling EXCEPT ![d] = FirstRequest(SubSeq(toServer[d], 1, n))]
  BY DEF OnMessage, Arrivals, Reliable
<1>3. /\ toServer'[d] = SubSeq(toServer[d], n + 1, Len(toServer[d]))
      /\ handling'[d] = FirstRequest(SubSeq(toServer[d], 1, n))
      /\ \A x \in Conn : x # d => toServer'[x] = toServer[x] /\ handling'[x] = handling[x]
  BY <1>2 DEF Shape
<1>4. \A e \in Caller : Fd(e)' = Fd(e)
  BY <1>1 DEF Fd
<1>5. Descriptors'
  BY <1>1 DEF Descriptors, Conn
<1>6. OnOwnConnection'
  BY <1>1, <1>4 DEF OnOwnConnection, Waits
<1>7. DownIsQuiet'
  BY <1>1, <1>3 DEF DownIsQuiet, Quiet, Conn
<1>8. Owned'
  <2> SUFFICES ASSUME NEW x \in Conn
               PROVE  Quiet(x)' \/ \E e \in Caller : Serves(e, x)'
    BY DEF Owned, Conn
  <2>1. CASE x # d
    <3>1. CASE Quiet(x)
      BY <3>1, <2>1, <1>3 DEF Quiet
    <3>2. CASE ~Quiet(x)
      <4>1. PICK e \in Caller : Serves(e, x)
        BY <3>2 DEF Owned
      <4>2. Serves(e, x)'
        BY <4>1, <2>1, <1>1, <1>3, <1>4, ServesKept DEF Serves, Waits
      <4> QED BY <4>2
    <3> QED BY <3>1, <3>2
  <2>2. CASE x = d
    <3>1. toServer[d] # <<>>
      BY <1>2
    <3>2. PICK e \in Caller : Serves(e, d)
      BY <3>1 DEF Owned, Quiet
    <3>3. PICK k : k = Current(e)
      OBVIOUS
    <3>4. Current(e)' = k
      BY <3>3, <1>1 DEF Current
    <3>5. PICK f : f = Frame(k)
      OBVIOUS
    <3>6. toServer[d] = f
      BY <3>1, <3>2, <3>3, <3>5 DEF Serves
    <3>7. callNo[e] \in 1 .. Len(setup.calls[e]) /\ setup \in Setups /\ k = <<e, callNo[e]>>
      BY <3>2, <3>3, CallerFacts DEF Serves, Waits, Shape, Current
    <3>8. PICK S : f \in Seq(S)
      BY <3>5, <3>7, FrameOnWire
    <3>9. f[1].call = k /\ \A j \in 2 .. Len(f) : f[j].wire # "size"
      BY <3>5, <3>7, FrameOnWire
    <3>10. SubSeq(f, n + 1, Len(f)) = <<>> /\ SubSeq(f, 1, n)[1] = f[1]
      BY <3>6, <3>8, <3>9, <1>2, TakesFrame
    <3>11. toServer'[d] = <<>>
      BY <3>6, <3>10, <1>3
    <3>12. handling'[d] = None \/ handling'[d].call = k
      <4>1. PICK buf : buf = SubSeq(f, 1, n)
        OBVIOUS
      <4>2. handling'[d] = FirstRequest(buf) /\ buf[1].call = k
        BY <4>1, <3>6, <3>9, <3>10, <1>3
      <4> QED BY <4>2, FirstRequestCall
    <3>13. /\ Fd(e)' = d /\ Waits(e)' /\ answered'[Current(e)'] = None /\ toClient'[d] = <<>>
      BY <3>2, <3>3, <3>4, <1>1, <1>4 DEF Serves, Waits
    <3>14. Quiet(d)' \/ Serves(e, d)'
      BY <3>4, <3>11, <3>12, <3>13 DEF Quiet, Serves
    <3> QED BY <3>14, <2>2
  <2> QED BY <2>1, <2>2
<1>9. AnswerOnTheWay'
  <2> SUFFICES ASSUME NEW e \in Caller PROVE AnswerFor(e)'
    BY DEF AnswerOnTheWay
  <2> QED BY <1>1, <1>4, AnswerKept DEF AnswerOnTheWay, Waits
<1> QED BY <1>5, <1>6, <1>7, <1>8, <1>9

\* Whose request the handler that ends has run.
LEMMA HandlerFacts ==
    ASSUME BaseInv, NEW d \in Conn, SendRpcResponse(d)
    PROVE  \E k \in Call :
           /\ Handles(d, k) /\ handling[d].call = k /\ Pending(k)
           /\ \E m \in Replies(Made(k).service, Made(k).method) :
               /\ m # None
               /\ Contents(Serialize(MethodOf(k).response, m))
               /\ answered' = [answered EXCEPT ![k] = m]
               /\ toClient' = [toClient EXCEPT ![d] = toClient[d] \o Serialize(MethodOf(k).response, m)]
<1> USE DEF BaseInv
<1>1. PICK k : k = handling[d].call
  OBVIOUS
<1>2. Handles(d, k)
  BY <1>1 DEF SendRpcResponse, Handles
<1>3. Pending(k) /\ IsRequest(k, handling[d])
  BY <1>2 DEF Handlers
<1>4. k \in Call /\ Sent(k)
  BY <1>3 DEF Pending
<1>5. Made(k).service \in DOMAIN m_serviceMap /\ Made(k).method \in DOMAIN m_serviceMap[Made(k).service]
  BY <1>4, SentFacts
<1>6. PICK m \in Replies(Made(k).service, Made(k).method) :
      /\ answered' = [answered EXCEPT ![k] = m]
      /\ toClient' = [toClient EXCEPT ![d] = toClient[d] \o Serialize(MethodOf(k).response, m)]
  BY <1>1, <1>3 DEF SendRpcResponse, MethodOf, IsRequest
<1>7. m # None /\ Contents(Serialize(MethodOf(k).response, m))
  BY <1>5, <1>6, ReplyAssumption DEF MethodOf
<1> QED BY <1>1, <1>2, <1>3, <1>4, <1>6, <1>7

\* The handler returns, and its response is sent to the caller that waits for it.
LEMMA SendRpcResponseStep ==
    ASSUME Reliable, BaseInv, RelInv, NEW d \in Conn, SendRpcResponse(d)
    PROVE  RelInv'
<1> USE DEF BaseInv, RelInv
<1>1. /\ handling[d] # None /\ handling' = [handling EXCEPT ![d] = None]
      /\ UNCHANGED <<setup, m_clientFd, pc, callNo, sock, link, toServer, result>>
  BY DEF SendRpcResponse
<1>2. PICK k \in Call :
      /\ handling[d].call = k
      /\ \E m \in Replies(Made(k).service, Made(k).method) :
          /\ m # None
          /\ Contents(Serialize(MethodOf(k).response, m))
          /\ answered' = [answered EXCEPT ![k] = m]
          /\ toClient' = [toClient EXCEPT ![d] = toClient[d] \o Serialize(MethodOf(k).response, m)]
  BY HandlerFacts
<1>3. PICK c \in Caller : Serves(c, d)
  BY <1>1 DEF Owned, Quiet
<1>4. Fd(c) = d /\ k = Current(c) /\ toServer[d] = <<>> /\ toClient[d] = <<>> /\ Waits(c)
  BY <1>1, <1>2, <1>3 DEF Serves
<1>5. PICK m \in Replies(Made(k).service, Made(k).method) :
      /\ m # None
      /\ Contents(Serialize(MethodOf(k).response, m))
      /\ answered' = [answered EXCEPT ![k] = m]
      /\ toClient' = [toClient EXCEPT ![d] = toClient[d] \o Serialize(MethodOf(k).response, m)]
  BY <1>2
<1>6. toClient' = [toClient EXCEPT ![d] = Serialize(MethodOf(k).response, m)]
  <2>1. PICK units, S : units = Serialize(MethodOf(k).response, m) /\ units \in Seq(S)
    BY <1>5, ContentsSeq
  <2>2. <<>> \o units = units
    BY <2>1
  <2> QED BY <2>1, <2>2, <1>4, <1>5
<1>7. /\ handling'[d] = None /\ toClient'[d] = Serialize(MethodOf(k).response, m) /\ answered'[k] = m
      /\ \A x \in Conn : x # d => handling'[x] = handling[x] /\ toClient'[x] = toClient[x]
      /\ \A l \in Call : l # k => answered'[l] = answered[l]
  BY <1>1, <1>2, <1>5, <1>6 DEF Shape
<1>8. \A e \in Caller : Fd(e)' = Fd(e)
  BY <1>1 DEF Fd
<1>9. Descriptors'
  BY <1>1 DEF Descriptors, Conn
<1>10. OnOwnConnection'
  BY <1>1, <1>8 DEF OnOwnConnection, Waits
<1>11. link[d] # "unused"
  <2>1. setup.channelOf[c] \in Channel /\ d # NoFd
    BY CallerFacts, FdFacts
  <2> QED BY <2>1, <1>4 DEF Descriptors, Fd
<1>12. DownIsQuiet'
  BY <1>1, <1>4, <1>7, <1>11 DEF DownIsQuiet, Quiet, Conn
<1>13. Owned'
  <2> SUFFICES ASSUME NEW x \in Conn
               PROVE  Quiet(x)' \/ \E e \in Caller : Serves(e, x)'
    BY DEF Owned, Conn
  <2>1. CASE x = d
    BY <2>1, <1>1, <1>4, <1>7 DEF Quiet
  <2>2. CASE x # d
    <3>1. CASE Quiet(x)
      BY <3>1, <2>2, <1>1, <1>7 DEF Quiet
    <3>2. CASE ~Quiet(x)
      <4>1. PICK e \in Caller : Serves(e, x)
        BY <3>2 DEF Owned
      <4>2. e # c /\ Waits(e)
        BY <4>1, <2>2, <1>4 DEF Serves
      <4>3. Current(e) \in Call /\ Current(e) # k
        BY <4>2, <1>4, CallerFacts DEF Current, Waits
      <4>4. Serves(e, x)'
        BY <4>1, <4>2, <4>3, <2>2, <1>1, <1>7, <1>8, ServesKept DEF Waits
      <4> QED BY <4>4
    <3> QED BY <3>1, <3>2
  <2> QED BY <2>1, <2>2
<1>14. AnswerOnTheWay'
  <2> SUFFICES ASSUME NEW e \in Caller PROVE AnswerFor(e)'
    BY DEF AnswerOnTheWay
  <2>1. CASE e = c
    <3>1. Current(c)' = k /\ MethodOf(k)' = MethodOf(k)
      BY <1>1, <1>4, FrameKept DEF Current
    <3>2. MethodOf(Current(c))' = MethodOf(k)
      BY <3>1
    <3>3. Waits(c)'
      BY <1>1, <1>4 DEF Waits
    <3> QED BY <3>1, <3>2, <3>3, <2>1, <1>4, <1>5, <1>7, <1>8 DEF AnswerFor
  <2>2. CASE e # c
    <3>1. Fd(e) # NoFd => Fd(e) \in Conn /\ Fd(e) # d
      BY <2>2, <1>4, OneOwner, FdFacts
    <3>2. CASE pc[e] = "idle"
      BY <3>1, <3>2, <1>1, <1>7, <1>8 DEF AnswerOnTheWay, AnswerFor, Waits
    <3>3. CASE pc[e] # "idle"
      <4>1. Current(e) \in Call /\ Current(e) # k
        BY <3>3, <2>2, <1>4, CallerFacts DEF Current
      <4> QED BY <4>1, <3>1, <1>1, <1>7, <1>8, AnswerKept DEF AnswerOnTheWay, Waits
    <3> QED BY <3>2, <3>3
  <2> QED BY <2>1, <2>2
<1> QED BY <1>9, <1>10, <1>12, <1>13, <1>14

\* The server closes its connections: what was under way on them is lost.
LEMMA ServerClosesStep ==
    ASSUME Reliable, BaseInv, RelInv, ServerCloses
    PROVE  RelInv'
<1> USE DEF BaseInv, RelInv
<1>1. /\ toServer' = [conn \in Conn |-> <<>>] /\ handling' = [conn \in Conn |-> None]
      /\ UNCHANGED <<setup, m_clientFd, pc, callNo, sock, toClient, answered, result>>
  BY DEF ServerCloses
<1>2. PICK end \in {"fin", "rst"} : link' = [conn \in Conn |-> IF link[conn] = "up" THEN end ELSE link[conn]]
  BY DEF ServerCloses
<1>3. \A d \in Conn : link'[d] = "unused" <=> link[d] = "unused"
  BY <1>2
<1>4. \A d \in Conn : Quiet(d)'
  BY <1>1 DEF Quiet
<1>5. \A e \in Caller : Fd(e)' = Fd(e)
  BY <1>1 DEF Fd
<1>6. Descriptors'
  BY <1>1, <1>3 DEF Descriptors, Conn, NoFd
<1>7. OnOwnConnection'
  BY <1>1, <1>5 DEF OnOwnConnection, Waits
<1>8. DownIsQuiet'
  BY <1>1, <1>3, <1>4 DEF DownIsQuiet, Conn
<1>9. Owned'
  BY <1>4 DEF Owned, Conn
<1>10. AnswerOnTheWay'
  <2> SUFFICES ASSUME NEW e \in Caller PROVE AnswerFor(e)'
    BY DEF AnswerOnTheWay
  <2> QED BY <1>1, <1>5, AnswerKept DEF AnswerOnTheWay, Waits
<1> QED BY <1>6, <1>7, <1>8, <1>9, <1>10

-----------------------------------------------------------------------------
(* The theorems.                                                           *)

\* The constructors establish the invariant.
LEMMA InitRpcInv ==
    ASSUME Init
    PROVE  RpcInv
<1> USE DEF Init
<1>1. /\ setup \in Setups /\ setup.connectNow \subseteq Channel /\ Channel \subseteq Conn
      /\ \A c \in Caller : setup.channelOf[c] \in Channel
  BY SetupAssumption, RpcAssumption DEF Conn
<1>2. NoFd \notin Conn
  BY DEF NoFd, Conn
<1>3. BaseInv
  BY InitBase
<1>4. Descriptors
  BY <1>1, <1>2 DEF Descriptors
<1>5. OnOwnConnection
  BY DEF OnOwnConnection, Waits
<1>6. DownIsQuiet /\ Owned
  BY DEF DownIsQuiet, Owned, Quiet
<1>7. AnswerOnTheWay
  BY <1>3, <1>4, FdFacts DEF BaseInv, AnswerOnTheWay, AnswerFor
<1> QED BY <1>3, <1>4, <1>5, <1>6, <1>7 DEF RpcInv, RelInv

\* The setup, and with it whether channels are reliable, never changes.
LEMMA SetupKept ==
    ASSUME [Next]_rpcVars
    PROVE  setup' = setup /\ Reliable' = Reliable
<1>1. setup' = setup
  BY DEF Next, rpcVars, CallerStep, CallMethod, Connect, ConnectFails, Send, SendFails, RecvBegins,
         RecvFails, Recv, OnMessage, SendRpcResponse, ServerCloses
<1> QED BY <1>1 DEF Reliable

\* Every step keeps the invariant.
LEMMA NextRpcInv ==
    ASSUME RpcInv, [Next]_rpcVars
    PROVE  RpcInv'
<1>1. BaseInv'
  BY NextBase DEF RpcInv
<1>2. CASE ~Reliable
  BY <1>1, <1>2, SetupKept DEF RpcInv
<1>3. CASE Reliable
  <2>0. BaseInv /\ RelInv
    BY <1>3 DEF RpcInv
  <2>1. ASSUME NEW c \in Caller, CallerStep(c)
        PROVE  RelInv'
    BY <2>0, <2>1, <1>3, CallMethodStep, ConnectStep, FailingSteps, SendStep, RecvBeginsStep, RecvStep DEF CallerStep
  <2>2. ASSUME NEW d \in Conn, OnMessage(d) \/ SendRpcResponse(d)
        PROVE  RelInv'
    BY <2>0, <2>2, <1>3, OnMessageStep, SendRpcResponseStep
  <2>3. ASSUME UNCHANGED rpcVars
        PROVE  RelInv'
    <3>1. UNCHANGED <<setup, m_clientFd, pc, callNo, sock, link, toServer, toClient, handling, answered>>
      BY <2>3 DEF rpcVars
    <3>2. \A c \in Caller : Fd(c)' = Fd(c)
      BY <3>1 DEF Fd
    <3>3. Descriptors' /\ OnOwnConnection' /\ DownIsQuiet'
      BY <2>0, <3>1, <3>2 DEF RelInv, Descriptors, OnOwnConnection, DownIsQuiet, Waits, Quiet, Conn
    <3>4. Owned'
      BY <2>0, <3>1, <3>2, OwnedKept DEF RelInv, Serves, Waits
    <3>5. \A c \in Caller : AnswerFor(c)'
      BY <2>0, <3>1, <3>2, AnswerKept DEF RelInv, AnswerOnTheWay, Waits
    <3> QED BY <3>3, <3>4, <3>5 DEF RelInv, AnswerOnTheWay
  <2>4. RelInv'
    BY <2>0, <2>1, <2>2, <2>3, <1>3, ServerClosesStep DEF Next
  <2> QED BY <2>4, <1>1 DEF RpcInv
<1> QED BY <1>2, <1>3

\* The invariant in one formula.
LEMMA RpcInvariance == Spec => []RpcInv
<1>1. Init => RpcInv
  BY InitRpcInv
<1>2. RpcInv /\ [Next]_rpcVars => RpcInv'
  BY NextRpcInv
<1> QED BY <1>1, <1>2, PTL DEF Spec

\* Where Reliable holds there is nothing on the connection of a caller between two of its
\* calls that belongs to an earlier call, whichever way that call has ended and whenever
\* the server closes its connections.
THEOREM NothingIsLeftBehind == Spec => []NothingLeftBehind
<1>1. ASSUME RpcInv
      PROVE  NothingLeftBehind
  BY <1>1, QuietBetween DEF RpcInv, NothingLeftBehind, Quiet, Waits
<1>2. Spec => []RpcInv
  BY RpcInvariance
<1> QED BY <1>1, <1>2, PTL

-----------------------------------------------------------------------------
(* The refinement.                                                         *)

\* The abstract calls stay as they are while no call is made.
LEMMA CallsMadeKept ==
    ASSUME setup' = setup, callNo' = callNo
    PROVE  CallsMade' = CallsMade
<1>1. \A k \in Call : Made(k)' = Made(k)
  BY FrameKept
<1> QED BY <1>1 DEF CallsMade, MethodMade

\* A call that has been sent has been made, and of which method.
LEMMA SentIsMade ==
    ASSUME Shape, NEW k \in Call, Sent(k)
    PROVE  CallsMade[k] = MethodMade(k) /\ CallsMade[k] # None
<1>1. k[1] \in Caller /\ k[2] \in Nat
  BY DEF Call
<1>2. callNo[k[1]] \in Nat
  BY <1>1, CallerFacts
<1>3. ~(k[2] > callNo[k[1]])
  BY <1>1, <1>2 DEF Sent
<1> QED BY <1>3, SentFacts DEF CallsMade

\* So has the call that a caller is in, and it has not returned.
LEMMA CurrentIsMade ==
    ASSUME BaseInv, NEW c \in Caller, pc[c] # "idle"
    PROVE  /\ Current(c) \in Call
           /\ CallsMade[Current(c)] = MethodMade(Current(c))
           /\ CallsMade[Current(c)] # None
           /\ result[Current(c)] = None
<1>1. callNo[c] \in 1 .. Len(setup.calls[c]) /\ Current(c) \in Call /\ setup \in Setups /\ callNo[c] \in Nat
  BY CallerFacts DEF BaseInv, Shape
<1>2. MethodMade(Current(c)) # None
  BY <1>1, CallFacts DEF Current
<1>3. CallsMade[Current(c)] = MethodMade(Current(c))
  <2>1. Current(c)[2] = callNo[c] /\ Current(c)[1] = c
    BY DEF Current
  <2>2. ~(Current(c)[2] > callNo[Current(c)[1]])
    BY <2>1, <1>1
  <2> QED BY <2>2, <1>1 DEF CallsMade
<1>4. Open(Current(c))
  BY <1>1 DEF Open, Current
<1> QED BY <1>1, <1>2, <1>3, <1>4 DEF BaseInv, History

\* Making a call begins it.
LEMMA CallMethodBegins ==
    ASSUME BaseInv, NEW c \in Caller, CallMethod(c)
    PROVE  Calls!Next
<1>1. /\ callNo[c] < Len(setup.calls[c])
      /\ callNo' = [callNo EXCEPT ![c] = callNo[c] + 1]
      /\ UNCHANGED <<setup, answered, result>> /\ Reliable' = Reliable
  BY DEF CallMethod, Reliable
<1>2. callNo[c] \in Nat /\ Len(setup.calls[c]) \in Nat /\ setup \in Setups
  BY CallerFacts DEF BaseInv, Shape
<1>3. PICK i \in 1 .. Len(setup.calls[c]) : i = callNo[c] + 1
  BY <1>1, <1>2
<1>4. PICK k \in Call : k = <<c, i>>
  BY <1>2, CallFacts
<1>5. /\ Made(k).service \in DOMAIN m_serviceMap
      /\ Made(k).method \in DOMAIN m_serviceMap[Made(k).service]
  BY <1>2, <1>4, CallFacts
<1>6. MethodMade(k) \in UNION {[service : {s}, method : DOMAIN m_serviceMap[s]] : s \in DOMAIN m_serviceMap}
  BY <1>5 DEF MethodMade
<1>7. CallsMade[k] = None
  BY <1>2, <1>3, <1>4 DEF CallsMade
<1>8. CallsMade' = [CallsMade EXCEPT ![k] = MethodMade(k)]
  <2>1. \A l \in Call : Made(l)' = Made(l)
    BY <1>1, FrameKept
  <2>2. \A l \in Call : MethodMade(l)' = MethodMade(l)
    BY <2>1 DEF MethodMade
  <2>3. ASSUME NEW l \in Call
        PROVE  /\ l = k => ~(l[2] > callNo'[l[1]])
               /\ l # k => (l[2] > callNo'[l[1]] <=> l[2] > callNo[l[1]])
    <3>1. l[1] \in Caller /\ l[2] \in Nat /\ l = <<l[1], l[2]>>
      BY DEF Call
    <3>2. callNo[l[1]] \in Nat
      BY <3>1, CallerFacts DEF BaseInv
    <3>3. callNo'[c] = callNo[c] + 1 /\ (l[1] # c => callNo'[l[1]] = callNo[l[1]])
      BY <3>1, <1>1 DEF BaseInv, Shape
    <3>4. CASE l[1] = c
      <4>1. l # k => l[2] # callNo[c] + 1
        BY <3>1, <3>4, <1>3, <1>4
      <4>2. l = k => l[2] = callNo[c] + 1
        BY <1>3, <1>4
      <4> QED BY <4>1, <4>2, <3>1, <3>2, <3>3, <3>4
    <3>5. CASE l[1] # c
      BY <3>3, <3>5, <1>4
    <3> QED BY <3>4, <3>5
  <2>4. CallsMade' = [l \in Call |-> IF l[2] > callNo'[l[1]] THEN None ELSE MethodMade(l)']
    BY DEF CallsMade
  <2>5. CallsMade' = [l \in Call |-> IF l = k THEN MethodMade(k) ELSE CallsMade[l]]
    BY <2>2, <2>3, <2>4 DEF CallsMade
  <2> QED BY <2>5 DEF CallsMade
<1>9. Calls!Begin(k, MethodMade(k))
  BY <1>1, <1>7, <1>8 DEF Calls!Begin
<1> QED BY <1>4, <1>6, <1>9 DEF Calls!Next

\* A handler that returns has executed the call, for the first time.
LEMMA ResponseExecutes ==
    ASSUME BaseInv, NEW d \in Conn, SendRpcResponse(d)
    PROVE  Calls!Next
<1>1. PICK k \in Call :
      /\ Pending(k)
      /\ \E m \in Replies(Made(k).service, Made(k).method) : answered' = [answered EXCEPT ![k] = m]
  BY HandlerFacts
<1>2. PICK m \in Replies(Made(k).service, Made(k).method) : answered' = [answered EXCEPT ![k] = m]
  BY <1>1
<1>3. CallsMade[k] = MethodMade(k) /\ CallsMade[k] # None /\ answered[k] = None
  BY <1>1, SentIsMade DEF BaseInv, Pending
<1>4. m \in AnswersOf(CallsMade[k])
  BY <1>2, <1>3 DEF AnswersOf, MethodMade
<1>5. CallsMade' = CallsMade /\ result' = result /\ Reliable' = Reliable
  BY CallsMadeKept DEF SendRpcResponse, Reliable
<1>6. Calls!Execute(k, m)
  BY <1>2, <1>3, <1>5 DEF Calls!Execute
<1> QED BY <1>3, <1>4, <1>6 DEF Calls!Next

\* A call returns once.  Where Reliable holds it has failed, or has the answer to its
\* request or the empty message.
LEMMA ReturnIsReturn ==
    ASSUME RpcInv, NEW c \in Caller, ConnectFails(c) \/ RecvFails(c) \/ Recv(c)
    PROVE  Calls!Next
<1> USE DEF RpcInv
<1>1. pc[c] # "idle" /\ UNCHANGED <<setup, callNo, answered>>
  BY DEF ConnectFails, RecvFails, Recv
<1>2. PICK k \in Call : k = Current(c)
  BY <1>1, CurrentIsMade
<1>3. CallsMade[k] = MethodMade(k) /\ CallsMade[k] # None /\ result[k] = None
  BY <1>1, <1>2, CurrentIsMade
<1>4. CallsMade' = CallsMade /\ answered' = answered /\ Reliable' = Reliable
  BY <1>1, CallsMadeKept DEF Reliable
<1>5. CASE ConnectFails(c) \/ RecvFails(c)
  <2>1. result' = [result EXCEPT ![k] = [failed |-> TRUE]]
    BY <1>2, <1>5 DEF ConnectFails, RecvFails, Returns, SetFailed
  <2>2. Calls!Fail(k)
    BY <2>1, <1>3, <1>4 DEF Calls!Fail, Calls!Return
  <2> QED BY <2>2 DEF Calls!Next
<1>6. CASE Recv(c) /\ Reliable
  <2>1. \/ answered[k] # None /\ result' = [result EXCEPT ![k] = [failed |-> FALSE, msg |-> answered[k]]]
        \/ result' = [result EXCEPT ![k] = [failed |-> FALSE, msg |-> Clear(MethodOf(k).response)]]
    BY <1>2, <1>6, RecvFacts
  <2>2. EmptyOf(CallsMade[k]) = Clear(MethodOf(k).response)
    BY <1>3 DEF EmptyOf, MethodMade, MethodOf
  <2>3. \/ answered[k] # None /\ Calls!Succeed(k, answered[k])
        \/ Calls!Succeed(k, EmptyOf(CallsMade[k]))
    BY <2>1, <2>2, <1>3, <1>4 DEF Calls!Succeed, Calls!Return
  <2> QED BY <2>3, <1>3 DEF Calls!Next
<1>7. CASE Recv(c) /\ ~Reliable
  <2>1. PICK units : result' = [result EXCEPT ![k] = Outcome(k, units)]
    BY <1>2, <1>7 DEF Recv, Returns
  <2>2. DOMAIN result = Call
    BY DEF BaseInv, Shape
  <2>3. DOMAIN result' = Call /\ \A l \in Call \ {k} : result'[l] = result[l]
    BY <2>1, <2>2
  <2>4. Calls!ReturnAnything(k)
    BY <2>3, <1>3, <1>4, <1>7 DEF Calls!ReturnAnything
  <2> QED BY <2>4 DEF Calls!Next
<1> QED BY <1>5, <1>6, <1>7

\* The channels implement remote calls, however they are shared and whatever the network
\* splits: a request is executed at most once, by the method it names, and a call returns
\* once.  Where Reliable holds, a call that succeeds has the answer to its own request, or
\* the empty message of a connection that the server has closed.
THEOREM ChannelsImplementCalls == Spec => ImplementsCalls
<1>1. ASSUME Init
      PROVE  Calls!Init
  <2>1. CallsMade = [k \in Call |-> None]
    <3>1. ASSUME NEW k \in Call
          PROVE  k[2] > callNo[k[1]]
      BY <1>1 DEF Call, Init
    <3> QED BY <3>1 DEF CallsMade
  <2>2. Reliable \in BOOLEAN
    BY DEF Reliable
  <2> QED BY <2>1, <2>2, <1>1 DEF Init, Calls!Init
<1>2. ASSUME RpcInv, [Next]_rpcVars
      PROVE  [Calls!Next]_(Calls!vars)
  <2>1. ASSUME UNCHANGED <<setup, callNo, answered, result>>
        PROVE  UNCHANGED Calls!vars
    BY <2>1, <1>2, CallsMadeKept, SetupKept DEF Calls!vars
  <2>2. ASSUME NEW c \in Caller, CallerStep(c)
        PROVE  Calls!Next \/ UNCHANGED <<setup, callNo, answered, result>>
    <3>1. CASE CallMethod(c)
      BY <3>1, <1>2, CallMethodBegins DEF RpcInv
    <3>2. CASE ConnectFails(c) \/ RecvFails(c) \/ Recv(c)
      BY <3>2, <1>2, ReturnIsReturn
    <3>3. CASE Connect(c) \/ Send(c) \/ SendFails(c) \/ RecvBegins(c)
      BY <3>3 DEF Connect, Send, SendFails, RecvBegins
    <3> QED BY <3>1, <3>2, <3>3, <2>2 DEF CallerStep
  <2>3. ASSUME NEW d \in Conn, OnMessage(d) \/ SendRpcResponse(d)
        PROVE  Calls!Next \/ UNCHANGED <<setup, callNo, answered, result>>
    BY <2>3, <1>2, ResponseExecutes DEF OnMessage, RpcInv
  <2>4. CASE ServerCloses \/ UNCHANGED rpcVars
    BY <2>1, <2>4 DEF ServerCloses, rpcVars
  <2> QED BY <2>1, <2>2, <2>3, <2>4, <1>2 DEF Next
<1>3. Spec => []RpcInv
  BY RpcInvariance
<1> QED BY <1>1, <1>2, <1>3, PTL DEF Spec, ImplementsCalls, Calls!Spec

\* What sharing a channel, a split message or a long answer can break: where Reliable holds,
\* a call returns the answer to its own request, the empty message of a closed connection,
\* or a failure.
THEOREM AnswersAreOwn == Spec => [](Reliable => OwnAnswer)
<1>1. Init => (Reliable => OwnAnswer)
  BY DEF Init, OwnAnswer
<1>2. ASSUME RpcInv, Reliable => OwnAnswer, [Next]_rpcVars, Reliable'
      PROVE  OwnAnswer'
  <2>0. Reliable /\ OwnAnswer /\ BaseInv /\ RelInv
    BY <1>2, SetupKept DEF RpcInv
  <2>1. setup' = setup
    BY <1>2, SetupKept
  <2>2. \A k \in Call : MethodOf(k)' = MethodOf(k)
    BY <2>1, FrameKept
  <2>3. ASSUME UNCHANGED <<answered, result>>
        PROVE  OwnAnswer'
    BY <2>0, <2>2, <2>3 DEF OwnAnswer
  <2>4. ASSUME NEW c \in Caller, Current(c) \in Call, answered' = answered, NEW out,
               result' = [result EXCEPT ![Current(c)] = out],
               \/ out = SetFailed
               \/ out.msg \in {answered[Current(c)], Clear(MethodOf(Current(c)).response)}
        PROVE  OwnAnswer'
    BY <2>0, <2>2, <2>4 DEF OwnAnswer, BaseInv, Shape
  <2>5. ASSUME NEW c \in Caller, CallerStep(c)
        PROVE  OwnAnswer'
    <3>1. CASE CallMethod(c) \/ Connect(c) \/ Send(c) \/ SendFails(c) \/ RecvBegins(c)
      BY <3>1, <2>3 DEF CallMethod, Connect, Send, SendFails, RecvBegins
    <3>2. CASE ConnectFails(c) \/ RecvFails(c)
      <4>1. pc[c] # "idle" /\ answered' = answered /\ result' = [result EXCEPT ![Current(c)] = SetFailed]
        BY <3>2 DEF ConnectFails, RecvFails, Returns
      <4>2. Current(c) \in Call
        BY <4>1, <2>0, CurrentIsMade
      <4> QED BY <4>1, <4>2, <2>4
    <3>3. CASE Recv(c)
      <4>1. pc[c] # "idle" /\ answered' = answered
        BY <3>3 DEF Recv
      <4>2. Current(c) \in Call
        BY <4>1, <2>0, CurrentIsMade
      <4>3. PICK m \in {answered[Current(c)], Clear(MethodOf(Current(c)).response)} :
                result' = [result EXCEPT ![Current(c)] = [failed |-> FALSE, msg |-> m]]
        BY <3>3, <2>0, RecvFacts
      <4>4. PICK out : out = [failed |-> FALSE, msg |-> m]
        OBVIOUS
      <4>5. out.msg = m
        BY <4>4
      <4> QED BY <4>1, <4>2, <4>3, <4>4, <4>5, <2>4
    <3> QED BY <3>1, <3>2, <3>3, <2>5 DEF CallerStep
  <2>6. ASSUME NEW d \in Conn, SendRpcResponse(d)
        PROVE  OwnAnswer'
    <3>1. PICK k \in Call : handling[d].call = k /\ \E m : answered' = [answered EXCEPT ![k] = m]
      BY <2>0, <2>6, HandlerFacts
    <3>2. handling[d] # None /\ result' = result
      BY <2>6 DEF SendRpcResponse
    <3>3. PICK c \in Caller : Serves(c, d)
      BY <3>2, <2>0 DEF RelInv, Owned, Quiet
    <3>4. k = Current(c) /\ Waits(c)
      BY <3>1, <3>2, <3>3 DEF Serves
    <3>5. result[k] = None
      BY <3>4, <2>0, CurrentIsMade DEF Waits
    <3> QED BY <3>1, <3>2, <3>5, <2>0, <2>2 DEF OwnAnswer, BaseInv, Shape
  <2>7. CASE ServerCloses \/ UNCHANGED rpcVars \/ \E d \in Conn : OnMessage(d)
    BY <2>3, <2>7 DEF ServerCloses, rpcVars, OnMessage
  <2> QED BY <2>5, <2>6, <2>7, <1>2 DEF Next
<1>3. Spec => []RpcInv
  BY RpcInvariance
<1> QED BY <1>1, <1>2, <1>3, PTL DEF Spec
=============================================================================
