------------------------------ MODULE Messages ------------------------------
(***************************************************************************)
(* The classes protoc has generated for the messages of the RPC layer.     *)
(* All of them have the same operations and differ in their fields, so a   *)
(* class is a schema, the sequence of its fields (the position is the      *)
(* field number), and Clear, Serialize, Parse and MergeFrom take the       *)
(* schema as an argument.                                                  *)
(*                                                                         *)
(* The wire is a sequence of units: a varint field, the head of a field    *)
(* with a length, and the units of its contents.  A cut between any two    *)
(* bytes is a cut between two units, except that a varint is not cut.      *)
(* Sub-messages have no sub-messages of their own.                         *)
(***************************************************************************)
EXTENDS Integers, Sequences, SequencesExt

Field(name, kind) == [name |-> name, kind |-> kind, repeated |-> FALSE, sub |-> <<>>]
Repeated(field) == [field EXCEPT !.repeated = TRUE]
Message(name, schema) == [name |-> name, kind |-> "message", repeated |-> FALSE, sub |-> schema]

\* One piece of the text of a bytes field.
Text(x) == [wire |-> "text", num |-> 0, val |-> x]

-----------------------------------------------------------------------------
(* raftRPC.pb.cc                                                           *)

LogEntry == <<Field("Command", "bytes"), Field("LogTerm", "int32"), Field("LogIndex", "int32")>>

AppendEntriesArgs ==
    <<Field("Term", "int32"), Field("LeaderId", "int32"), Field("PrevLogIndex", "int32"),
      Field("PrevLogTerm", "int32"), Repeated(Message("Entries", LogEntry)), Field("LeaderCommit", "int32")>>

\* Mutant: the last two fields have changed their numbers.
AppendEntriesReply_Mutant ==
    <<Field("Term", "int32"), Field("Success", "bool"), Field("AppState", "int32"),
      Field("UpdateNextIndex", "int32")>>

AppendEntriesReply ==
    <<Field("Term", "int32"), Field("Success", "bool"), Field("UpdateNextIndex", "int32"),
      Field("AppState", "int32")>>

RequestVoteArgs ==
    <<Field("Term", "int32"), Field("CandidateId", "int32"), Field("LastLogIndex", "int32"),
      Field("LastLogTerm", "int32")>>

RequestVoteReply == <<Field("Term", "int32"), Field("VoteGranted", "bool"), Field("VoteState", "int32")>>

InstallSnapshotRequest ==
    <<Field("LeaderId", "int32"), Field("Term", "int32"), Field("LastSnapShotIncludeIndex", "int32"),
      Field("LastSnapShotIncludeTerm", "int32"), Field("Data", "bytes")>>

InstallSnapshotResponse == <<Field("Term", "int32")>>

-----------------------------------------------------------------------------
(* kvServerRPC.pb.cc, rpcheader.pb.cpp and friend.pb.cc                    *)

GetArgs == <<Field("Key", "bytes"), Field("ClientId", "bytes"), Field("RequestId", "int32")>>
GetReply == <<Field("Err", "bytes"), Field("Value", "bytes")>>

PutAppendArgs ==
    <<Field("Key", "bytes"), Field("Value", "bytes"), Field("Op", "bytes"), Field("ClientId", "bytes"),
      Field("RequestId", "int32")>>
PutAppendReply == <<Field("Err", "bytes")>>

RpcHeader == <<Field("service_name", "bytes"), Field("method_name", "bytes"), Field("args_size", "uint32")>>

ResultCode == <<Field("errcode", "int32"), Field("errmsg", "bytes")>>
GetFriendsListRequest == <<Field("userid", "uint32")>>
GetFriendsListResponse == <<Message("result", ResultCode), Repeated(Field("friends", "bytes"))>>

-----------------------------------------------------------------------------
(* The operations.                                                         *)

\* What Clear leaves in a field.  A sub-message that is not there is <<>>, one that is
\* there a sequence of one.
DefaultOf(field) ==
    IF field.repeated \/ field.kind \in {"bytes", "message"} THEN <<>>
    ELSE IF field.kind = "bool" THEN FALSE ELSE 0

NamedField(schema, name) == CHOOSE i \in DOMAIN schema : schema[i].name = name

Clear(schema) ==
    [n \in {schema[i].name : i \in DOMAIN schema} |-> DefaultOf(schema[NamedField(schema, n)])]

WireType(field) == IF field.kind \in {"bytes", "message"} THEN "len" ELSE "varint"

Varint(num, v) == <<[wire |-> "varint", num |-> num, val |-> v]>>
Delimited(num, contents) == <<[wire |-> "len", num |-> num, val |-> Len(contents)]>> \o contents

\* _InternalSerialize: fields in the order of their numbers, without those that have
\* their default value; Sub serializes a sub-message.
SerializeWith(schema, m, Sub(_, _)) ==
    LET Value(i, v) ==
            CASE schema[i].kind = "bool" -> Varint(i, IF v THEN 1 ELSE 0)
              [] schema[i].kind = "bytes" -> Delimited(i, v)
              [] schema[i].kind = "message" -> Delimited(i, Sub(schema[i].sub, v))
              [] OTHER -> Varint(i, v)
        One(i) ==
            LET field == schema[i]
                v == m[field.name]
            IN  IF field.repeated \/ field.kind = "message"
                THEN FlattenSeq([j \in DOMAIN v |-> Value(i, v[j])])
                ELSE IF v = DefaultOf(field) THEN <<>> ELSE Value(i, v)
    IN  FlattenSeq([i \in DOMAIN schema |-> One(i)])

SerializeSub(schema, m) == SerializeWith(schema, m, LAMBDA s, v : <<>>)
Serialize(schema, m) == SerializeWith(schema, m, SerializeSub)

\* What a field becomes when one more value for it has been read.
Stored(field, old, new) ==
    IF field.repeated THEN Append(old, new)
    ELSE IF field.kind = "message" THEN <<new>>
    ELSE new

\* _InternalParse, one unit after the other: p is what has been read so far, Sub
\* parses a sub-message into a given one.  A field with an unknown number or another
\* wire type is skipped; text where a tag should be is an error.
ParseWith(schema, m0, units, Sub(_, _, _)) ==
    LET Known(num, wire) == num \in DOMAIN schema /\ WireType(schema[num]) = wire

        Take(p, num, wire, v) ==
            IF ~Known(num, wire) THEN [p EXCEPT !.need = 0]
            ELSE LET field == schema[num]
                     old == p.msg[field.name]
                     into == IF field.repeated \/ old = <<>> THEN Clear(field.sub) ELSE old[1]
                     sub == IF field.kind = "message" THEN Sub(field.sub, into, v) ELSE [ok |-> TRUE, msg |-> <<>>]
                     new == CASE field.kind = "message" -> sub.msg
                              [] field.kind = "bool" -> v # 0
                              [] OTHER -> v
                 IN  [p EXCEPT !.ok = sub.ok, !.msg[field.name] = Stored(field, old, new), !.need = 0]

        Unit(p, u) ==
            CASE ~p.ok -> p
              [] p.ok /\ p.need > 1 -> [p EXCEPT !.need = @ - 1, !.got = Append(@, u)]
              [] p.ok /\ p.need = 1 -> Take(p, p.num, "len", Append(p.got, u))
              [] p.ok /\ p.need = 0 /\ u.wire = "varint" -> Take(p, u.num, "varint", u.val)
              [] p.ok /\ p.need = 0 /\ u.wire = "len" ->
                     IF u.val = 0 THEN Take(p, u.num, "len", <<>>)
                     ELSE [p EXCEPT !.need = u.val, !.num = u.num, !.got = <<>>]
              [] OTHER -> [p EXCEPT !.ok = FALSE]

        end == FoldLeft(Unit, [ok |-> TRUE, msg |-> m0, need |-> 0, num |-> 0, got |-> <<>>], units)
    IN  [ok |-> end.ok /\ end.need = 0, msg |-> end.msg]

ParseSub(schema, m0, units) == ParseWith(schema, m0, units, LAMBDA s, m, u : [ok |-> TRUE, msg |-> m])

\* ParseFromArray and ParseFromString: Clear, then parse.
Parse(schema, units) == ParseWith(schema, Clear(schema), units, ParseSub)

\* MergeFrom: fields of b that have their default value leave those of a alone.
MergeWith(schema, a, b, Sub(_, _, _)) ==
    [n \in DOMAIN a |->
        LET field == schema[NamedField(schema, n)] IN
        IF field.repeated THEN a[n] \o b[n]
        ELSE IF b[n] = DefaultOf(field) THEN a[n]
        ELSE IF field.kind = "message" /\ a[n] # <<>> THEN <<Sub(field.sub, a[n][1], b[n][1])>>
        ELSE b[n]]

\* Mutant: a repeated field and a sub-message are overwritten.
MergeFrom_Mutant(schema, a, b) ==
    [n \in DOMAIN a |-> IF b[n] = DefaultOf(schema[NamedField(schema, n)]) THEN a[n] ELSE b[n]]

MergeFrom(schema, a, b) ==
    MergeWith(schema, a, b, LAMBDA s, x, y : MergeWith(s, x, y, LAMBDA t, v, w : v))

-----------------------------------------------------------------------------
(* The services: the prototypes of request and response of each method.    *)

Prototypes(request, response) == [request |-> request, response |-> response]

raftRpc ==
    [AppendEntries |-> Prototypes(AppendEntriesArgs, AppendEntriesReply),
     InstallSnapshot |-> Prototypes(InstallSnapshotRequest, InstallSnapshotResponse),
     RequestVote |-> Prototypes(RequestVoteArgs, RequestVoteReply)]

kvServerRpc ==
    [PutAppend |-> Prototypes(PutAppendArgs, PutAppendReply),
     Get |-> Prototypes(GetArgs, GetReply)]

FiendServiceRpc == [GetFriendsList |-> Prototypes(GetFriendsListRequest, GetFriendsListResponse)]
=============================================================================
