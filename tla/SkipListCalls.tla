--------------------------- MODULE SkipListCalls ---------------------------
(***************************************************************************)
(* The skip list with a history of the operation that was called last, by  *)
(* which its steps are compared with those of the map it stands for.       *)
(***************************************************************************)
EXTENDS SkipList

VARIABLE last      \* history: the operation, its arguments and what it returned

callVars == <<vars, last>>

InitCall == Init /\ last = [op |-> "SkipList"]

Call ==
    \/ \E k \in Key, v \in Value :
          \/ /\ InsertSet(k, v)
             /\ last' = [op |-> "insert_set_element", key |-> k, value |-> v]
          \/ /\ Insert(k, v)
             /\ last' = [op |-> "insert_element", key |-> k, value |-> v,
                         exists |-> At(list, Update(list, k), k) # NULL]
    \/ \E k \in Key : Delete(k) /\ last' = [op |-> "delete_element", key |-> k]
    \/ DumpFile /\ last' = [op |-> "dump_file"]
    \/ LoadFile /\ last' = [op |-> "load_file"]

CallSpec == InitCall /\ [][Call]_callVars

DumpedMap == [k \in Range(dumper.key) |-> dumper.val[CHOOSE j \in 1..Len(dumper.key) : dumper.key[j] = k]]

\* The skip list is a map: every operation, called in any state that operations on
\* random levels have led to, changes the keys and values and the dump as its
\* counterpart in KvMap does, and nothing else, and insert_element tells its caller
\* whether the key was there.  A list that loses a key, changes another one or does
\* nothing is not a map.
Map == INSTANCE KvMap WITH map <- MapOf(list), dump <- DumpedMap
ImplementsMap == Map!Spec
=============================================================================
