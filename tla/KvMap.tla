------------------------------- MODULE KvMap -------------------------------
(***************************************************************************)
(* What the store of a KvServer is to its callers: a map from keys to      *)
(* values, and a dump of it that can be loaded.  `last' is the operation   *)
(* that was called last, with its arguments and what it returned, so that  *)
(* a step must have the effect of the operation it is.                     *)
(***************************************************************************)
EXTENDS TLC

CONSTANTS Key, Value

VARIABLES
    map,      \* a function from the keys present to their values
    dump,     \* the map that was dumped last
    last      \* the operation called last

Empty == [k \in {} |-> k]

Init ==
    /\ map = Empty
    /\ dump = Empty
    /\ last = [op |-> "SkipList"]

\* The key has the value afterwards, whatever it had.
Put(k, v) ==
    /\ last' = [op |-> "insert_set_element", key |-> k, value |-> v]
    /\ map' = (k :> v) @@ map
    /\ UNCHANGED dump

\* The key gets the value if it had none, and the caller is told.
PutNew(k, v) ==
    /\ last' = [op |-> "insert_element", key |-> k, value |-> v, exists |-> k \in DOMAIN map]
    /\ map' = map @@ (k :> v)
    /\ UNCHANGED dump

Remove(k) ==
    /\ last' = [op |-> "delete_element", key |-> k]
    /\ map' = [x \in DOMAIN map \ {k} |-> map[x]]
    /\ UNCHANGED dump

Dump ==
    /\ last' = [op |-> "dump_file"]
    /\ dump' = map
    /\ UNCHANGED map

\* Loading keeps what is there and adds the missing keys of the dump, each with itself
\* as its value: what they had when they were dumped is lost.
Load ==
    /\ last' = [op |-> "load_file"]
    /\ map' = map @@ [k \in DOMAIN dump |-> k]
    /\ UNCHANGED dump

Next ==
    \/ \E k \in Key, v \in Value : Put(k, v) \/ PutNew(k, v)
    \/ \E k \in Key : Remove(k)
    \/ Dump
    \/ Load

Spec == Init /\ [][Next]_<<map, dump, last>>
=============================================================================
