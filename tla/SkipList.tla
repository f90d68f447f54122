------------------------------ MODULE SkipList ------------------------------
(***************************************************************************)
(* The store of a KvServer, src/skipList/include/skipList.h, pointer by    *)
(* pointer.  All calls come from KvServer, which holds its m_mtx around    *)
(* each of them, so every operation is one action.                         *)
(*                                                                         *)
(* A node is an address; `new' takes the lowest free one, `delete' frees   *)
(* it.  Keys are numbers, as only their order matters.                     *)
(***************************************************************************)
EXTENDS Integers, FiniteSets, FiniteSetsExt, Sequences, SequencesExt, TLC

CONSTANTS
    Key, Value,
    Absent,        \* what a search returns that finds nothing
    MaxLevel,      \* _max_level, 6 in KvServer
    MaxNode        \* bound on addresses

ASSUME KeyAssumption == Key \subseteq Nat /\ Key \cap Value = {}
ASSUME SizeAssumption == MaxLevel \in Nat \ {0} /\ MaxNode >= Cardinality(Key)

VARIABLES
    list,      \* the nodes allocated, _skip_list_level and _element_count
    dumper     \* the last dump: keys and values in the order of the list

vars == <<list, dumper>>

Header == 0
NULL == -1

Forward(l, n, i) == l.node[n].forward[i]
KeyOf(l, n) == l.node[n].key

\* Mutation: steps onto the key itself.
Before_Mutant(a, b) == a <= b

Before(a, b) == a < b

\* The inner loop: along level i as long as the next key is smaller.
Walk(l, i, k, from) ==
    LET at[n \in DOMAIN l.node] ==
            IF Forward(l, n, i) # NULL /\ Before(KeyOf(l, Forward(l, n, i)), k)
            THEN at[Forward(l, n, i)] ELSE n
    IN  at[from]

\* The array update: on each level the last node before k, found from the top
\* level down, each level starting where the one above it stopped.
Update(l, k) ==
    LET update[i \in 0..l.level] ==
            Walk(l, i, k, IF i = l.level THEN Header ELSE update[i + 1])
    IN  update

\* The node behind update[0] if it has key k, else NULL.
At(l, update, k) ==
    LET next == Forward(l, update[0], 0) IN
    IF next # NULL /\ KeyOf(l, next) = k THEN next ELSE NULL

search_element(l, k) ==
    LET found == At(l, Update(l, k), k) IN
    IF found = NULL THEN Absent ELSE l.node[found].value

\* What get_random_level may return.
Levels == 1..MaxLevel

\* The node that is to point to a new one on level i.
Predecessor(l, update, i) == IF i <= l.level THEN update[i] ELSE Header

\* Mutation: the loop ends before the top level.
LinkedUpTo_Mutant(top) == 0..(top - 1)

\* The levels insert_element links a new node on.
LinkedUpTo(top) == 0..top

\* Nothing happens if the key is there.
insert_element(l, k, v, top) ==
    LET update == Update(l, k)
        new == Min((1..MaxNode) \ DOMAIN l.node)
        before == [i \in 0..top |-> Predecessor(l, update, i)]
    IN
    IF At(l, update, k) # NULL THEN l ELSE
    [node |-> [n \in DOMAIN l.node \cup {new} |->
        IF n = new
        THEN [key |-> k, value |-> v,
              forward |-> [i \in 0..top |->
                  IF i \in LinkedUpTo(top) THEN Forward(l, before[i], i) ELSE NULL]]
        ELSE [l.node[n] EXCEPT !.forward =
                [i \in DOMAIN @ |-> IF i \in LinkedUpTo(top) /\ before[i] = n THEN new ELSE @[i]]]],
     level |-> IF top > l.level THEN top ELSE l.level,
     count |-> l.count + 1]

\* The levels delete_element unlinks a node from: it stops at the first one the
\* node is not on.
LinkedLevels(l, update, old) ==
    {i \in 0..l.level : \A j \in 0..i : Forward(l, update[j], j) = old}

delete_element(l, k) ==
    LET update == Update(l, k)
        old == At(l, update, k)
        linked == LinkedLevels(l, update, old)
        next(n, i) ==
            IF i \in linked /\ update[i] = n THEN Forward(l, old, i) ELSE Forward(l, n, i)
    IN
    IF old = NULL THEN l ELSE
    [node |-> [n \in DOMAIN l.node \ {old} |->
        [l.node[n] EXCEPT !.forward = [i \in DOMAIN @ |-> next(n, i)]]],
     level |-> Max({i \in 0..l.level : i = 0 \/ next(Header, i) # NULL}),
     count |-> l.count - 1]

\* Mutant: insert_set_element leaves the old value in place.
Cleared_Mutant(l, k) == l

\* insert_set_element deletes the key first if it finds it.
Cleared(l, k) == IF search_element(l, k) # Absent THEN delete_element(l, k) ELSE l

\* The nodes of one level in their order.
Chain(l, i) ==
    LET from[n \in DOMAIN l.node \cup {NULL}] ==
            IF n = NULL THEN <<>> ELSE <<n>> \o from[Forward(l, n, i)]
    IN  from[Forward(l, Header, i)]

dump_file(l) ==
    LET chain == Chain(l, 0) IN
    [key |-> [j \in 1..Len(chain) |-> KeyOf(l, chain[j])],
     val |-> [j \in 1..Len(chain) |-> l.node[chain[j]].value]]

\* load_file inserts key after key, and gives insert_element the key as value, too.
load_file(l, d, top) ==
    FoldLeft(LAMBDA m, j : insert_element(m, d.key[j], d.key[j], top[j]),
             l, [j \in 1..Len(d.key) |-> j])

-----------------------------------------------------------------------------
Init ==
    /\ list = [node |-> (Header :> [key |-> Absent, value |-> Absent,
                                    forward |-> [i \in 0..MaxLevel |-> NULL]]),
               level |-> 0, count |-> 0]
    /\ dumper = [key |-> <<>>, val |-> <<>>]

InsertSet(k, v) ==
    /\ \E top \in Levels : list' = insert_element(Cleared(list, k), k, v, top)
    /\ UNCHANGED dumper

Insert(k, v) ==
    /\ \E top \in Levels : list' = insert_element(list, k, v, top)
    /\ UNCHANGED dumper

Delete(k) ==
    /\ list' = delete_element(list, k)
    /\ UNCHANGED dumper

DumpFile ==
    /\ dumper' = dump_file(list)
    /\ UNCHANGED list

LoadFile ==
    /\ \E top \in [1..Len(dumper.key) -> Levels] : list' = load_file(list, dumper, top)
    /\ UNCHANGED dumper

Next ==
    \/ \E k \in Key, v \in Value : InsertSet(k, v) \/ Insert(k, v)
    \/ \E k \in Key : Delete(k)
    \/ DumpFile
    \/ LoadFile

Spec == Init /\ [][Next]_vars

-----------------------------------------------------------------------------
Nodes == DOMAIN list.node \ {Header}

NoDanglingPointer ==
    \A n \in DOMAIN list.node : \A i \in DOMAIN list.node[n].forward :
        Forward(list, n, i) \in Nodes \cup {NULL}

\* After any mixture of insertions and deletions at random levels: no pointer to a
\* deleted node, every level is the ordered chain of exactly the nodes that reach
\* it, no chain above _skip_list_level, none missing at it, and _element_count is
\* the number of nodes.
LevelsConsistent ==
    /\ NoDanglingPointer
    /\ \A i \in 0..MaxLevel :
          LET chain == Chain(list, i) IN
          /\ Range(chain) = {n \in Nodes : i \in DOMAIN list.node[n].forward}
          /\ \A a, b \in 1..Len(chain) :
                a < b => KeyOf(list, chain[a]) < KeyOf(list, chain[b])
          /\ i > list.level => chain = <<>>
    /\ list.level > 0 => Chain(list, list.level) # <<>>
    /\ list.count = Cardinality(Nodes)

\* The map the lowest level spells out.
MapOf(l) ==
    LET nodes == Range(Chain(l, 0)) IN
    [k \in {KeyOf(l, n) : n \in nodes} |->
        l.node[CHOOSE n \in nodes : KeyOf(l, n) = k].value]

\* The search, which descends through the levels, finds exactly what a walk along
\* the lowest level would find.
SearchExact ==
    LET map == MapOf(list) IN
    \A k \in Key :
        search_element(list, k) = IF k \in DOMAIN map THEN map[k] ELSE Absent
=============================================================================
