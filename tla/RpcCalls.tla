------------------------------ MODULE RpcCalls ------------------------------
(***************************************************************************)
(* What a caller may rely on when it calls a method of another server: the *)
(* method is executed at most once per call, possibly only after the call  *)
(* has failed, and returns once.  Where calls are reliable, a call that    *)
(* succeeds has the answer to its own request, or the empty message when   *)
(* the server has closed the connection; where they are not, nothing is    *)
(* said of what a call returns.                                            *)
(***************************************************************************)
CONSTANTS
    Call,           \* the calls that can be made
    Method,         \* the methods that can be called
    Answers(_),     \* the answers a method can give
    Empty(_),       \* the empty message of its response class
    None            \* no answer, or not returned yet

VARIABLES
    reliable,   \* whether a call that succeeds has its own answer
    made,       \* the method of each call that has been made
    answered,   \* the answer the server has given to each call
    result      \* what each call has returned

vars == <<reliable, made, answered, result>>

Init ==
    /\ reliable \in BOOLEAN
    /\ made = [k \in Call |-> None]
    /\ answered = [k \in Call |-> None]
    /\ result = [k \in Call |-> None]

Begin(k, method) ==
    /\ made[k] = None
    /\ made' = [made EXCEPT ![k] = method]
    /\ UNCHANGED <<reliable, answered, result>>

Execute(k, m) ==
    /\ made[k] # None
    /\ answered[k] = None
    /\ answered' = [answered EXCEPT ![k] = m]
    /\ UNCHANGED <<reliable, made, result>>

Return(k, outcome) ==
    /\ made[k] # None
    /\ result[k] = None
    /\ result' = [result EXCEPT ![k] = outcome]
    /\ UNCHANGED <<reliable, made, answered>>

Succeed(k, m) == Return(k, [failed |-> FALSE, msg |-> m])
Fail(k) == Return(k, [failed |-> TRUE])

\* The call returns; nothing is said of what.
ReturnAnything(k) ==
    /\ ~reliable
    /\ made[k] # None
    /\ result[k] = None
    /\ DOMAIN result' = Call
    /\ \A l \in Call \ {k} : result'[l] = result[l]
    /\ UNCHANGED <<reliable, made, answered>>

Next ==
    \E k \in Call :
        \/ \E method \in Method : Begin(k, method)
        \/ made[k] # None /\ \E m \in Answers(made[k]) : Execute(k, m)
        \/ answered[k] # None /\ Succeed(k, answered[k])
        \/ made[k] # None /\ Succeed(k, Empty(made[k]))
        \/ Fail(k)
        \/ ReturnAnything(k)

Spec == Init /\ [][Next]_vars
=============================================================================
