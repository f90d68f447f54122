------------------------- MODULE KvServerProperties -------------------------
(***************************************************************************)
(* What clients may rely on, and module KvServer is checked to satisfy.    *)
(*                                                                         *)
(* ExecuteGetOpOnKVDB writes the id of its request into m_lastRequestId,   *)
(* whatever is there.  A Get that its clerk has given up may be executed   *)
(* after later requests of the clerk: it takes the id back, and the server *)
(* executes another copy of a later write as if it were new.  The servers  *)
(* this has happened to are `lowered'; nothing is said of the data they    *)
(* hold, everything else is said of every server.                          *)
(***************************************************************************)
EXTENDS KvServer

\* No server executes a request twice, although it is in the log once for every
\* time its clerk had to retry it (ifRequestDuplicate): unless a read has taken
\* the id back that says so.
AppliedOnce ==
    \A s \in Server \ lowered : IsInjective(executed[s])

\* Two servers that have taken the same messages hold the same data, whatever
\* their handlers have done in the meantime other than taking an id back.
ReplicasAgree ==
    \A s, t \in Server \ lowered :
        loop[s] = Idle /\ loop[t] = Idle /\ applied[s] = applied[t]
            => m_skipList[s] = m_skipList[t]

\* A write that has been answered with OK, from the channel or after a time-out,
\* is committed, and every server that has got so far has executed it.
OkMeansApplied ==
    \A v \in acked : \E i \in 1..Len(committed) :
        /\ committed[i].Value = v
        /\ \A s \in Server :
              applied[s] > i \/ (applied[s] = i /\ loop[s] = Idle)
                  => v \in Range(executed[s])

\* What a Get returns is not older than what its clerk has written before: with
\* one clerk it is the last value written, unless the server that answers has had
\* an id taken back.
ReadYourWrites ==
    \A c \in Clerk :
        LET mine == {v[2] : v \in {w \in acked : w[1] = c}} IN
        /\ clerk[c].call = 0 /\ clerk[c].op # Nothing /\ ~IsWrite(clerk[c].op)
        /\ clerk[c].server \notin lowered
        => clerk[c].got = IF mine = {} THEN Nothing ELSE <<c, Max(mine)>>
=============================================================================
