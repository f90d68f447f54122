------------------------------ MODULE MCFibers ------------------------------
(***************************************************************************)
(* Instances of the fiber runtime for TLC.                                 *)
(***************************************************************************)
EXTENDS FiberProperties, TLC

CONSTANTS t1, t2, f1, f2, f3, d1

sleep(time) == [op |-> "sleep", time |-> time]
io(op) == [op |-> op, fd |-> d1]
connect(ms) == [op |-> "connect", fd |-> d1, ms |-> ms]
option(op, time) == [op |-> op, fd |-> d1, time |-> time]
flag(op, b) == [op |-> op, fd |-> d1, flag |-> b]
any(f) == [fiber |-> f, thread |-> AnyThread]
pinned(f, t) == [fiber |-> f, thread |-> t]
progs(a, b, c) == f1 :> a @@ f2 :> b @@ f3 :> c

\* The two tickers of Raft, one of which sleeps longer than MAX_TIMEOUT.
Tickers ==
    [pool |-> {t1}, caller |-> {}, prog |-> progs(<<sleep(3)>>, <<sleep((MAX_TIMEOUT + 1) * PartsPerMs)>>, <<>>),
     loops |-> {f1, f2}, finite |-> {}, main |-> <<any(f1), any(f2)>>, stops |-> FALSE, bits |-> {}, full |-> FALSE]

\* A reader with a time-out and a fiber that closes its descriptor.
ReaderAndClose ==
    [pool |-> {t1}, caller |-> {},
     prog |-> progs(<<option("recvTimeout", 5), io("read"), io("read"), sleep(2)>>,
                    <<sleep(4), io("close")>>, <<>>),
     loops |-> {}, finite |-> {f1, f2}, main |-> <<any(f1), any(f2)>>, stops |-> TRUE, bits |-> {"IN"}, full |-> FALSE]

\* A reader and a writer that wait for the same descriptor with different time-outs.
ReaderAndWriter ==
    [pool |-> {t1}, caller |-> {},
     prog |-> progs(<<option("recvTimeout", 4), io("read"), io("read")>>,
                    <<option("sendTimeout", 3), io("write"), io("write")>>, <<>>),
     loops |-> {}, finite |-> {f1, f2}, main |-> <<any(f1), any(f2)>>,
     stops |-> TRUE, bits |-> {"IN", "OUT"}, full |-> FALSE]

\* A client: a new socket, connect with a time-out, options, write, read until the peer closes.
Client ==
    [pool |-> {t1}, caller |-> {},
     prog |-> progs(<<io("close"), io("socket"), connect(2), flag("fcntl", TRUE), io("write"),
                      flag("fcntl", FALSE), option("recvTimeout", 1), io("read")>>,
                    <<sleep(2), io("close")>>, <<>>),
     loops |-> {}, finite |-> {f1, f2}, main |-> <<any(f1), any(f2)>>,
     stops |-> TRUE, bits |-> {"IN", "OUT", "ERR"}, full |-> TRUE]

\* A callback registered for a descriptor, and a descriptor closed under it.
Watcher ==
    [pool |-> {t1}, caller |-> {},
     prog |-> progs(<<flag("ioctl", TRUE), io("watch") @@ [cb |-> f3]>>, <<sleep(1), io("close")>>, <<io("read")>>),
     loops |-> {}, finite |-> {f1, f2}, main |-> <<any(f1), any(f2)>>, stops |-> TRUE, bits |-> {"IN"}, full |-> TRUE]

\* Two threads and tasks that are pinned to them.
Pinned ==
    [pool |-> {t1, t2}, caller |-> {}, prog |-> progs(<<>>, <<>>, <<>>), loops |-> {},
     finite |-> {f1, f2, f3}, main |-> <<pinned(f1, t2), any(f2), pinned(f3, t1)>>,
     stops |-> TRUE, bits |-> {}, full |-> FALSE]

\* The calling thread takes part, in stop().
UseCaller == [Pinned EXCEPT !.pool = {t1}, !.caller = {t2}, !.finite = {f2, f3}]

\* Two threads and fibers that sleep.
Sleepers ==
    [Pinned EXCEPT !.prog = progs(<<sleep(1)>>, <<sleep(2)>>, <<>>), !.main = <<any(f1), any(f2)>>]

OneThreadOrNoWaiting == {Tickers, ReaderAndClose, ReaderAndWriter, Client, Watcher, Pinned, UseCaller}

\* With these NoPanic is violated.
TwoThreads == {Sleepers}
=============================================================================
