--------------------------- MODULE ServerSockets ---------------------------
(***************************************************************************)
(* The descriptors of a server process: which connection each is open on,  *)
(* and what accept() and close() do.  The servers of chapter05 that keep   *)
(* all their connections in one process extend this module.                *)
(***************************************************************************)
EXTENDS EchoClients

CONSTANTS
    MAX_CHILD,      \* connections plus one
    FirstFd         \* the first descriptor accept() can return

ASSUME SocketAssumption ==
    /\ MAX_CHILD \in Nat \ {0}
    /\ FirstFd \in Nat \ {0}

VARIABLE
    fdConn          \* fdConn[f]: the connection descriptor f is open on, or NoConn

\* One descriptor more than the connections a server keeps.
Fds == FirstFd .. (FirstFd + MAX_CHILD - 1)
Soc == 0                                    \* the listening socket
OpenFds == {f \in Fds : fdConn[f] # NoConn}
FreeFds == Fds \ OpenFds

SocketInit == ClientInit /\ fdConn = [f \in Fds |-> NoConn]

\* The descriptors of S that select(), poll() and epoll_wait() report.
ReadyOf(S) ==
    (IF backlog # <<>> THEN {Soc} ELSE {}) \cup {f \in S : Readable(fdConn[f])}

\* accept() takes the first connection of the queue and returns the lowest free
\* descriptor.
AcceptAs(f) ==
    /\ backlog # <<>>
    /\ f \in FreeFds
    /\ \A g \in FreeFds : f <= g
    /\ fdConn' = [fdConn EXCEPT ![f] = Head(backlog)]
    /\ backlog' = Tail(backlog)
    /\ UNCHANGED <<phase, sent, read, out, got, reset>>

\* accept(), and close() at once.
AcceptAndClose ==
    /\ backlog # <<>>
    /\ backlog' = Tail(backlog)
    /\ HangUpOn(Head(backlog))
    /\ UNCHANGED <<sent, read, out, got, reset, fdConn>>

\* close(f)
CloseFd(f) ==
    /\ HangUpOn(fdConn[f])
    /\ fdConn' = [fdConn EXCEPT ![f] = NoConn]
    /\ UNCHANGED <<sent, read, out, got, reset, backlog>>

\* recv(f) returns one or more lines, of which the first is looked at.
FirstLine(f) == [conn |-> fdConn[f], n |-> read[fdConn[f]] + 1, ok |-> FALSE]
RecvFrom(f) ==
    /\ \E k \in 1 .. MaxLines : TakeLines(fdConn[f], k)
    /\ UNCHANGED <<phase, sent, out, got, reset, backlog, fdConn>>

\* send(f) returns without an error.
SendTo(f, line) ==
    /\ Deliver(fdConn[f], line)
    /\ UNCHANGED <<phase, sent, read, got, backlog, fdConn>>
=============================================================================
