----------------------------- MODULE OneThread -----------------------------
(***************************************************************************)
(* send_recv() of the servers that do everything in one thread             *)
(* (chapter05/server2.c, server3.c and server4.c): recv(), build the       *)
(* reply, send().  Between the two calls the clients go on, and one may    *)
(* close.  What the caller does when send_recv() returns -1 is its own.    *)
(***************************************************************************)
EXTENDS ServerSockets, FiniteSets

VARIABLES
    pc,         \* where the thread is
    cur,        \* the descriptor send_recv() works on
    reply       \* its buffer, with the reply

threadVars == <<pc, cur, reply>>

OneThreadInit == SocketInit /\ pc = "wait" /\ cur = Soc /\ reply = NoLine

\* mutant: ":OK" is not appended
RecvBare(f) ==
    /\ RecvFrom(f)
    /\ reply' = FirstLine(f)
    /\ cur' = f
    /\ pc' = "send"

\* recv() returns data; the line is cut and ":OK" appended.
RecvLine(f) ==
    /\ RecvFrom(f)
    /\ reply' = [FirstLine(f) EXCEPT !.ok = TRUE]
    /\ cur' = f
    /\ pc' = "send"

\* send() succeeds, send_recv() returns 0.
ReplySent ==
    /\ pc = "send"
    /\ SendTo(cur, reply)
    /\ pc' = "scan"
    /\ cur' = Soc
    /\ reply' = NoLine

\* send() fails on a connection that was reset.
ReplyFails ==
    /\ pc = "send"
    /\ Broken(fdConn[cur])
    /\ pc' = "scan"
    /\ cur' = Soc
    /\ reply' = NoLine

\* As ReplyFails, where the connection was closed before it was reset: SIGPIPE.
ReplyKills ==
    /\ pc = "send"
    /\ Broken(fdConn[cur])
    /\ pc' = "killed"
    /\ UNCHANGED <<clientVars, fdConn, cur, reply>>

\* Types of the variables of this module.
ThreadTypeOK ==
    /\ fdConn \in [Fds -> Conns \cup {NoConn}]
    /\ pc \in {"wait", "accept", "scan", "send", "return", "killed"}
    /\ cur \in Fds \cup {Soc}
    /\ reply \in Replies
    /\ \A c \in Conns : read[c] <= sent[c]

\* The servers implement the echo service: replies go to whoever sent the line, once
\* and in order.
Service == INSTANCE EchoService WITH
    status <- phase, asked <- sent, answers <- [c \in Conns |-> Sent(c)]
EchoRefined == Service!ESpec

\* The first line that waits for the server is answered, unless the connection ends
\* first.  (Lines that one recv() returns together with it are dropped.)
EveryLineAnswered ==
    \A c \in Conns : \A n \in 1 .. MaxLines :
        (phase[c] = "up" /\ read[c] = n - 1 /\ sent[c] >= n)
            ~> (Answered(c) >= n \/ phase[c] # "up")

\* The thread calls recv() only on a descriptor that has something to read, a line
\* or an end: it would otherwise stand still, and every client with it.
NeverBlocks(toRead) == \A f \in toRead : f \in OpenFds /\ Readable(fdConn[f])

\* A connection is turned away only when the server holds all it has room for.
OnlyFullTurnsAway ==
    (\E c \in Conns : phase[c] = "up" /\ phase'[c] = "hungup")
        => Cardinality(OpenFds) = MAX_CHILD - 1
=============================================================================
