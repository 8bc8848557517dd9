----------------------------- MODULE MCWorkers -----------------------------
(***************************************************************************)
(* The servers that converse with a client in one place, for TLC: a        *)
(* process or a thread for each connection, server5.c ("fork"), server6.c  *)
(* ("thread"), server7.c ("prefork") and server8.c ("prethread"), or one   *)
(* after the other, "server", "server1", "afindepend", "re-exec" and "ssl" *)
(* (see Sequential).  One of Servers is chosen at the start, before the    *)
(* same clients.  What does not belong to it keeps its initial value.      *)
(***************************************************************************)
EXTENDS WorkerPool, TLC

CONSTANTS
    Servers,        \* the servers the run is about
    MayFail,        \* whether fork(), pthread_create(), set-up and select() may fail
    MaxHups         \* bound: the SIGHUPs sent to re-exec

OneAtATime == {"server", "server1", "afindepend", "re-exec", "ssl"}

ASSUME FailAssumption == MayFail \in BOOLEAN /\ MaxHups \in Nat
ASSUME ServersAssumption ==
    Servers \subseteq {"fork", "thread", "prefork", "prethread"} \cup OneAtATime

VARIABLES
    which, pc, acc, zombies, pending, handler, peak, stolen, g_lock_id,
    family, listening, mask, selected, hups, hup, blocked, hello, notified

S5 == INSTANCE Server5
S6 == INSTANCE Server6
S7 == INSTANCE Server7
S8 == INSTANCE Server8
SQ == INSTANCE Sequential WITH prog <- which
RE == INSTANCE ReExec WITH prog <- which
SS == INSTANCE SslServer WITH prog <- which

main == <<pc, acc>>
own5 == <<zombies, pending, handler, peak, stolen>>
pool == <<at, serves, owner>>
own1 == <<family, listening, mask, selected, hups, hup, blocked, hello, notified>>
vars == <<clientVars, convVars, which, main, own5, pool, g_lock_id, own1>>

NoPool == at = <<>> /\ serves = <<>> /\ owner = Nobody /\ g_lock_id = Nobody
NoSockets == family = <<>> /\ listening = {} /\ mask = {} /\ selected = TRUE

Init ==
    /\ which \in Servers
    /\ which = "fork" => S5!Init /\ NoPool /\ NoSockets
    /\ which = "thread" => S6!Init /\ NoPool /\ NoSockets
    /\ which = "prefork" => S7!Init /\ g_lock_id = Nobody /\ NoSockets
    /\ which = "prethread" => S8!Init /\ NoSockets
    /\ which \in OneAtATime => SQ!Init /\ NoPool
    /\ which \in {"prefork", "prethread"} => pc = "accept" /\ acc = NoConn
    /\ which # "fork" =>
           zombies = {} /\ pending = FALSE /\ handler = FALSE /\ peak = 0 /\ stolen = FALSE
    /\ RE!HupInit
    /\ SS!SslInit

Rest5 == UNCHANGED <<which, pool, g_lock_id, own1>>
Rest6 == UNCHANGED <<which, own5, pool, g_lock_id, own1>>
Rest7 == UNCHANGED <<which, main, own5, g_lock_id, own1>>
Rest8 == UNCHANGED <<which, main, own5, own1>>
Rest1 == UNCHANGED <<own5, pool, g_lock_id>>
NoSignal == UNCHANGED <<hups, hup, blocked>>
NoSession == UNCHANGED <<hello, notified>>

Parent5 == which = "fork" /\ S5!AcceptLoop /\ Rest5
SigChld5 == which = "fork" /\ S5!SigChld /\ Rest5
Handler5 == which = "fork" /\ S5!HandlerReturns /\ Rest5
Child5(c) == which = "fork" /\ S5!Child(c) /\ Rest5
Accept6 == which = "thread" /\ S6!AcceptLoop /\ Rest6
Thread6(c) == which = "thread" /\ S6!Thread(c) /\ Rest6
Worker7(w) == which = "prefork" /\ S7!Worker(w) /\ Rest7
Worker8(w) == which = "prethread" /\ S8!Worker(w) /\ Rest8

Server1 == which \in OneAtATime /\ SQ!Server /\ Rest1 /\ NoSignal /\ NoSession
Accept1 == which \in OneAtATime /\ SQ!AcceptAny /\ Rest1 /\ NoSignal /\ NoSession
Session == which = "ssl" /\ SS!SslStep /\ Rest1 /\ NoSignal
SslAccept == which = "ssl" /\ SS!SslAccept /\ Rest1 /\ NoSignal
Sigaction == which = "re-exec" /\ RE!Sigaction /\ Rest1 /\ NoSession
Hangup == which = "re-exec" /\ RE!Hangup /\ Rest1 /\ NoSession
SendHup == which = "re-exec" /\ RE!SendHup /\ Rest1 /\ NoSession

Others == UNCHANGED <<convVars, which, main, own5, pool, g_lock_id, own1>>

\* A client is refused by a sequential server that does not listen, and sends nothing
\* outside of a TLS session.
ClientStep ==
    /\ \E c \in Conns :
           \/ Connect(c) /\ (which \in OneAtATime => SQ!MayConnect(c))
           \/ SendLine(c) /\ (which = "ssl" => SS!MaySend(c))
           \/ ReadReply(c) \/ CloseConn(c)
    /\ Others
SessionStep ==
    /\ which = "ssl"
    /\ \E c \in Conns : SS!ClientHello(c) \/ SS!CloseNotify(c)
    /\ Rest1 /\ NoSignal

Next ==
    \/ Parent5 \/ SigChld5 \/ Handler5 \/ \E c \in Conns : Child5(c)
    \/ Accept6 \/ \E c \in Conns : Thread6(c)
    \/ \E w \in Workers : Worker7(w) \/ Worker8(w)
    \/ Server1 \/ Session \/ SessionStep
    \/ Sigaction \/ Hangup \/ SendHup
    \/ ClientStep

Spec == Init /\ [][Next]_vars

\* Processes and threads run, a SIGCHLD or a SIGHUP is delivered, clients read their
\* replies, and accept() does not fail for ever.  Clients need not close.  (No two of
\* the programs are ever enabled together, so that their conditions are one.)
FairSpec ==
    /\ Spec
    /\ WF_vars(Parent5 \/ Accept6 \/ Server1 \/ Session \/ Sigaction)
    /\ WF_vars(SigChld5 \/ Hangup)
    /\ WF_vars(Handler5)
    /\ SF_vars(Accept1 \/ SslAccept)
    /\ \A c \in Conns : WF_vars(Child5(c) \/ Thread6(c))
    /\ \A c \in Conns : WF_vars(ReadReply(c) /\ Others)
    /\ \A w \in Workers :
           /\ WF_vars(Worker7(w) \/ Worker8(w))
           /\ SF_vars(\/ which = "prefork" /\ S7!Accept(w) /\ Rest7
                      \/ which = "prethread" /\ S8!Accept(w) /\ Rest8)

\* Connections are interchangeable when all of them may close early, and workers are.
Perms == Permutations(Conns) \cup Permutations(Workers)

---------------------------------------------------------------------------
(* Properties                                                              *)

\* server5.c: children that have not been waited for do not pile up, although SIGCHLDs
\* are lost: with those alive they are never more than were once alive together, and
\* the one just forked.  And the handler's wait() holds up the accept loop only after
\* the loop's own waitpid() has taken a child whose SIGCHLD was still to be handled.
\* (The types say that only children that have ended are waited for.  Of server6.c,
\* whose threads nobody waits for, only the types are of interest.)
ChildrenAreReaped ==
    /\ which = "fork" => S5!TypeOK /\ S5!ProcessTableBounded /\ S5!StuckOnlyAfterRace
    /\ which = "thread" => S6!TypeOK

\* server7.c and server8.c: whoever holds the lock is on its way through accept(), and
\* nobody keeps it through a conversation, in an error path or in death; the thread
\* server8.c prints, which main() reads without the mutex, is never one that does not
\* hold it.  (The types relate a worker's place to the connection it serves.)
LockIsForAccept ==
    /\ which = "prefork" => S7!TypeOK /\ S7!LockIsForAccept
    /\ which = "prethread" => S8!TypeOK /\ S8!LockIsForAccept /\ S8!MarkIsOwner

\* The sequential servers: the accept() that follows a select() which has not failed
\* finds a connection, however long the conversation between the two, and nobody but
\* the connection in acc is in conversation, whatever ended the one before.
OneAtATimeAndReady ==
    which \in OneAtATime => SQ!TypeOK /\ SQ!AcceptIsReady /\ SQ!OneConversation

\* SIGPIPE has ended the process.
Killed == pc = "killed" \/ (which = "prethread" /\ ~S8!Alive)

\* Why a server may leave a connection in the queue.
Excused ==
    \/ Killed
    \/ which = "fork" /\ S5!HandlerStuck
    \/ which = "prefork" /\ S7!AllBusy
    \/ which = "prethread" /\ S8!AllBusy
    \/ which \in OneAtATime /\ SQ!Busy

\* No server keeps a connection in the queue but for a reason of its own: every worker
\* is in a conversation (or dead), the one conversation is with a client that keeps it
\* open, the handler's wait() of server5.c blocks, accept() waits on another socket
\* after a failed select(), or SIGPIPE has ended the process.
QueueMovesOn == \A c \in Conns : Waiting(c) ~> (~Waiting(c) \/ Excused)

\* The first line that waits on a connection in conversation is answered, unless the
\* connection or the process ends first, however many of the other clients stay silent.
EveryLineAnswered ==
    \A c \in Conns : \A n \in 1 .. MaxLines :
        (c \in Live /\ phase[c] = "up" /\ read[c] = n - 1 /\ sent[c] >= n)
            ~> (Answered(c) >= n \/ phase[c] # "up" \/ Killed)

\* re-exec.c: every SIGHUP is taken, the second as well as the first, and leads to a
\* server that listens again, unless set-up, execve() or a signal at the wrong moment
\* ends it.
RestartCompletes == which = "re-exec" => RE!RestartCompletes
=============================================================================
