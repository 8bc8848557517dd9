------------------------------ MODULE Server9 ------------------------------
(***************************************************************************)
(* chapter05/server9.c: one thread waits in epoll_wait(), accepts and      *)
(* receives; MAXSENDER threads build the replies and send them.  What was  *)
(* received travels in a ring buffer per sending thread, g_queue[qi]; the  *)
(* descriptor of the connection chooses the ring.                          *)
(*                                                                         *)
(* A section under a ring's mutex is one step (nothing in it blocks), and  *)
(* so is each system call; the slot of a ring is written and read outside  *)
(* the mutex, in steps of their own: .acc before recv(), .buf and .len by  *)
(* recv(), and again by the sending thread.  An epoll_wait() that times    *)
(* out or is interrupted changes nothing and is left out.                  *)
(***************************************************************************)
EXTENDS ServerSockets, FiniteSets, TLC

CONSTANTS
    MAXSENDER,      \* sending threads, and rings
    MAXQUEUESZ,     \* slots of a ring
    CtlMayFail      \* whether EPOLL_CTL_ADD may fail (the kernel is out of memory)

ASSUME ServerAssumption ==
    /\ MAXSENDER \in Nat \ {0}
    /\ MAXQUEUESZ \in Nat \ {0}
    /\ CtlMayFail \in BOOLEAN

VARIABLES
    pc,         \* where accept_loop() is
    events,     \* the events of the batch that have not been looked at
    cur,        \* the descriptor at recv(), or whose line waits to be queued
    count,      \* the code's count of connections
    front,      \* g_queue[q].front
    last,       \* g_queue[q].last
    data,       \* g_queue[q].data[i]: .acc, and .buf and .len as one .line
    tpc,        \* tpc[q]: where the sending thread of ring q is
    ti          \* ti[q]: its local variable i

serverVars == <<fdConn, pc, events, cur, count>>
queueVars == <<front, last, data>>
threadVars == <<tpc, ti>>
vars == <<clientVars, serverVars, queueVars, threadVars>>

Senders == 0 .. (MAXSENDER - 1)
Slots == 0 .. (MAXQUEUESZ - 1)
NoWrap(i) == i + 1                          \* mutant: the index is not reduced
NextShort(i) == (i + 1) % (MAXQUEUESZ - 1)  \* mutant: the last slot is never used
QUEUE_NEXT(i) == (i + 1) % MAXQUEUESZ
QueueOf(f) == f % MAXSENDER

Init ==
    /\ SocketInit
    /\ pc = "epoll_wait"
    /\ events = {}
    /\ cur = Soc
    /\ count = 0
    /\ front = [q \in Senders |-> 0]
    /\ last = [q \in Senders |-> 0]
    /\ data = [q \in Senders |-> [i \in Slots |-> [acc |-> 0, line |-> NoLine]]]
    /\ tpc = [q \in Senders |-> "lock"]
    /\ ti = [q \in Senders |-> 0]

---------------------------------------------------------------------------
(* accept_loop()                                                           *)

EpollWait ==
    /\ pc = "epoll_wait"
    /\ ReadyOf(OpenFds) # {}
    /\ events' = ReadyOf(OpenFds)
    /\ pc' = "scan"
    /\ UNCHANGED <<clientVars, fdConn, cur, count, queueVars, threadVars>>

\* The event of f is done with: the next one, or epoll_wait() again.
NextEvent(f) ==
    /\ events' = events \ {f}
    /\ pc' = IF events = {f} THEN "epoll_wait" ELSE "scan"

AtListener ==
    /\ pc = "scan"
    /\ Soc \in events
    /\ backlog # <<>>

\* No room for one more connection.
Full == count + 1 >= MAX_CHILD

AcceptFails ==
    /\ AtListener
    /\ NextEvent(Soc)
    /\ UNCHANGED <<clientVars, fdConn, cur, count, queueVars, threadVars>>

\* mutant: an older connection makes way for the new one, its event still in the batch
AcceptEvicts ==
    /\ AtListener
    /\ Full
    /\ \E f \in OpenFds :
           /\ fdConn' = [fdConn EXCEPT ![f] = Head(backlog)]
           /\ HangUpOn(fdConn[f])
    /\ backlog' = Tail(backlog)
    /\ NextEvent(Soc)
    /\ UNCHANGED <<sent, read, out, got, reset, cur, count, queueVars, threadVars>>

AcceptFull ==
    /\ AtListener
    /\ Full
    /\ AcceptAndClose
    /\ NextEvent(Soc)
    /\ UNCHANGED <<cur, count, queueVars, threadVars>>

\* accept() returns the lowest free descriptor, which EPOLL_CTL_ADD registers.
AcceptAdd ==
    /\ AtListener
    /\ ~Full
    /\ \E f \in Fds : AcceptAs(f)
    /\ count' = count + 1
    /\ NextEvent(Soc)
    /\ UNCHANGED <<cur, queueVars, threadVars>>

\* EPOLL_CTL_ADD fails: accept_loop() returns, and main() waits for a sending
\* thread that never ends.
AcceptAddFails ==
    /\ AtListener
    /\ CtlMayFail
    /\ ~Full
    /\ AcceptAndClose
    /\ events' = {}
    /\ pc' = "join"
    /\ UNCHANGED <<cur, count, queueVars, threadVars>>

\* The descriptor goes into the slot at last of its ring, before anything is received.
MarkSlot(f) ==
    /\ pc = "scan"
    /\ f \in events \ {Soc}
    /\ LET q == QueueOf(f)
       IN data' = [data EXCEPT ![q][last[q]].acc = f]
    /\ cur' = f
    /\ pc' = "recv"
    /\ UNCHANGED <<clientVars, fdConn, events, count, front, last, threadVars>>

\* recv() into that slot, before the ring is locked.
Recv(f) ==
    /\ pc = "recv"
    /\ f = cur
    /\ LET q == QueueOf(f)
       IN data' = [data EXCEPT ![q][last[q]].line = FirstLine(f)]
    /\ RecvFrom(f)
    /\ pc' = "push"
    /\ UNCHANGED <<events, cur, count, front, last, threadVars>>

\* pthread_cond_signal() on the condition of ring q.
NoSignal(q) == tpc' = tpc                   \* mutant: the signal is forgotten
Signal(q) == tpc' = [tpc EXCEPT ![q] = IF @ = "wait" THEN "lock" ELSE @]

\* The locked section: the slot joins the ring, without asking whether there is
\* room, and the condition variable wakes the thread if it waits.
Push ==
    /\ pc = "push"
    /\ LET q == QueueOf(cur)
       IN /\ last' = [last EXCEPT ![q] = QUEUE_NEXT(@)]
          /\ Signal(q)
    /\ cur' = Soc
    /\ NextEvent(cur)
    /\ UNCHANGED <<clientVars, fdConn, count, front, data, ti>>

\* recv() returned 0 or -1: of the slot it changes .len and leaves .buf, and a thread
\* that is at work on the slot has the old line left to send, or nothing.
EndOfData(f) ==
    LET q == QueueOf(f)
    IN  \E l \in {data[q][last[q]].line, NoLine} : data' = [data EXCEPT ![q][last[q]].line = l]

\* mutant: count-- is forgotten
HangUpKeepsCount(f) ==
    /\ pc = "recv"
    /\ f = cur
    /\ AtEnd(fdConn[f])
    /\ EndOfData(f)
    /\ CloseFd(f)
    /\ cur' = Soc
    /\ NextEvent(f)
    /\ UNCHANGED <<count, front, last, threadVars>>

\* recv() returns 0 or -1: EPOLL_CTL_DEL, close().
HangUp(f) ==
    /\ pc = "recv"
    /\ f = cur
    /\ AtEnd(fdConn[f])
    /\ EndOfData(f)
    /\ CloseFd(f)
    /\ count' = count - 1
    /\ cur' = Soc
    /\ NextEvent(f)
    /\ UNCHANGED <<front, last, threadVars>>

AcceptLoop ==
    \/ EpollWait
    \/ AcceptFails \/ AcceptFull \/ AcceptAdd \/ AcceptAddFails
    \/ \E f \in Fds : MarkSlot(f) \/ Recv(f) \/ HangUp(f)
    \/ Push

---------------------------------------------------------------------------
(* send_thread(), the thread of ring q                                     *)

Alive == pc # "killed"

\* mutant: front is not advanced
TakeKeepsFront(q) ==
    /\ Alive
    /\ tpc[q] = "lock"
    /\ last[q] # front[q]
    /\ ti' = [ti EXCEPT ![q] = front[q]]
    /\ tpc' = [tpc EXCEPT ![q] = "reply"]
    /\ UNCHANGED <<clientVars, serverVars, queueVars>>

TakeRequest(q) ==
    /\ Alive
    /\ tpc[q] = "lock"
    /\ last[q] # front[q]
    /\ ti' = [ti EXCEPT ![q] = front[q]]
    /\ front' = [front EXCEPT ![q] = QUEUE_NEXT(@)]
    /\ tpc' = [tpc EXCEPT ![q] = "reply"]
    /\ UNCHANGED <<clientVars, serverVars, last, data>>

WaitForRequest(q) ==
    /\ Alive
    /\ tpc[q] = "lock"
    /\ last[q] = front[q]
    /\ tpc' = [tpc EXCEPT ![q] = "wait"]
    /\ UNCHANGED <<clientVars, serverVars, queueVars, ti>>

\* pthread_cond_wait() may return without a signal.
SpuriousWakeup(q) ==
    /\ Alive
    /\ tpc[q] = "wait"
    /\ tpc' = [tpc EXCEPT ![q] = "lock"]
    /\ UNCHANGED <<clientVars, serverVars, queueVars, ti>>

\* mutant: the reply is sent as it was received
BuildNothing(q) ==
    /\ Alive
    /\ tpc[q] = "reply"
    /\ tpc' = [tpc EXCEPT ![q] = "send"]
    /\ UNCHANGED <<clientVars, serverVars, queueVars, ti>>

\* The line is cut at its end and ":OK" appended, in the slot itself.
BuildReply(q) ==
    /\ Alive
    /\ tpc[q] = "reply"
    /\ data' = [data EXCEPT ![q][ti[q]].line.ok = TRUE]
    /\ tpc' = [tpc EXCEPT ![q] = "send"]
    /\ UNCHANGED <<clientVars, serverVars, front, last, ti>>

\* The descriptor thread q replies to, and the connection it is open on now.
FrontFd(q) == data[q][front[q]].acc         \* mutant: the slot at front, not at i
ReplyFd(q) == data[q][ti[q]].acc
Addressee(q) == IF ReplyFd(q) \in Fds THEN fdConn[ReplyFd(q)] ELSE NoConn

AtSend(q) ==
    /\ Alive
    /\ tpc[q] = "send"

SendReply(q) ==
    /\ AtSend(q)
    /\ Addressee(q) # NoConn
    /\ SendTo(ReplyFd(q), data[q][ti[q]].line)
    /\ tpc' = [tpc EXCEPT ![q] = "lock"]
    /\ UNCHANGED <<pc, events, cur, count, queueVars, ti>>

\* The descriptor is closed, or the connection was reset before it was closed:
\* send() fails, and the error is only printed.
SendFails(q) ==
    /\ AtSend(q)
    /\ Addressee(q) # NoConn => Broken(Addressee(q))
    /\ tpc' = [tpc EXCEPT ![q] = "lock"]
    /\ UNCHANGED <<clientVars, serverVars, queueVars, ti>>

\* The connection was closed and then reset: SIGPIPE ends the whole process.
SendKills(q) ==
    /\ AtSend(q)
    /\ Addressee(q) # NoConn
    /\ Broken(Addressee(q))
    /\ pc' = "killed"
    /\ UNCHANGED <<clientVars, fdConn, events, cur, count, queueVars, threadVars>>

SendThread(q) ==
    \/ TakeRequest(q) \/ WaitForRequest(q)
    \/ BuildReply(q)
    \/ SendReply(q) \/ SendFails(q) \/ SendKills(q)

ClientStep ==
    /\ \E c \in Conns : Client(c)
    /\ UNCHANGED <<serverVars, queueVars, threadVars>>

Next ==
    \/ AcceptLoop
    \/ \E q \in Senders : SendThread(q) \/ SpuriousWakeup(q)
    \/ ClientStep

Spec == Init /\ [][Next]_vars

\* The threads are scheduled, a client reads the replies sent to it, and accept()
\* does not fail for ever on a connection that waits.
Fairness ==
    /\ WF_vars(AcceptLoop)
    /\ SF_vars(AcceptFull \/ AcceptAdd)
    /\ \A q \in Senders : WF_vars(SendThread(q))
    /\ \A c \in Conns : WF_vars(ReadReply(c) /\ UNCHANGED <<serverVars, queueVars, threadVars>>)

FairSpec == Spec /\ Fairness

---------------------------------------------------------------------------
(* Properties                                                              *)

\* Types; the data of a slot is what was received through a descriptor.
TypeOK ==
    /\ phase \in [Conns -> Phases]
    /\ sent \in [Conns -> 0 .. MaxLines]
    /\ read \in [Conns -> 0 .. MaxLines]
    /\ out \in [Conns -> Seq(Replies)]
    /\ got \in [Conns -> Seq(Replies)]
    /\ reset \in SUBSET Conns
    /\ backlog \in Seq(Conns)
    /\ fdConn \in [Fds -> Conns \cup {NoConn}]
    /\ pc \in {"epoll_wait", "scan", "recv", "push", "join", "killed"}
    /\ events \in SUBSET (Fds \cup {Soc})
    /\ cur \in Fds \cup {Soc}
    /\ count \in 0 .. (MAX_CHILD - 1)
    /\ front \in [Senders -> Slots]
    /\ last \in [Senders -> Slots]
    /\ data \in [Senders -> [Slots -> [acc : Fds \cup {0}, line : Replies]]]
    /\ tpc \in [Senders -> {"lock", "wait", "reply", "send"}]
    /\ ti \in [Senders -> Slots]

\* accept_loop()'s count of connections is the number of descriptors it holds
\* open, however accepts, refusals, failures and ends of connections follow one
\* another: a drift would refuse clients for ever, or let the table overflow
\* (events[] has MAX_CHILD + 1 elements).
CountIsOpen == count = Cardinality(OpenFds)

\* An event of the batch that is still to be looked at concerns a descriptor that
\* is open and still on the connection epoll_wait() reported: recv() never
\* blocks on a descriptor that was closed and reused earlier in the batch, and
\* EPOLL_CTL_DEL never fails.  (What waits to be queued was readable and is read.)
EventsAreLive ==
    /\ events \ {Soc} \subseteq OpenFds
    /\ \A f \in events \ {Soc} : Readable(fdConn[f]) \/ (f = cur /\ pc # "recv")

\* A sending thread that waits on its condition variable has nothing to send:
\* the signal cannot be lost between its look at the ring and its wait.
NoLostWakeup == \A q \in Senders : tpc[q] = "wait" => last[q] = front[q]

\* The slots of ring q that hold requests nobody has taken.
Queued(q) ==
    {i \in Slots : (i - front[q]) % MAXQUEUESZ < (last[q] - front[q]) % MAXQUEUESZ}

Busy(q) == tpc[q] \in {"reply", "send"}

\* accept_loop() never writes the slot a sending thread is building its reply in:
\* neither holds the mutex there.
SlotNotShared ==
    \A q \in Senders : Busy(q) => ti[q] # last[q] /\ ti[q] \notin Queued(q)

\* A client reads and is sent echoes of its own lines only.
RepliesToOwner ==
    \A c \in Conns : \A k \in DOMAIN Sent(c) : Sent(c)[k].conn = c

\* As long as accept_loop() writes no slot a sending thread uses (SlotNotShared), a
\* client receives the reply to another one's line only if that one has closed its
\* connection: the descriptors of two connections that are both up are never confused,
\* whatever the clients do.  (A slot whose recv() returned 0 may hold nobody's line.)
CrossTalkOnlyFromLeavers ==
    \A c \in Conns : \A k \in DOMAIN Sent(c) :
        LET owner == Sent(c)[k].conn IN owner \in {c, NoConn} \/ phase[owner] = "closed"

\* The server implements the echo service.
Service == INSTANCE EchoService WITH
    status <- phase, asked <- sent, answers <- [c \in Conns |-> Sent(c)]
EchoRefined == Service!ESpec

\* The first line that waits for the server is answered, unless the connection ends
\* first.  (Lines that one recv() returns together with it are dropped.)
EveryLineAnswered ==
    \A c \in Conns : \A n \in 1 .. MaxLines :
        (phase[c] = "up" /\ read[c] = n - 1 /\ sent[c] >= n)
            ~> (Answered(c) >= n \/ phase[c] # "up")

\* For TLC: connections are interchangeable if all of them may close early, or none.
Perms == Permutations(Conns)
=============================================================================
