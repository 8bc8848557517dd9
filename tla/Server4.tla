------------------------------ MODULE Server4 ------------------------------
(***************************************************************************)
(* chapter05/server4.c: one thread and epoll.  There is no table: the      *)
(* kernel keeps the set of descriptors, and the program only counts them.  *)
(* The events of a batch are worked off one by one, accept() among them,   *)
(* in the order the kernel reports them, so a descriptor may be closed and *)
(* handed out again within a batch.                                        *)
(***************************************************************************)
EXTENDS OneThread

CONSTANT CtlMayFail     \* whether EPOLL_CTL_ADD may fail

VARIABLES
    events,     \* the events of the batch that have not been looked at
    count       \* the code's count of connections

vars == <<clientVars, fdConn, threadVars, events, count>>

Init ==
    /\ OneThreadInit
    /\ events = {}
    /\ count = 0

EpollWait ==
    /\ pc = "wait"
    /\ ReadyOf(OpenFds) # {}
    /\ events' = ReadyOf(OpenFds)
    /\ pc' = "scan"
    /\ UNCHANGED <<clientVars, fdConn, cur, reply, count>>

\* The loop over the batch takes the event of f.
NextEvent(f) ==
    /\ pc = "scan"
    /\ f \in events
    /\ events' = events \ {f}

Quiet == UNCHANGED threadVars

AcceptFails ==
    /\ NextEvent(Soc)
    /\ Quiet
    /\ UNCHANGED <<clientVars, fdConn, count>>

\* mutant: one connection more than there is room for
FullOffByOne == count >= MAX_CHILD
Full == count + 1 >= MAX_CHILD

AcceptFull ==
    /\ NextEvent(Soc)
    /\ Full
    /\ AcceptAndClose
    /\ Quiet
    /\ UNCHANGED count

AcceptAdd ==
    /\ NextEvent(Soc)
    /\ ~Full
    /\ \E f \in Fds : AcceptAs(f)
    /\ count' = count + 1
    /\ Quiet

\* EPOLL_CTL_ADD fails: accept_loop() returns, and the program ends.
AcceptAddFails ==
    /\ CtlMayFail
    /\ NextEvent(Soc)
    /\ ~Full
    /\ AcceptAndClose
    /\ pc' = "return"
    /\ UNCHANGED <<cur, reply, count>>

Recv(f) ==
    /\ f # Soc
    /\ NextEvent(f)
    /\ RecvLine(f)
    /\ UNCHANGED count

Reply == ReplySent /\ UNCHANGED <<events, count>>

\* send_recv() returned -1: EPOLL_CTL_DEL, close(), count--.
Drop(f) == CloseFd(f) /\ count' = count - 1

HangUp(f) ==
    /\ f # Soc
    /\ NextEvent(f)
    /\ AtEnd(fdConn[f])
    /\ Drop(f)
    /\ Quiet

SendFails == ReplyFails /\ Drop(cur) /\ UNCHANGED events

SendKills == ReplyKills /\ UNCHANGED <<events, count>>

BatchEnds ==
    /\ pc = "scan"
    /\ events = {}
    /\ pc' = "wait"
    /\ UNCHANGED <<clientVars, fdConn, cur, reply, events, count>>

Server ==
    \/ EpollWait
    \/ AcceptFails \/ AcceptFull \/ AcceptAdd \/ AcceptAddFails
    \/ \E f \in Fds : Recv(f) \/ HangUp(f)
    \/ Reply \/ SendFails \/ SendKills
    \/ BatchEnds

ClientStep ==
    /\ \E c \in Conns : Client(c)
    /\ UNCHANGED <<fdConn, threadVars, events, count>>

Next == Server \/ ClientStep

Spec == Init /\ [][Next]_vars

FairSpec ==
    /\ Spec
    /\ WF_vars(Server)
    /\ SF_vars(AcceptFull \/ AcceptAdd)
    /\ \A c \in Conns : WF_vars(ReadReply(c) /\ UNCHANGED <<fdConn, threadVars, events, count>>)

---------------------------------------------------------------------------
(* Properties                                                              *)

TypeOK ==
    /\ ThreadTypeOK
    /\ events \subseteq Fds \cup {Soc}
    /\ count \in 0 .. (MAX_CHILD - 1)

\* The count is the number of descriptors open on connections.
CountIsOpen == count = Cardinality(OpenFds)

\* An event left in the batch is about a descriptor that is open and readable,
\* though connections were closed and accepted since epoll_wait() returned.
EventsAreLive == NeverBlocks(events \ {Soc})

\* The array events[] has MAX_CHILD elements, and epoll_wait() is told it may write
\* one more: what is registered, the listening socket included, never reaches it.
BatchFits == 1 + Cardinality(OpenFds) <= MAX_CHILD

\* See OnlyFullTurnsAway.
TurnsAwayOnlyWhenFull == [][pc' # "return" => OnlyFullTurnsAway]_vars
=============================================================================
