--------------------------- MODULE MCMultiplexers ---------------------------
(***************************************************************************)
(* The servers that accept and receive in one thread, for TLC: server2.c   *)
(* ("select"), server3.c ("poll"), server4.c ("epoll"), server-libevent.c  *)
(* ("libevent") or server9.c ("queue", which replies from threads of their *)
(* own), chosen at the start among Servers, in front of the same clients.  *)
(* What does not belong to the chosen server keeps its initial value.      *)
(***************************************************************************)
EXTENDS OneThread, TLC

CONSTANTS
    Servers,        \* the servers the run is about
    CtlMayFail,     \* whether EPOLL_CTL_ADD and event_add() may fail
    Interrupted,    \* whether SIGINT may come
    MAXSENDER,      \* see Server9
    MAXQUEUESZ

ASSUME ServersAssumption == Servers \subseteq {"select", "poll", "epoll", "libevent", "queue"}
ASSUME ServerAssumption ==
    /\ MAXSENDER \in Nat \ {0}
    /\ MAXQUEUESZ \in Nat \ {0}
    /\ CtlMayFail \in BOOLEAN

VARIABLES
    which, child, child_no, mask, i, shown, targets, revents, events, count, registered,
    front, last, data, tpc, ti

S2 == INSTANCE Server2
S3 == INSTANCE Server3
S4 == INSTANCE Server4
SL == INSTANCE ServerLibevent WITH active <- events
S9 == INSTANCE Server9

own2 == <<mask, shown>>
own3 == <<targets, revents>>
own4 == <<events, count>>
own9 == <<front, last, data, tpc, ti>>
table == <<child, child_no, i>>
kept == <<which, registered, own9>>     \* what none of the first three servers uses
vars == <<clientVars, fdConn, threadVars, kept, table, own2, own3, own4>>

NoTable == child = <<>> /\ child_no = 0 /\ i = 0
NoMask == mask = {} /\ shown = 0
NoTargets == targets = <<>> /\ revents = {}
NoEvents == events = {} /\ count = 0
NoQueue == front = <<>> /\ last = <<>> /\ data = <<>> /\ tpc = <<>> /\ ti = <<>>

Init ==
    /\ which \in Servers
    /\ which = "select" => S2!Init /\ NoTargets /\ NoEvents
    /\ which = "poll" => S3!Init /\ NoMask /\ NoEvents
    /\ which = "epoll" => S4!Init /\ NoTable /\ NoMask /\ NoTargets
    /\ which = "libevent" => SL!Init /\ count = 0 /\ NoTable /\ NoMask /\ NoTargets
    /\ which = "queue" => S9!Init /\ reply = NoLine /\ NoTable /\ NoMask /\ NoTargets
    /\ which # "libevent" => registered = {}
    /\ which # "queue" => NoQueue

Select == which = "select" /\ S2!Server /\ UNCHANGED <<kept, own3, own4>>
Poll == which = "poll" /\ S3!Server /\ UNCHANGED <<kept, own2, own4>>
Epoll == which = "epoll" /\ S4!Server /\ UNCHANGED <<kept, table, own2, own3>>
Libevent ==
    /\ which = "libevent"
    /\ SL!Server
    /\ UNCHANGED <<which, own9, count, table, own2, own3>>
Server == Select \/ Poll \/ Epoll \/ Libevent

OfQueue == which = "queue" /\ UNCHANGED <<which, registered, reply, table, own2, own3>>
Receiver == OfQueue /\ S9!AcceptLoop
Sender(q) == OfQueue /\ S9!SendThread(q)
Wakeup(q) == OfQueue /\ S9!SpuriousWakeup(q)

ClientStep ==
    /\ \E c \in Conns : Client(c)
    /\ UNCHANGED <<fdConn, threadVars, kept, table, own2, own3, own4>>

Next ==
    \/ Server
    \/ Receiver
    \/ which = "queue" /\ \E q \in S9!Senders : Sender(q) \/ Wakeup(q)
    \/ ClientStep

Spec == Init /\ [][Next]_vars

Accepts ==
    \/ which = "select" /\ (S2!AcceptFull \/ S2!AcceptStore) /\ UNCHANGED <<kept, own3, own4>>
    \/ which = "poll" /\ (S3!AcceptFull \/ S3!AcceptStore) /\ UNCHANGED <<kept, own2, own4>>
    \/ /\ which = "epoll"
       /\ S4!AcceptFull \/ S4!AcceptAdd
       /\ UNCHANGED <<kept, table, own2, own3>>
    \/ /\ which = "libevent"
       /\ SL!AcceptEvent
       /\ UNCHANGED <<which, own9, count, table, own2, own3>>
    \/ OfQueue /\ (S9!AcceptFull \/ S9!AcceptAdd)

\* The fairness of each server's FairSpec.  (The code of the five is never enabled
\* together, so that one condition stands for all of them.)
FairSpec ==
    /\ Spec
    /\ WF_vars(Server \/ Receiver)
    /\ SF_vars(Accepts)
    /\ \A q \in 0 .. (MAXSENDER - 1) : WF_vars(Sender(q))
    /\ \A c \in Conns : WF_vars(ReadReply(c) /\ ClientStep)

\* Connections are interchangeable when all of them may close early.
Perms == Permutations(Conns)

---------------------------------------------------------------------------
(* Properties                                                              *)

\* Types of the chosen server's variables.
TypeOK ==
    /\ which = "select" => S2!TypeOK
    /\ which = "poll" => S3!TypeOK
    /\ which = "epoll" => S4!TypeOK
    /\ which = "libevent" => SL!TypeOK
    /\ which = "queue" => S9!TypeOK

\* What the program believes about its descriptors is what the kernel has open: the
\* slots of child[] below child_no in server2.c and server3.c, the count of
\* server4.c and server9.c, whose array of events is never outgrown either, the
\* events server-libevent.c has registered.  And server2.c, which counts its
\* children only where one widens the mask of select(), prints their number all the
\* same: slots and descriptors are both handed out lowest first.  (The types bound the
\* count, the slots and the descriptors.)
BooksAgree ==
    /\ TypeOK
    /\ which = "select" => S2!TableIsOpen /\ S2!ShownIsChildren
    /\ which = "poll" => S3!TableIsOpen
    /\ which = "epoll" => S4!CountIsOpen /\ S4!BatchFits
    /\ which = "libevent" => SL!EventsAreOpen
    /\ which = "queue" => S9!CountIsOpen

\* No recv() of a pass can block, although the mask, the copied targets or the batch
\* of events is older than the connections closed and accepted in the same pass.
NeverBlocksOnRecv ==
    /\ which = "select" => S2!ScanNeverBlocks
    /\ which = "poll" => S3!ScanNeverBlocks
    /\ which = "epoll" => S4!EventsAreLive
    /\ which = "libevent" => SL!EventsAreLive
    /\ which = "queue" => S9!EventsAreLive

\* A connection is turned away only by a server that holds all it has room for; a
\* slot freed in the middle of the table counts as room.  (The end of accept_loop() after
\* a failed EPOLL_CTL_ADD in server4.c and server9.c, and that of server-libevent.c after
\* SIGINT are the exceptions.)
TurnsAwayOnlyWhenFull == [][pc' \notin {"return", "join"} => OnlyFullTurnsAway]_vars
=============================================================================
