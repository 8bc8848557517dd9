---------------------------- MODULE ServerLibevent ----------------------------
(***************************************************************************)
(* chpater12/server-libevent.c: one thread and libevent.  The program has  *)
(* no table and no loop of its own: an event is registered for every       *)
(* descriptor, event_dispatch() makes those that are readable active and   *)
(* calls their handlers one after another.  There is no limit on the       *)
(* connections but the descriptors a process may have.                     *)
(***************************************************************************)
EXTENDS OneThread

CONSTANTS
    CtlMayFail,     \* whether malloc() and event_add() may fail
    Interrupted     \* whether SIGINT may come

VARIABLES
    active,         \* the active events whose handlers have not been called
    registered      \* the connections' descriptors an event is registered for

vars == <<clientVars, fdConn, threadVars, active, registered>>

Init ==
    /\ OneThreadInit
    /\ active = {}
    /\ registered = {}

\* event_dispatch() asks the kernel for what is registered.
Dispatch ==
    /\ pc = "wait"
    /\ ReadyOf(registered) # {}
    /\ active' = ReadyOf(registered)
    /\ pc' = "scan"
    /\ UNCHANGED <<clientVars, fdConn, cur, reply, registered>>

\* The handler of the active event of f is called.
Handle(f) ==
    /\ pc = "scan"
    /\ f \in active
    /\ active' = active \ {f}

\* accept() fails, for want of descriptors if for nothing else.  Interrupted by a
\* signal, the handler goes on with -1, for which an event is registered that never
\* becomes active.
AcceptFails ==
    /\ Handle(Soc)
    /\ UNCHANGED <<clientVars, fdConn, threadVars, registered>>

AcceptEvent ==
    /\ Handle(Soc)
    /\ \E f \in Fds : AcceptAs(f) /\ registered' = registered \cup {f}
    /\ UNCHANGED threadVars

\* event_add() fails: the connection stays open, and nobody will ever read from it.
AcceptLost ==
    /\ CtlMayFail
    /\ Handle(Soc)
    /\ \E f \in Fds : AcceptAs(f)
    /\ UNCHANGED <<threadVars, registered>>

\* malloc() fails, which is reported, and event_set() is given NULL all the same.
AcceptCrashes ==
    /\ CtlMayFail
    /\ Handle(Soc)
    /\ \E f \in Fds : AcceptAs(f)
    /\ pc' = "killed"
    /\ UNCHANGED <<cur, reply, registered>>

Recv(f) ==
    /\ f # Soc
    /\ Handle(f)
    /\ RecvLine(f)
    /\ UNCHANGED registered

Reply == ReplySent /\ UNCHANGED <<active, registered>>

\* mutant: the event outlives its descriptor
DropKeepsEvent(f) ==
    /\ CloseFd(f)
    /\ UNCHANGED registered

\* event_del(), free() and close().
Drop(f) ==
    /\ CloseFd(f)
    /\ registered' = registered \ {f}

HangUp(f) ==
    /\ f # Soc
    /\ Handle(f)
    /\ AtEnd(fdConn[f])
    /\ Drop(f)
    /\ UNCHANGED threadVars

SendFails == ReplyFails /\ Drop(cur) /\ UNCHANGED active

SendKills == ReplyKills /\ UNCHANGED <<active, registered>>

ActiveEnd ==
    /\ pc = "scan"
    /\ active = {}
    /\ pc' = "wait"
    /\ UNCHANGED <<clientVars, fdConn, cur, reply, active, registered>>

\* SIGINT is an event as well: its handler has event_dispatch() return, and main()
\* ends with every connection.
sig_int_handler ==
    /\ Interrupted
    /\ pc = "wait"
    /\ pc' = "return"
    /\ phase' = [c \in Conns |-> IF phase[c] = "up" THEN "hungup" ELSE phase[c]]
    /\ fdConn' = [f \in Fds |-> NoConn]
    /\ registered' = {}
    /\ UNCHANGED <<sent, read, out, got, reset, backlog, cur, reply, active>>

Server ==
    \/ Dispatch
    \/ AcceptFails \/ AcceptEvent \/ AcceptLost \/ AcceptCrashes
    \/ \E f \in Fds : Recv(f) \/ HangUp(f)
    \/ Reply \/ SendFails \/ SendKills
    \/ ActiveEnd
    \/ sig_int_handler

---------------------------------------------------------------------------
(* Properties                                                              *)

TypeOK ==
    /\ ThreadTypeOK
    /\ active \subseteq Fds \cup {Soc}
    /\ registered \subseteq Fds

\* An event is registered only for a descriptor that is open, and only memory that
\* ran out leaves a descriptor without one.
EventsAreOpen ==
    /\ registered \subseteq OpenFds
    /\ ~CtlMayFail => registered = OpenFds

\* An active event is about a descriptor that is open and readable.
EventsAreLive == NeverBlocks(active \ {Soc})
=============================================================================
