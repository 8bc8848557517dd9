------------------------------ MODULE Server2 ------------------------------
(***************************************************************************)
(* chapter05/server2.c: one thread, select() and a table child[] of the    *)
(* descriptors in use.  The table has holes; child_no is its high-water    *)
(* mark and never falls.  A pass after select() accepts at most one        *)
(* connection, then reads every child whose bit the call left in the mask. *)
(* A select() that times out or fails changes nothing and is left out.     *)
(***************************************************************************)
EXTENDS OneThread

VARIABLES
    child,      \* child[i]: the descriptor in slot i, or Empty
    child_no,   \* slots in use, holes included
    mask,       \* the descriptors select() left in its mask
    i,          \* the slot the read loop has reached
    shown       \* the count of children the server prints before select()

tableVars == <<child, child_no, mask, i>>
vars == <<clientVars, fdConn, threadVars, tableVars, shown>>

Empty == -1
Slots == 0 .. (MAX_CHILD - 1)
Used == 0 .. (child_no - 1)
Children == {child[k] : k \in {s \in Used : child[s] # Empty}}

Init ==
    /\ OneThreadInit
    /\ child = [k \in Slots |-> Empty]
    /\ child_no = 0
    /\ mask = {}
    /\ i = 0
    /\ shown = 0

\* The count is taken where the loop finds a child to widen the mask for: a child
\* whose descriptor is above all before it.
Widens(k) == child[k] # Empty /\ \A j \in 0 .. (k - 1) : child[j] < child[k]

Select ==
    /\ pc = "wait"
    /\ ReadyOf(Children) # {}
    /\ mask' = ReadyOf(Children)
    /\ shown' = Cardinality({k \in Used : Widens(k)})
    /\ pc' = "accept"
    /\ UNCHANGED <<clientVars, fdConn, cur, reply, child, child_no, i>>

\* The read loop starts.
ToScan ==
    /\ pc' = "scan"
    /\ i' = 0
    /\ UNCHANGED <<cur, reply, mask, shown>>

AtListener == pc = "accept" /\ Soc \in mask

NothingToAccept ==
    /\ pc = "accept"
    /\ Soc \notin mask
    /\ ToScan
    /\ UNCHANGED <<clientVars, fdConn, child, child_no>>

AcceptFails ==
    /\ AtListener
    /\ ToScan
    /\ UNCHANGED <<clientVars, fdConn, child, child_no>>

Holes == {k \in Used : child[k] = Empty}

\* mutant: the holes are not looked at
AcceptFullByMark ==
    /\ AtListener
    /\ child_no + 1 >= MAX_CHILD
    /\ AcceptAndClose
    /\ ToScan
    /\ UNCHANGED <<child, child_no>>

AcceptFull ==
    /\ AtListener
    /\ Holes = {}
    /\ child_no + 1 >= MAX_CHILD
    /\ AcceptAndClose
    /\ ToScan
    /\ UNCHANGED <<child, child_no>>

\* mutant: a hole is filled from the top of the table
AcceptLastHole(f) ==
    /\ AtListener
    /\ \E k \in Holes :
           /\ \A j \in Holes : j <= k
           /\ child' = [child EXCEPT ![k] = f]
    /\ UNCHANGED child_no

\* The first hole of the table takes the new descriptor.
StoreInHole(f) ==
    /\ AtListener
    /\ \E k \in Holes :
           /\ \A j \in Holes : k <= j
           /\ child' = [child EXCEPT ![k] = f]
    /\ UNCHANGED child_no

\* Without a hole the table grows.
StoreAtEnd(f) ==
    /\ AtListener
    /\ Holes = {}
    /\ child_no + 1 < MAX_CHILD
    /\ child' = [child EXCEPT ![child_no] = f]
    /\ child_no' = child_no + 1

AcceptStore ==
    /\ \E f \in Fds : AcceptAs(f) /\ (StoreInHole(f) \/ StoreAtEnd(f))
    /\ ToScan

\* Slot k is the next one whose descriptor is set in the mask.
Marked(k) == child[k] # Empty /\ child[k] \in mask
IsNext(k) ==
    /\ pc = "scan"
    /\ k >= i
    /\ Marked(k)
    /\ \A j \in i .. (k - 1) : ~Marked(j)

Recv(k) ==
    /\ IsNext(k)
    /\ RecvLine(child[k])
    /\ i' = k
    /\ UNCHANGED <<child, child_no, mask, shown>>

Reply ==
    /\ ReplySent
    /\ i' = i + 1
    /\ UNCHANGED <<child, child_no, mask, shown>>

CloseChild(k) ==
    /\ CloseFd(child[k])
    /\ child' = [child EXCEPT ![k] = Empty]
    /\ i' = k + 1
    /\ UNCHANGED <<child_no, mask, shown>>

\* recv() returns 0 or -1.
HangUp(k) ==
    /\ IsNext(k)
    /\ AtEnd(fdConn[child[k]])
    /\ CloseChild(k)
    /\ UNCHANGED threadVars

SendFails == ReplyFails /\ CloseChild(i)

SendKills == ReplyKills /\ UNCHANGED <<tableVars, shown>>

\* The read loop is through.
PassEnds ==
    /\ pc = "scan"
    /\ \A k \in i .. (child_no - 1) : ~Marked(k)
    /\ pc' = "wait"
    /\ UNCHANGED <<clientVars, fdConn, cur, reply, child, child_no, mask, i, shown>>

Server ==
    \/ Select
    \/ NothingToAccept \/ AcceptFails \/ AcceptFull \/ AcceptStore
    \/ \E k \in Used : Recv(k) \/ HangUp(k)
    \/ Reply \/ SendFails \/ SendKills
    \/ PassEnds

ClientStep ==
    /\ \E c \in Conns : Client(c)
    /\ UNCHANGED <<fdConn, threadVars, tableVars, shown>>

Next == Server \/ ClientStep

Spec == Init /\ [][Next]_vars

\* The thread runs, its clients read their replies, and accept() does not fail for
\* ever while a connection waits.
FairSpec ==
    /\ Spec
    /\ WF_vars(Server)
    /\ SF_vars(AcceptFull \/ AcceptStore)
    /\ \A c \in Conns : WF_vars(ReadReply(c) /\ UNCHANGED <<fdConn, threadVars, tableVars, shown>>)

---------------------------------------------------------------------------
(* Properties                                                              *)

TypeOK ==
    /\ ThreadTypeOK
    /\ child \in [Slots -> Fds \cup {Empty}]
    /\ child_no \in Slots
    /\ mask \subseteq Fds \cup {Soc}
    /\ i \in 0 .. MAX_CHILD

\* The table and the kernel agree: every descriptor the server has open is in one
\* slot below child_no, and no slot holds a closed one.
TableIsOpen ==
    /\ Children = OpenFds
    /\ \A j, k \in Used : child[j] = child[k] /\ child[j] # Empty => j = k

\* What the read loop is still to recv() from is readable, although the mask is
\* older than the connection accepted in the same pass.
ScanNeverBlocks ==
    pc = "scan" => NeverBlocks({child[k] : k \in {s \in Used : s >= i /\ Marked(s)}})

\* Slots and descriptors are both handed out lowest first, so that descriptors
\* ascend along the table: the printed count, which counts a child only where it
\* widens the mask, is the number of children.
ShownIsChildren == pc = "accept" => shown = Cardinality(Children)

\* See OnlyFullTurnsAway.
TurnsAwayOnlyWhenFull == [][OnlyFullTurnsAway]_vars
=============================================================================
