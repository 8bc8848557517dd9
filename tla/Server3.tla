------------------------------ MODULE Server3 ------------------------------
(***************************************************************************)
(* chapter05/server3.c: one thread and poll().  The table child[] is       *)
(* copied into targets[], without its holes, before each poll(); the read  *)
(* loop walks targets[], and looks the descriptor up in child[] again when *)
(* it has closed it.                                                       *)
(***************************************************************************)
EXTENDS OneThread, SequencesExt

VARIABLES
    child,      \* child[k]: the descriptor in slot k, or Empty
    child_no,   \* slots in use, holes included
    targets,    \* the descriptors given to poll(), the listening socket left out
    revents,    \* the descriptors poll() reported
    i           \* the position in targets the read loop has reached

tableVars == <<child, child_no, targets, revents, i>>
vars == <<clientVars, fdConn, threadVars, tableVars>>

Empty == -1
Slots == 0 .. (MAX_CHILD - 1)
Used == 0 .. (child_no - 1)
Holes == {k \in Used : child[k] = Empty}

Init ==
    /\ OneThreadInit
    /\ child = [k \in Slots |-> Empty]
    /\ child_no = 0
    /\ targets = <<>>
    /\ revents = {}
    /\ i = 1

\* The slots in use; the loop that copies them into targets counts as it goes, so that
\* each is copied to the position that is the number of those up to it.
InUse == Used \ Holes
Position(k) == Cardinality({j \in InUse : j <= k})

\* mutant: the last child is left out
CompactedShort ==
    [n \in 1 .. (Cardinality(InUse) - 1) |-> child[CHOOSE k \in InUse : Position(k) = n]]

\* child[], in the order of its slots and without its holes.
Compacted == [n \in 1 .. Cardinality(InUse) |-> child[CHOOSE k \in InUse : Position(k) = n]]

Poll ==
    /\ pc = "wait"
    /\ ReadyOf(ToSet(Compacted)) # {}
    /\ targets' = Compacted
    /\ revents' = ReadyOf(ToSet(Compacted))
    /\ pc' = "accept"
    /\ UNCHANGED <<clientVars, fdConn, cur, reply, child, child_no, i>>

ToScan ==
    /\ pc' = "scan"
    /\ i' = 1
    /\ UNCHANGED <<cur, reply, targets, revents>>

AtListener == pc = "accept" /\ Soc \in revents

NothingToAccept ==
    /\ pc = "accept"
    /\ Soc \notin revents
    /\ ToScan
    /\ UNCHANGED <<clientVars, fdConn, child, child_no>>

AcceptFails ==
    /\ AtListener
    /\ ToScan
    /\ UNCHANGED <<clientVars, fdConn, child, child_no>>

AcceptFull ==
    /\ AtListener
    /\ Holes = {}
    /\ child_no + 1 >= MAX_CHILD
    /\ AcceptAndClose
    /\ ToScan
    /\ UNCHANGED <<child, child_no>>

\* The first hole takes the descriptor; without one the table grows.
Store(f) ==
    \/ /\ \E k \in Holes :
              /\ \A j \in Holes : k <= j
              /\ child' = [child EXCEPT ![k] = f]
       /\ UNCHANGED child_no
    \/ /\ Holes = {}
       /\ child_no + 1 < MAX_CHILD
       /\ child' = [child EXCEPT ![child_no] = f]
       /\ child_no' = child_no + 1

AcceptStore ==
    /\ AtListener
    /\ \E f \in Fds : AcceptAs(f) /\ Store(f)
    /\ ToScan

\* Position k of targets is the next one poll() reported.
IsNext(k) ==
    /\ pc = "scan"
    /\ k \in i .. Len(targets)
    /\ targets[k] \in revents
    /\ \A j \in i .. (k - 1) : targets[j] \notin revents

Recv(k) ==
    /\ IsNext(k)
    /\ RecvLine(targets[k])
    /\ i' = k
    /\ UNCHANGED <<child, child_no, targets, revents>>

\* mutant: the position is not advanced
ReplyAgain == ReplySent /\ UNCHANGED tableVars

Reply ==
    /\ ReplySent
    /\ i' = i + 1
    /\ UNCHANGED <<child, child_no, targets, revents>>

\* mutant: the position in targets is taken for the slot in child
ClearSamePosition(k) ==
    child' = [child EXCEPT ![k - 1] = Empty]

\* The slot that holds the descriptor is emptied.
ClearChild(k) ==
    \E j \in Used :
        /\ child[j] = targets[k]
        /\ \A m \in 0 .. (j - 1) : child[m] # targets[k]
        /\ child' = [child EXCEPT ![j] = Empty]

Drop(k) ==
    /\ CloseFd(targets[k])
    /\ ClearChild(k)
    /\ i' = k + 1
    /\ UNCHANGED <<child_no, targets, revents>>

\* recv() returns 0 or -1.
HangUp(k) ==
    /\ IsNext(k)
    /\ AtEnd(fdConn[targets[k]])
    /\ Drop(k)
    /\ UNCHANGED threadVars

SendFails == ReplyFails /\ Drop(i)

SendKills == ReplyKills /\ UNCHANGED tableVars

PassEnds ==
    /\ pc = "scan"
    /\ \A k \in i .. Len(targets) : targets[k] \notin revents
    /\ pc' = "wait"
    /\ UNCHANGED <<clientVars, fdConn, cur, reply, tableVars>>

Server ==
    \/ Poll
    \/ NothingToAccept \/ AcceptFails \/ AcceptFull \/ AcceptStore
    \/ \E k \in 1 .. MAX_CHILD : Recv(k) \/ HangUp(k)
    \/ Reply \/ SendFails \/ SendKills
    \/ PassEnds

ClientStep ==
    /\ \E c \in Conns : Client(c)
    /\ UNCHANGED <<fdConn, threadVars, tableVars>>

Next == Server \/ ClientStep

Spec == Init /\ [][Next]_vars

FairSpec ==
    /\ Spec
    /\ WF_vars(Server)
    /\ SF_vars(AcceptFull \/ AcceptStore)
    /\ \A c \in Conns : WF_vars(ReadReply(c) /\ UNCHANGED <<fdConn, threadVars, tableVars>>)

---------------------------------------------------------------------------
(* Properties                                                              *)

TypeOK ==
    /\ ThreadTypeOK
    /\ child \in [Slots -> Fds \cup {Empty}]
    /\ child_no \in Slots
    /\ ToSet(targets) \subseteq Fds
    /\ revents \subseteq Fds \cup {Soc}
    /\ i \in 1 .. MAX_CHILD

\* The table and the kernel agree: every descriptor the server has open is in one
\* slot below child_no, and no slot holds a closed one.
TableIsOpen ==
    /\ {child[k] : k \in InUse} = OpenFds
    /\ \A j, k \in InUse : child[j] = child[k] => j = k

\* What the read loop is still to recv() from is open and readable: targets[] is
\* older than the connection accepted in the same pass, and than those closed in it.
ScanNeverBlocks ==
    pc = "scan" => NeverBlocks({targets[k] : k \in i .. Len(targets)} \cap revents)

\* See OnlyFullTurnsAway.
TurnsAwayOnlyWhenFull == [][OnlyFullTurnsAway]_vars
=============================================================================
