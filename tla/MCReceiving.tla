---------------------------- MODULE MCReceiving ----------------------------
(***************************************************************************)
(* The programs about receiving and connecting, for TLC: those that read   *)
(* line by line ("oneline", "oneline1"), the receiver with a timeout       *)
(* ("timeout"), the connection with a timeout ("connect") and the large    *)
(* transfer ("big").  One of Programs is chosen at the start; what does    *)
(* not belong to it keeps its initial value.                               *)
(***************************************************************************)
EXTENDS Oneline, TimeoutBounds, BigTransfer, TLC

CONSTANT Programs       \* the programs the run is about

VARIABLES
    which,
    pcl, open, count, events, g_buf, g_pos, heard, eofs, reply,
    g_mode, tpc, rv, timedOut, elapsed, second, timer, signals, upper, lines, since, fin,
    timeout, cpc, answer, left, passed, intr, soc

O1 == INSTANCE Oneline1 WITH ended <- eofs
TM == INSTANCE Timeout WITH pc <- tpc
CN == INSTANCE ConnectTimeout

own1 == <<pcl, open, count, events, g_buf, g_pos, heard, eofs, reply>>
ownT == <<g_mode, tpc, rv, timedOut, elapsed, second, timer, signals, upper, lines, since, fin>>
ownC == <<timeout, cpc, answer, left, passed, intr, soc>>
allVars == <<which, vars, own1, ownT, ownC, bigVars>>

ReceivingInit ==
    /\ which \in Programs
    /\ Init /\ O1!Init1 /\ TM!Init /\ CN!ConnectInit /\ BigInit
    /\ which # "oneline" => mode = 1
    /\ which # "timeout" => g_mode = "n"
    /\ which # "connect" => timeout = 0
    /\ which # "big" => mayBlock.client /\ mayBlock.server

OnelineStep == which = "oneline" /\ Next /\ UNCHANGED <<which, own1, ownT, ownC, bigVars>>
Oneline1Step == which = "oneline1" /\ O1!Next1 /\ UNCHANGED <<which, vars, ownT, ownC, bigVars>>
TimeoutStep == which = "timeout" /\ TM!Next /\ UNCHANGED <<which, vars, own1, ownC, bigVars>>
ConnectStep == which = "connect" /\ CN!ConnectNext /\ UNCHANGED <<which, vars, own1, ownT, bigVars>>
BigStep == which = "big" /\ BigNext /\ UNCHANGED <<which, vars, own1, ownT, ownC>>

ReceivingNext == OnelineStep \/ Oneline1Step \/ TimeoutStep \/ ConnectStep \/ BigStep

ReceivingSpec == ReceivingInit /\ [][ReceivingNext]_allVars

\* Letters are interchangeable.
Perms == Permutations(Letters)

---------------------------------------------------------------------------
(* Properties, beside those of oneline.c                                   *)

\* oneline1.c: lines that do not end with the connection are replied to as they were
\* received, in spite of what is left in g_buf.  Over failures of recv() and send(),
\* and connections that end in the middle of a line, the count is the number of open
\* connections, no event is stale, and no place behind an array is written.
LinesEchoed ==
    /\ O1!TypeOK1 /\ O1!LinesEchoed /\ O1!BufferHoldsLine
    /\ O1!CountIsOpen1 /\ O1!RoomForNul1

\* oneline1.c: a line that ends with the connection is replied to as any other line is.
RestEchoed == O1!RestEchoed

\* timeout.c: a client is given up only when TIMEOUT_SEC have passed, and no line that
\* came before is left.  client-timeout.c: a socket is returned only if it is connected
\* and blocks, and any other is closed.
TimeoutIsTrue == TM!TypeOK /\ TM!TimeoutIsTrue /\ CN!ConnectIsTrue

\* timeout.c: every call ends in time, signals or not (nread without garbage given);
\* client-timeout.c: so does the wait for a connection.
CallIsBounded == TM!CallIsBounded /\ CN!ConnectIsBounded
=============================================================================
