---------------------------- MODULE BigTransfer ----------------------------
(***************************************************************************)
(* chapter06/bigclient.c and bigserver.c: one send() of more than the      *)
(* kernel holds, and a server that receives it in pieces and counts.  Both *)
(* ends block or do not block, as told when started.  A blocking send()    *)
(* returns when all is in the kernel, one that does not block with what    *)
(* there was room for; nobody sends the rest.                              *)
(***************************************************************************)
EXTENDS Integers

CONSTANTS
    BigSize,    \* the size of bigclient's buffer
    Room        \* what the kernel holds between the two

ASSUME BigAssumption == BigSize \in Nat \ {0} /\ Room \in Nat \ {0}

VARIABLES
    mayBlock,   \* [client, server |-> whether its end blocks]
    copied,     \* bytes the kernel has taken from the client
    sendRv,     \* what send() has returned: a length, -1, or -2 before it has
    closed,     \* the client has closed
    broken,     \* the connection has been reset
    rpc,        \* where bigserver is: "accept", "recv" or "done" (with a connection)
    total       \* recv_loop()'s sum

bigVars == <<mayBlock, copied, sendRv, closed, broken, rpc, total>>

BigInit ==
    /\ mayBlock \in [client : BOOLEAN, server : BOOLEAN]
    /\ copied = 0 /\ sendRv = -2 /\ closed = FALSE /\ broken = FALSE
    /\ rpc = "accept" /\ total = 0

Free == Room - (copied - total)     \* room in the kernel
Least(a, b) == IF a < b THEN a ELSE b

\* The kernel takes part of what a blocking send() has left.
SendPart ==
    /\ sendRv = -2 /\ ~broken /\ mayBlock.client
    /\ \E n \in 1 .. Least(Free, BigSize - copied) : copied' = copied + n
    /\ sendRv' = IF copied' = BigSize THEN BigSize ELSE -2
    /\ UNCHANGED <<mayBlock, closed, broken, rpc, total>>

\* A send() that does not block takes what there is room for.  (There is room in a new
\* connection: no EAGAIN.)
SendSome ==
    /\ sendRv = -2 /\ ~broken /\ ~mayBlock.client
    /\ \E n \in 1 .. Least(Free, BigSize) : copied' = n /\ sendRv' = n
    /\ UNCHANGED <<mayBlock, closed, broken, rpc, total>>

\* The server's end is gone before send() has returned, which says so only if nothing
\* was taken.
SendFails ==
    /\ sendRv = -2 /\ broken
    /\ sendRv' = IF copied = 0 THEN -1 ELSE copied
    /\ UNCHANGED <<mayBlock, copied, closed, broken, rpc, total>>

Close ==
    /\ sendRv # -2 /\ ~closed
    /\ closed' = TRUE
    /\ UNCHANGED <<mayBlock, copied, sendRv, broken, rpc, total>>

BigAccept ==
    /\ rpc = "accept"
    /\ rpc' = "recv"
    /\ UNCHANGED <<mayBlock, copied, sendRv, closed, broken, total>>

RecvPart ==
    /\ rpc = "recv" /\ ~broken
    /\ \E n \in 1 .. (copied - total) : total' = total + n
    /\ UNCHANGED <<mayBlock, copied, sendRv, closed, broken, rpc>>

\* mutant: EAGAIN is taken for the end
EagainEnds ==
    /\ rpc = "recv" /\ ~mayBlock.server
    /\ copied = total /\ ~closed
    /\ rpc' = "done"
    /\ UNCHANGED <<mayBlock, copied, sendRv, closed, broken, total>>

\* recv() does not block and finds nothing: it is called again at once.
Eagain ==
    /\ rpc = "recv" /\ ~mayBlock.server
    /\ copied = total /\ ~closed
    /\ UNCHANGED bigVars

\* recv() returns 0.
RecvEnds ==
    /\ rpc = "recv" /\ ~broken
    /\ closed /\ copied = total
    /\ rpc' = "done"
    /\ UNCHANGED <<mayBlock, copied, sendRv, closed, broken, total>>

\* recv() fails, and the server closes: what was on its way is lost.
BigRecvFails ==
    /\ rpc = "recv"
    /\ broken' = TRUE
    /\ rpc' = "done"
    /\ UNCHANGED <<mayBlock, copied, sendRv, closed, total>>

BigNext ==
    \/ SendPart \/ SendSome \/ SendFails \/ Close
    \/ BigAccept \/ RecvPart \/ Eagain \/ RecvEnds \/ BigRecvFails

---------------------------------------------------------------------------
(* Properties                                                              *)

\* Nothing is received that was not sent, and unless an error was reported the total
\* bigserver prints is the length bigclient prints: all of it if the client blocks.
TransferIsWhole ==
    /\ total <= copied /\ copied <= total + Room
    /\ rpc = "done" /\ ~broken =>
           /\ total = sendRv
           /\ mayBlock.client => total = BigSize
=============================================================================
