---------------------------- MODULE EchoClients ----------------------------
(***************************************************************************)
(* The environment of the echo servers: the clients of                     *)
(* chapter05/testclient.c and the sockets of the kernel between them and a *)
(* server.  A test client connects, sends a line, waits for the echo,      *)
(* compares it, and sends the next (Window = 1).  Other clients may have   *)
(* more than one line outstanding (Window > 1) or close while a reply is   *)
(* still owed to them (EarlyClosers).                                      *)
(*                                                                         *)
(* A line is the unit of data: it arrives whole, and lines that have       *)
(* arrived together may be returned by one recv().  Its text is abstracted *)
(* to the connection that sent it, its number and whether ":OK" has been   *)
(* appended.                                                               *)
(***************************************************************************)
EXTENDS Integers, Sequences

CONSTANTS
    Conns,          \* the connections clients make, each used once
    NoConn,         \* stands for "no connection"
    MaxLines,       \* bound: lines a client sends on one connection
    Window,         \* lines a client sends without having seen a reply
    EarlyClosers    \* the connections whose client may close at any moment

ASSUME ClientAssumption ==
    /\ NoConn \notin Conns
    /\ MaxLines \in Nat
    /\ Window \in Nat \ {0}
    /\ EarlyClosers \subseteq Conns

VARIABLES
    phase,      \* phase[c]: "new", "up", "closed" (by the client), "hungup" (by the server)
    sent,       \* sent[c]: lines the client has written to its socket
    read,       \* read[c]: lines the server's recv() has returned so far
    out,        \* out[c]: replies the server has sent that the client has not read
    got,        \* got[c]: replies the client has read
    reset,      \* the connections whose client answered a reply by a reset
    backlog     \* connections in the listening socket's queue

clientVars == <<phase, sent, read, out, got, reset, backlog>>

Phases == {"new", "up", "closed", "hungup"}
NoLine == [conn |-> NoConn, n |-> 0, ok |-> FALSE]
Replies == [conn : Conns \cup {NoConn}, n : 0 .. MaxLines, ok : BOOLEAN]

ClientInit ==
    /\ phase = [c \in Conns |-> "new"]
    /\ sent = [c \in Conns |-> 0]
    /\ read = [c \in Conns |-> 0]
    /\ out = [c \in Conns |-> <<>>]
    /\ got = [c \in Conns |-> <<>>]
    /\ reset = {}
    /\ backlog = <<>>

\* The number on the last reply the client has read.
Answered(c) == IF got[c] = <<>> THEN 0 ELSE got[c][Len(got[c])].n

\* Every reply sent to c so far, read or not.
Sent(c) == got[c] \o out[c]

\* The number on the last reply sent to c.
LastReply(c) == IF Sent(c) = <<>> THEN 0 ELSE Sent(c)[Len(Sent(c))].n

Connect(c) ==
    /\ phase[c] = "new"
    /\ phase' = [phase EXCEPT ![c] = "up"]
    /\ backlog' = Append(backlog, c)
    /\ UNCHANGED <<sent, read, out, got, reset>>

SendLine(c) ==
    /\ phase[c] = "up"
    /\ sent[c] < MaxLines
    /\ sent[c] - Answered(c) < Window
    /\ sent' = [sent EXCEPT ![c] = @ + 1]
    /\ UNCHANGED <<phase, read, out, got, reset, backlog>>

ReadReply(c) ==
    /\ phase[c] = "up"
    /\ out[c] # <<>>
    /\ got' = [got EXCEPT ![c] = Append(@, Head(out[c]))]
    /\ out' = [out EXCEPT ![c] = Tail(@)]
    /\ UNCHANGED <<phase, sent, read, reset, backlog>>

\* Closing a socket that holds unread replies resets the connection.
CloseConn(c) ==
    /\ phase[c] = "up"
    /\ c \in EarlyClosers \/ sent[c] = Answered(c)
    /\ phase' = [phase EXCEPT ![c] = "closed"]
    /\ reset' = IF out[c] # <<>> THEN reset \cup {c} ELSE reset
    /\ UNCHANGED <<sent, read, out, got, backlog>>

Client(c) == Connect(c) \/ SendLine(c) \/ ReadReply(c) \/ CloseConn(c)

---------------------------------------------------------------------------
(* What the server's system calls find and do on the socket of c.          *)

HasLines(c) == read[c] < sent[c]

\* recv() returns 0 once everything the client sent is read; after a reset it
\* returns -1, and what was still on its way is lost.
AtEnd(c) == phase[c] = "closed" /\ (~HasLines(c) \/ c \in reset)

Readable(c) == HasLines(c) \/ phase[c] = "closed"

\* recv() returns the first k lines that wait, of those that have arrived.
TakeLines(c, k) ==
    /\ k \in 1 .. (sent[c] - read[c])
    /\ read' = [read EXCEPT ![c] = @ + k]

\* send() on a connection that was reset and whose client has closed raises
\* SIGPIPE, which ends a program that does not catch it.
Broken(c) == phase[c] = "closed" /\ c \in reset

\* send() otherwise: the client gets the reply, or the client's kernel answers it
\* by a reset, which may or may not arrive before the next send().
Deliver(c, line) ==
    /\ ~Broken(c)
    /\ IF phase[c] = "up"
       THEN out' = [out EXCEPT ![c] = Append(@, line)] /\ UNCHANGED reset
       ELSE reset' \in {reset, reset \cup {c}} /\ UNCHANGED out

\* close() by the server: the client sees the end of the stream.
HangUpOn(c) == phase' = [phase EXCEPT ![c] = IF @ = "up" THEN "hungup" ELSE @]
=============================================================================
