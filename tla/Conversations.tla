---------------------------- MODULE Conversations ----------------------------
(***************************************************************************)
(* send_recv_loop() of the servers that give each connection a process or  *)
(* a thread of its own (chapter05/server5.c to server8.c): recv(), build   *)
(* the reply, send(), until the connection ends.  Each conversation is     *)
(* with one connection, which nobody else uses, and is named after it.     *)
(*                                                                         *)
(* A conversation ends only on a connection its client has closed, so the  *)
(* close() that follows changes nothing a client could see.                *)
(***************************************************************************)
EXTENDS EchoClients, FiniteSets

VARIABLES
    conv,       \* conv[c]: where the loop for c is
    line        \* line[c]: its buffer

convVars == <<conv, line>>

ConvInit ==
    /\ ClientInit
    /\ conv = [c \in Conns |-> "none"]
    /\ line = [c \in Conns |-> NoLine]

\* The loop is entered with the connection c.
Begin(c) == conv' = [conv EXCEPT ![c] = "recv"] /\ UNCHANGED line

\* mutant: ":OK" is not appended
ReceiveBare(c) ==
    /\ conv[c] = "recv"
    /\ \E k \in 1 .. MaxLines : TakeLines(c, k)
    /\ line' = [line EXCEPT ![c] = [conn |-> c, n |-> read[c] + 1, ok |-> FALSE]]
    /\ conv' = [conv EXCEPT ![c] = "send"]
    /\ UNCHANGED <<phase, sent, out, got, reset, backlog>>

\* recv() returns one or more lines; the first is cut out and ":OK" appended.
Receive(c) ==
    /\ conv[c] = "recv"
    /\ \E k \in 1 .. MaxLines : TakeLines(c, k)
    /\ line' = [line EXCEPT ![c] = [conn |-> c, n |-> read[c] + 1, ok |-> TRUE]]
    /\ conv' = [conv EXCEPT ![c] = "send"]
    /\ UNCHANGED <<phase, sent, out, got, reset, backlog>>

\* mutant: the loop is left after one reply
RespondOnce(c) ==
    /\ conv[c] = "send"
    /\ Deliver(c, line[c])
    /\ line' = [line EXCEPT ![c] = NoLine]
    /\ conv' = [conv EXCEPT ![c] = "ended"]
    /\ UNCHANGED <<phase, sent, read, got, backlog>>

Respond(c) ==
    /\ conv[c] = "send"
    /\ Deliver(c, line[c])
    /\ line' = [line EXCEPT ![c] = NoLine]
    /\ conv' = [conv EXCEPT ![c] = "recv"]
    /\ UNCHANGED <<phase, sent, read, got, backlog>>

Talk(c) == Receive(c) \/ Respond(c)

\* recv() returns 0 or -1, or send() -1: the loop is left.
Over(c) ==
    \/ conv[c] = "recv" /\ AtEnd(c)
    \/ conv[c] = "send" /\ Broken(c)

End(c) ==
    /\ conv' = [conv EXCEPT ![c] = "ended"]
    /\ line' = [line EXCEPT ![c] = NoLine]
    /\ UNCHANGED clientVars
Leave(c) == Over(c) /\ End(c)

\* send() may raise SIGPIPE instead of returning -1.
SigPipe(c) == conv[c] = "send" /\ Broken(c)

Live == {c \in Conns : conv[c] \in {"recv", "send"}}

\* accept() takes the first connection of the queue.
AcceptFirst ==
    /\ backlog # <<>>
    /\ backlog' = Tail(backlog)
    /\ UNCHANGED <<phase, sent, read, out, got, reset>>

Waiting(c) == \E k \in DOMAIN backlog : backlog[k] = c

ConvTypeOK ==
    /\ conv \in [Conns -> {"none", "recv", "send", "ended", "lost"}]
    /\ line \in [Conns -> Replies]
    /\ \A c \in Conns : read[c] <= sent[c]

\* The servers implement the echo service: replies go to whoever sent the line, once
\* and in order.
Service == INSTANCE EchoService WITH
    status <- phase, asked <- sent, answers <- [c \in Conns |-> Sent(c)]
EchoRefined == Service!ESpec
=============================================================================
