------------------------------ MODULE Server6 ------------------------------
(***************************************************************************)
(* chapter05/server6.c: a detached thread per connection.  When            *)
(* pthread_create() fails nobody closes the connection: it is lost, open   *)
(* and never read.  A SIGPIPE in any thread ends the process.  An accept() *)
(* that fails changes nothing and is left out.                             *)
(***************************************************************************)
EXTENDS Conversations

CONSTANT MayFail        \* whether pthread_create() may fail

VARIABLES
    pc,         \* where accept_loop() is
    acc         \* the connection it has accepted

mainVars == <<pc, acc>>
vars == <<clientVars, convVars, mainVars>>

Init == ConvInit /\ pc = "accept" /\ acc = NoConn

Accept ==
    /\ pc = "accept"
    /\ AcceptFirst
    /\ acc' = Head(backlog)
    /\ pc' = "create"
    /\ UNCHANGED convVars

Create ==
    /\ pc = "create"
    /\ Begin(acc)
    /\ acc' = NoConn
    /\ pc' = "accept"
    /\ UNCHANGED clientVars

CreateFails ==
    /\ MayFail
    /\ pc = "create"
    /\ conv' = [conv EXCEPT ![acc] = "lost"]
    /\ acc' = NoConn
    /\ pc' = "accept"
    /\ UNCHANGED <<clientVars, line>>

\* (A killed process does nothing more: pc has neither value.)
AcceptLoop == Accept \/ Create \/ CreateFails

Killed(c) ==
    /\ SigPipe(c)
    /\ pc' = "killed"
    /\ UNCHANGED <<clientVars, convVars, acc>>

Thread(c) ==
    /\ pc # "killed"
    /\ \/ (Talk(c) \/ Leave(c)) /\ UNCHANGED mainVars
       \/ Killed(c)

ClientStep ==
    /\ \E c \in Conns : Client(c)
    /\ UNCHANGED <<convVars, mainVars>>

Next == AcceptLoop \/ (\E c \in Conns : Thread(c)) \/ ClientStep

Spec == Init /\ [][Next]_vars

TypeOK ==
    /\ ConvTypeOK
    /\ pc \in {"accept", "create", "killed"}
    /\ acc \in Conns \cup {NoConn}
=============================================================================
