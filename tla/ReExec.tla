------------------------------- MODULE ReExec -------------------------------
(***************************************************************************)
(* chapter03/re-exec.c: a sequential server that on SIGHUP closes all its  *)
(* descriptors and executes its own program again, in the handler.  The    *)
(* new program inherits the signal mask, but no handler: until it has      *)
(* called sigaction() a SIGHUP ends it.  SIGHUP comes at any moment, in    *)
(* the middle of a conversation as well.                                   *)
(***************************************************************************)
EXTENDS Sequential

CONSTANT MaxHups    \* bound: the SIGHUPs sent

VARIABLES
    hups,       \* the SIGHUPs sent so far
    hup,        \* SIGHUP is pending
    blocked     \* SIGHUP is blocked in the process's mask

hupVars == <<hups, hup, blocked>>

HupInit == hups = 0 /\ hup = FALSE /\ blocked = FALSE

Ended == pc \in {"gone", "killed"}

SendHup ==
    /\ ~Ended
    /\ hups < MaxHups
    /\ hups' = hups + 1
    /\ hup' = TRUE
    /\ UNCHANGED <<clientVars, convVars, seqVars, blocked>>

\* The handler is installed; its mask is what sigaction() reported before.
Sigaction ==
    /\ pc = "start"
    /\ pc' = "setup"
    /\ UNCHANGED <<clientVars, convVars, prog, acc, family, listening, mask, selected, hupVars>>

\* All descriptors are closed, the listening socket and its queue among them.
CloseAll ==
    /\ phase' = [c \in Conns |->
           IF phase[c] = "up" /\ (Waiting(c) \/ c = acc) THEN "hungup" ELSE phase[c]]
    /\ backlog' = <<>>
    /\ conv' = [c \in Conns |-> IF c \in Live THEN "ended" ELSE conv[c]]
    /\ line' = [c \in Conns |-> NoLine]
    /\ acc' = NoConn
    /\ listening' = {}
    /\ UNCHANGED <<sent, read, out, got, reset, prog, family, mask, selected>>

\* The mask while the handler runs, which execve() hands on: SA_NODEFER keeps SIGHUP
\* out of it.
Deferred == TRUE            \* mutant: without SA_NODEFER
HandlerMask == FALSE

Deliverable == hup /\ ~blocked /\ ~Ended

\* sig_hangup_handler(): the program starts again.
sig_hangup_handler ==
    /\ Deliverable
    /\ pc # "start"
    /\ CloseAll
    /\ pc' = "start"
    /\ hup' = FALSE
    /\ blocked' = HandlerMask
    /\ UNCHANGED hups

\* execve() fails and the handler returns, to a program whose accept() fails for ever.
ExecFails ==
    /\ MayFail
    /\ Deliverable
    /\ pc # "start"
    /\ CloseAll
    /\ pc' = "deaf"
    /\ hup' = FALSE
    /\ UNCHANGED <<hups, blocked>>

\* Before sigaction() SIGHUP does what it does by default.
HupKills ==
    /\ Deliverable
    /\ pc = "start"
    /\ CloseAll
    /\ pc' = "killed"
    /\ hup' = FALSE
    /\ UNCHANGED <<hups, blocked>>

Hangup == sig_hangup_handler \/ ExecFails \/ HupKills

\* Every SIGHUP is taken, the second as well as the first, and leads to a server that
\* listens again, unless set-up, execve() or a signal at the wrong moment end it.
RestartCompletes ==
    hup ~> ((~hup /\ pc \in {"accept", "serve"}) \/ pc = "deaf" \/ Ended)
=============================================================================
