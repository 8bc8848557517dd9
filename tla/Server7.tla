------------------------------ MODULE Server7 ------------------------------
(***************************************************************************)
(* chapter05/server7.c: NUM_CHILD processes forked at the start, each with *)
(* an accept loop; lockf() on an inherited file lets one of them at a time *)
(* call accept().  Nobody replaces a process that SIGPIPE kills.  The      *)
(* kernel takes the lock back from a process that ends; no process here    *)
(* ends while it holds it.                                                 *)
(***************************************************************************)
EXTENDS WorkerPool

workerVars == <<at, serves, owner>>
vars == <<clientVars, convVars, workerVars>>

Init == PoolInit

Lock(w) ==
    /\ at[w] = "lock"
    /\ owner = Nobody
    /\ owner' = w
    /\ at' = [at EXCEPT ![w] = "accept"]
    /\ UNCHANGED <<clientVars, convVars, serves>>

\* mutant: the error path forgets to unlock
AcceptFailsLocked(w) ==
    /\ at[w] = "accept"
    /\ backlog # <<>>
    /\ at' = [at EXCEPT ![w] = "lock"]
    /\ UNCHANGED <<clientVars, convVars, serves, owner>>

\* accept() fails: the lock is released and asked for again.
AcceptFails(w) ==
    /\ at[w] = "accept"
    /\ backlog # <<>>
    /\ owner' = Nobody
    /\ at' = [at EXCEPT ![w] = "lock"]
    /\ UNCHANGED <<clientVars, convVars, serves>>

Accept(w) ==
    /\ at[w] = "accept"
    /\ AcceptFirst
    /\ serves' = [serves EXCEPT ![w] = Head(backlog)]
    /\ at' = [at EXCEPT ![w] = "unlock"]
    /\ UNCHANGED <<convVars, owner>>

\* mutant: the lock is kept for the whole conversation
KeepLock(w) ==
    /\ at[w] = "unlock"
    /\ Begin(serves[w])
    /\ at' = [at EXCEPT ![w] = "serve"]
    /\ UNCHANGED <<clientVars, serves, owner>>

\* The lock is released before the conversation starts.
Unlock(w) ==
    /\ at[w] = "unlock"
    /\ owner' = Nobody
    /\ Begin(serves[w])
    /\ at' = [at EXCEPT ![w] = "serve"]
    /\ UNCHANGED <<clientVars, serves>>

Serve(w) ==
    /\ at[w] = "serve"
    /\ Talk(serves[w])
    /\ UNCHANGED workerVars

Done(w) ==
    /\ at[w] = "serve"
    /\ Leave(serves[w])
    /\ serves' = [serves EXCEPT ![w] = NoConn]
    /\ at' = [at EXCEPT ![w] = "lock"]
    /\ UNCHANGED owner

Killed(w) ==
    /\ at[w] = "serve"
    /\ SigPipe(serves[w])
    /\ End(serves[w])
    /\ serves' = [serves EXCEPT ![w] = NoConn]
    /\ at' = [at EXCEPT ![w] = "dead"]
    /\ UNCHANGED owner

Worker(w) ==
    \/ Lock(w) \/ AcceptFails(w) \/ Accept(w) \/ Unlock(w)
    \/ Serve(w) \/ Done(w) \/ Killed(w)

ClientStep ==
    /\ \E c \in Conns : Client(c)
    /\ UNCHANGED <<convVars, workerVars>>

Next == (\E w \in Workers : Worker(w)) \/ ClientStep

Spec == Init /\ [][Next]_vars

---------------------------------------------------------------------------
(* Properties                                                              *)

TypeOK ==
    /\ PoolTypeOK
    /\ at \in [Workers -> {"lock", "accept", "unlock", "serve", "dead"}]
    /\ \A w \in Workers : serves[w] # NoConn <=> at[w] \in {"unlock", "serve"}

\* The lock is held by the process that is about to accept, or has just done so, and
\* by no other: never by one in a conversation, which may last for ever, or a dead
\* one.
LockIsForAccept == \A w \in Workers : owner = w <=> at[w] \in {"accept", "unlock"}

AllBusy == \A w \in Workers : at[w] \in {"serve", "dead"}
=============================================================================
