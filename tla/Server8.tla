------------------------------ MODULE Server8 ------------------------------
(***************************************************************************)
(* chapter05/server8.c: NUM_CHILD threads, each with an accept loop, and a *)
(* mutex that lets one of them at a time call accept().  g_lock_id tells   *)
(* main(), which reads it without the mutex, who has it.  A SIGPIPE in any *)
(* thread ends the process.                                                *)
(***************************************************************************)
EXTENDS WorkerPool

VARIABLE
    g_lock_id   \* the thread main() prints; Nobody stands for -1

workerVars == <<at, serves, owner, g_lock_id>>
vars == <<clientVars, convVars, workerVars>>

Init == PoolInit /\ g_lock_id = Nobody

Alive == \A w \in Workers : at[w] # "killed"
Goto(w, here, there) ==
    /\ Alive
    /\ at[w] = here
    /\ at' = [at EXCEPT ![w] = there]

Lock(w) ==
    /\ Goto(w, "lock", "mark")
    /\ owner = Nobody
    /\ owner' = w
    /\ UNCHANGED <<clientVars, convVars, serves, g_lock_id>>

Mark(w) ==
    /\ Goto(w, "mark", "accept")
    /\ g_lock_id' = w
    /\ UNCHANGED <<clientVars, convVars, serves, owner>>

\* accept() returns; what follows in both cases is the same up to the conversation.
Accept(w) ==
    /\ Goto(w, "accept", "unmark")
    /\ AcceptFirst
    /\ serves' = [serves EXCEPT ![w] = Head(backlog)]
    /\ UNCHANGED <<convVars, owner, g_lock_id>>

AcceptFails(w) ==
    /\ Goto(w, "accept", "unmark")
    /\ backlog # <<>>
    /\ UNCHANGED <<clientVars, convVars, serves, owner, g_lock_id>>

\* mutant: the mutex is released while the mark still stands
UnlockMarked(w) ==
    /\ Goto(w, "unmark", "unlock")
    /\ owner' = Nobody
    /\ UNCHANGED <<clientVars, convVars, serves, g_lock_id>>

Unmark(w) ==
    /\ Goto(w, "unmark", "unlock")
    /\ g_lock_id' = Nobody
    /\ UNCHANGED <<clientVars, convVars, serves, owner>>

\* mutant: the conversation is entered whether or not accept() failed
UnlockServes(w) ==
    /\ owner' = Nobody
    /\ Goto(w, "unlock", "serve")
    /\ Begin(serves[w])
    /\ UNCHANGED <<clientVars, serves, g_lock_id>>

\* After an accept() that failed, back to the top of the loop.
Unlock(w) ==
    /\ owner' = Nobody
    /\ \/ /\ serves[w] = NoConn
          /\ Goto(w, "unlock", "lock")
          /\ UNCHANGED convVars
       \/ /\ serves[w] # NoConn
          /\ Goto(w, "unlock", "serve")
          /\ Begin(serves[w])
    /\ UNCHANGED <<clientVars, serves, g_lock_id>>

Serve(w) ==
    /\ Goto(w, "serve", "serve")
    /\ Talk(serves[w])
    /\ UNCHANGED <<serves, owner, g_lock_id>>

Done(w) ==
    /\ Goto(w, "serve", "lock")
    /\ Leave(serves[w])
    /\ serves' = [serves EXCEPT ![w] = NoConn]
    /\ UNCHANGED <<owner, g_lock_id>>

Killed(w) ==
    /\ Goto(w, "serve", "killed")
    /\ SigPipe(serves[w])
    /\ UNCHANGED <<clientVars, convVars, serves, owner, g_lock_id>>

Worker(w) ==
    \/ Lock(w) \/ Mark(w) \/ Accept(w) \/ AcceptFails(w) \/ Unmark(w) \/ Unlock(w)
    \/ Serve(w) \/ Done(w) \/ Killed(w)

ClientStep ==
    /\ \E c \in Conns : Client(c)
    /\ UNCHANGED <<convVars, workerVars>>

Next == (\E w \in Workers : Worker(w)) \/ ClientStep

Spec == Init /\ [][Next]_vars

---------------------------------------------------------------------------
(* Properties                                                              *)

TypeOK ==
    /\ PoolTypeOK
    /\ at \in [Workers -> {"lock", "mark", "accept", "unmark", "unlock", "serve", "killed"}]
    /\ g_lock_id \in Workers \cup {Nobody}
    /\ \A w \in Workers : at[w] = "serve" => serves[w] # NoConn

\* Whenever main() looks, g_lock_id is -1 or the thread that has the mutex: never one
\* that has released it, nor -1 while that thread is in accept().
MarkIsOwner ==
    /\ g_lock_id \in {owner, Nobody}
    /\ \A w \in Workers : at[w] = "accept" => g_lock_id = w

\* The mutex is never held through a conversation, which may last for ever.
LockIsForAccept ==
    \A w \in Workers : owner = w <=> at[w] \in {"mark", "accept", "unmark", "unlock"}

AllBusy == \A w \in Workers : at[w] = "serve"
=============================================================================
