----------------------------- MODULE WorkerPool -----------------------------
(***************************************************************************)
(* NUM_CHILD workers, processes in chapter05/server7.c and threads in      *)
(* server8.c, each with an accept loop, and the lock that lets one of them *)
(* at a time call accept().  A worker that could not be started is none of *)
(* Workers.                                                                *)
(***************************************************************************)
EXTENDS Conversations

CONSTANTS
    Workers,        \* the NUM_CHILD workers
    Nobody          \* stands for none of them

ASSUME WorkerAssumption == Nobody \notin Workers

VARIABLES
    at,         \* at[w]: where worker w is in its accept loop
    serves,     \* serves[w]: the connection it has accepted
    owner       \* the worker that has the lock

PoolInit ==
    /\ ConvInit
    /\ at = [w \in Workers |-> "lock"]
    /\ serves = [w \in Workers |-> NoConn]
    /\ owner = Nobody

PoolTypeOK ==
    /\ ConvTypeOK
    /\ serves \in [Workers -> Conns \cup {NoConn}]
    /\ owner \in Workers \cup {Nobody}
=============================================================================
