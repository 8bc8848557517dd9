------------------------------ MODULE Server5 ------------------------------
(***************************************************************************)
(* chapter05/server5.c: a process per connection.  The parent accepts,     *)
(* forks, closes its copy of the connection and calls waitpid(WNOHANG)     *)
(* once; the handler of SIGCHLD, which may interrupt it anywhere, calls a  *)
(* wait() that blocks.  A SIGCHLD raised while one is pending is lost, one *)
(* raised while the handler runs stays pending.  A child is named after    *)
(* its connection; whether it calls _exit() or is killed by SIGPIPE makes  *)
(* no difference to the parent.  An accept() that fails changes nothing    *)
(* and is left out.                                                        *)
(***************************************************************************)
EXTENDS Conversations

CONSTANT MayFail        \* whether fork() may fail

VARIABLES
    pc,         \* where the parent's accept_loop() is
    acc,        \* the connection it has accepted
    zombies,    \* children that ended and have not been waited for
    pending,    \* whether a SIGCHLD is pending for the parent
    handler,    \* whether the parent is in sig_chld_handler()
    peak,       \* history: the most children that were ever alive at once
    stolen      \* history: waitpid() has taken a child while a SIGCHLD was pending

parentVars == <<pc, acc, zombies, pending, handler>>
historyVars == <<peak, stolen>>
vars == <<clientVars, convVars, parentVars, historyVars>>

Init ==
    /\ ConvInit
    /\ pc = "accept"
    /\ acc = NoConn
    /\ zombies = {}
    /\ pending = FALSE
    /\ handler = FALSE
    /\ peak = 0
    /\ stolen = FALSE

Accept ==
    /\ pc = "accept"
    /\ AcceptFirst
    /\ acc' = Head(backlog)
    /\ pc' = "fork"
    /\ UNCHANGED <<convVars, zombies, pending, handler, historyVars>>

Fork ==
    /\ pc = "fork"
    /\ Begin(acc)
    /\ pc' = "close"
    /\ peak' = IF Cardinality(Live) = peak THEN peak + 1 ELSE peak
    /\ UNCHANGED <<clientVars, acc, zombies, pending, handler, stolen>>

ForkFails ==
    /\ MayFail
    /\ pc = "fork"
    /\ pc' = "close"
    /\ UNCHANGED <<clientVars, convVars, acc, zombies, pending, handler, historyVars>>

\* The parent's copy of the connection: the only one if fork() failed.
CloseAcc ==
    /\ pc = "close"
    /\ IF conv[acc] = "none" THEN HangUpOn(acc) ELSE UNCHANGED phase
    /\ acc' = NoConn
    /\ pc' = "waitpid"
    /\ UNCHANGED <<sent, read, out, got, reset, backlog, convVars, zombies, pending, handler, historyVars>>

\* mutant: the parent trusts the handler alone
NoWaitpid ==
    /\ pc = "waitpid"
    /\ pc' = "accept"
    /\ UNCHANGED <<clientVars, convVars, acc, zombies, pending, handler, historyVars>>

\* waitpid(-1, &status, WNOHANG) takes one child that has ended, if there is one.
Waitpid ==
    /\ pc = "waitpid"
    /\ \/ /\ zombies = {}
          /\ UNCHANGED <<zombies, stolen>>
       \/ /\ \E z \in zombies : zombies' = zombies \ {z}
          /\ stolen' = (stolen \/ pending)
    /\ pc' = "accept"
    /\ UNCHANGED <<clientVars, convVars, acc, pending, handler, peak>>

AcceptLoop == ~handler /\ (Accept \/ Fork \/ ForkFails \/ CloseAcc \/ Waitpid)

SigChld ==
    /\ pending
    /\ ~handler
    /\ pending' = FALSE
    /\ handler' = TRUE
    /\ UNCHANGED <<clientVars, convVars, pc, acc, zombies, historyVars>>

\* mutant: the handler waits for every child that has ended
HandlerReapsAll == zombies # {} /\ zombies' = {}

\* wait() takes one child that has ended.
HandlerReaps == \E z \in zombies : zombies' = zombies \ {z}

\* It blocks while there are children and none has ended; without any it fails.
HandlerReturns ==
    /\ handler
    /\ HandlerReaps \/ (Live \cup zombies = {} /\ UNCHANGED zombies)
    /\ handler' = FALSE
    /\ UNCHANGED <<clientVars, convVars, pc, acc, pending, historyVars>>

Parent == AcceptLoop \/ SigChld \/ HandlerReturns

\* A child ends.
Exit(c) ==
    /\ Leave(c)
    /\ zombies' = zombies \cup {c}
    /\ pending' = TRUE
    /\ UNCHANGED <<pc, acc, handler, historyVars>>

Child(c) ==
    \/ Talk(c) /\ UNCHANGED <<parentVars, historyVars>>
    \/ Exit(c)

ClientStep ==
    /\ \E c \in Conns : Client(c)
    /\ UNCHANGED <<convVars, parentVars, historyVars>>

Next == Parent \/ (\E c \in Conns : Child(c)) \/ ClientStep

Spec == Init /\ [][Next]_vars

---------------------------------------------------------------------------
(* Properties                                                              *)

TypeOK ==
    /\ ConvTypeOK
    /\ pc \in {"accept", "fork", "close", "waitpid"}
    /\ acc \in Conns \cup {NoConn}
    /\ zombies \subseteq {c \in Conns : conv[c] = "ended"}
    /\ pending \in BOOLEAN
    /\ handler \in BOOLEAN
    /\ peak \in Nat
    /\ stolen \in BOOLEAN

\* However many SIGCHLDs are lost, the children that have not been waited for do not
\* pile up: with those alive they are never more than were once alive together, and
\* the one just forked.
ProcessTableBounded ==
    Cardinality(Live \cup zombies) <= peak + (IF pc \in {"close", "waitpid"} THEN 1 ELSE 0)

\* The accept loop stands still in its handler's wait() only after its own waitpid()
\* has taken a child whose SIGCHLD was still to be handled.
HandlerStuck == handler /\ zombies = {} /\ Live # {}
StuckOnlyAfterRace == HandlerStuck => stolen
=============================================================================
