----------------------------- MODULE Sequential -----------------------------
(***************************************************************************)
(* The servers that hold one conversation at a time: chapter01/server.c    *)
(* ("server"), chapter03/server1.c ("server1"), re-exec.c ("re-exec", see  *)
(* ReExec), chapter11/ssl-server.c ("ssl", see SslServer) and              *)
(* chpater12/server-afindepend.c ("afindepend"), which listens on a socket *)
(* for every address family and asks select() which of them to accept on.  *)
(***************************************************************************)
EXTENDS Conversations, SequencesExt

CONSTANT MayFail    \* whether set-up calls, select() and accept() may fail

VARIABLES
    prog,       \* which of the programs it is
    pc,         \* where it is
    acc,        \* the connection it has accepted
    family,     \* family[c]: the address family c is made over
    listening,  \* the families of its listening sockets
    mask,       \* afindepend: the sockets set in the mask that have not been looked at
    selected    \* afindepend: whether the last select() returned without an error

seqVars == <<prog, pc, acc, family, listening, mask, selected>>

Families == IF prog = "afindepend" THEN {"v4", "v6"} ELSE {"v4"}

Init ==
    /\ ConvInit
    /\ pc = IF prog = "re-exec" THEN "start" ELSE "setup"
    /\ acc = NoConn
    /\ family \in [Conns -> Families]
    /\ listening = {}
    /\ mask = {}
    /\ selected = TRUE

\* The top of the accept loop.
Top == IF prog = "afindepend" THEN "select" ELSE "accept"

\* server_socket_afindepend() goes on with the other addresses when one of them
\* fails; the other programs have one address.  (Without a socket the program ends.)
SetUp ==
    /\ pc = "setup"
    /\ listening' \in IF MayFail THEN SUBSET Families ELSE {Families}
    /\ pc' = IF listening' = {} THEN "gone" ELSE Top
    /\ UNCHANGED <<clientVars, convVars, prog, acc, family, mask, selected>>

WaitsAt(s) == \E k \in DOMAIN backlog : family[backlog[k]] = s

\* mutant: the mask is looked at after a time-out as well, before it is made anew
SelectTimesOut ==
    /\ pc = "select"
    /\ mask' = listening
    /\ selected' = TRUE
    /\ pc' = "scan"
    /\ UNCHANGED <<clientVars, convVars, prog, acc, family, listening>>

\* select() is given all the sockets and leaves those with a connection.
Select ==
    /\ pc = "select"
    /\ mask' = {s \in listening : WaitsAt(s)}
    /\ mask' # {}
    /\ selected' = TRUE
    /\ pc' = "scan"
    /\ UNCHANGED <<clientVars, convVars, prog, acc, family, listening>>

\* select() fails.  The switch has no case for -1, so that default: is taken with the
\* mask as it was made: all the sockets.
SelectFails ==
    /\ MayFail
    /\ pc = "select"
    /\ mask' = listening
    /\ selected' = FALSE
    /\ pc' = "scan"
    /\ UNCHANGED <<clientVars, convVars, prog, acc, family, listening>>

\* The loop over soc[] looks at the sockets in their order.
Turn(s) ==
    \/ pc = "accept" /\ s \in listening
    \/ pc = "scan" /\ s \in mask /\ (s = "v6" => "v4" \notin mask)

ScanEnds ==
    /\ pc = "scan"
    /\ mask = {}
    /\ pc' = "select"
    /\ UNCHANGED <<clientVars, convVars, prog, acc, family, listening, mask, selected>>

\* accept() on the socket of s takes its first connection; it waits for one.
AcceptOn(s) ==
    /\ Turn(s)
    /\ \E k \in DOMAIN backlog :
           /\ family[backlog[k]] = s
           /\ \A j \in 1 .. (k - 1) : family[backlog[j]] # s
           /\ acc' = backlog[k]
           /\ backlog' = RemoveAt(backlog, k)
    /\ mask' = mask \ {s}

Back == IF prog = "afindepend" THEN "scan" ELSE "accept"

AcceptFails(s) ==
    /\ Turn(s)
    /\ WaitsAt(s)
    /\ MayFail
    /\ mask' = mask \ {s}
    /\ UNCHANGED <<clientVars, convVars, prog, pc, acc, family, listening, selected>>

Accept(s) ==
    /\ prog \in {"server1", "re-exec", "afindepend"}
    /\ AcceptOn(s)
    /\ pc' = "serve"
    /\ Begin(acc')
    /\ UNCHANGED <<phase, sent, read, out, got, reset, prog, family, listening, selected>>

\* chapter01/server.c: what looks like the call of send_recv_loop() declares it once
\* more, so that the connection is closed at once.
AcceptAndClose(s) ==
    /\ prog = "server"
    /\ \E c \in Conns : AcceptOn(s) /\ acc' = c /\ HangUpOn(c)
    /\ UNCHANGED <<sent, read, out, got, reset, convVars, prog, pc, family, listening, selected>>

Serve ==
    /\ pc = "serve"
    /\ Talk(acc)
    /\ UNCHANGED seqVars

Done ==
    /\ pc = "serve"
    /\ Leave(acc)
    /\ pc' = Back
    /\ acc' = NoConn
    /\ UNCHANGED <<prog, family, listening, mask, selected>>

\* SIGPIPE, which none of the programs catches.
Kills ==
    /\ pc = "serve"
    /\ SigPipe(acc)
    /\ End(acc)
    /\ pc' = "killed"
    /\ acc' = NoConn
    /\ UNCHANGED <<prog, family, listening, mask, selected>>

AcceptAny == \E s \in Families : Accept(s) \/ AcceptAndClose(s)

Server ==
    \/ SetUp
    \/ Select \/ SelectFails \/ ScanEnds
    \/ AcceptAny \/ \E s \in Families : AcceptFails(s)
    \/ Serve \/ Done \/ Kills

\* A client is refused where nobody listens.
MayConnect(c) == family[c] \in listening

---------------------------------------------------------------------------
(* Properties                                                              *)

TypeOK ==
    /\ ConvTypeOK
    /\ pc \in {"start", "setup", "select", "scan", "accept", "serve", "shake", "shutdown",
               "deaf", "gone", "killed"}
    /\ acc \in Conns \cup {NoConn}
    /\ listening \subseteq Families
    /\ mask \subseteq listening

\* The accept() of afindepend waits for nothing as long as select() has not failed, a
\* conversation of any length between the two calls notwithstanding.
AcceptIsReady == (pc = "scan" /\ selected) => \A s \in mask : WaitsAt(s)

\* One conversation at a time: with the connection in acc, and no other.
OneConversation == Live \subseteq {acc}

\* The accept() of afindepend waits on a socket that has no connection.
AcceptBlocks == pc = "scan" /\ \E s \in mask : Turn(s) /\ ~WaitsAt(s)

\* Why a connection may stay in a queue: the client in conversation keeps it open, or
\* the program is over, or accept() waits on another socket after a failed select().
Busy ==
    \/ acc # NoConn /\ phase[acc] = "up"
    \/ pc \in {"gone", "killed"}
    \/ ~selected /\ AcceptBlocks
=============================================================================
