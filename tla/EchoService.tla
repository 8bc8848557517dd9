---------------------------- MODULE EchoService ----------------------------
(***************************************************************************)
(* What every echo server of the repository promises its clients, with no  *)
(* descriptor, table, process, thread or queue in sight.  A connection is  *)
(* admitted or turned away; a line a client sends is answered by the same  *)
(* line followed by ":OK", to the client that sent it, at most once and in *)
(* the order of sending.  A server reads as many lines as one recv()       *)
(* returns and answers the first of them only (it cuts its buffer at the   *)
(* first CR or LF), so an answer may skip lines; a client with one line    *)
(* outstanding at a time has every line answered.                          *)
(*                                                                         *)
(* The module is the abstract specification: the modules of the servers    *)
(* are shown to implement it.                                              *)
(***************************************************************************)
EXTENDS Naturals, Sequences

CONSTANTS
    Conns,      \* the connections clients make
    MaxLines    \* bound: lines a client sends on one connection

VARIABLES
    status,     \* status[c]: "new", "up", "closed" by the client or "hungup" by the server
    asked,      \* asked[c]: the number of lines the client has sent
    answers     \* answers[c]: the replies sent to c, whether or not c has read them

evars == <<status, asked, answers>>

\* A reply: the line it echoes, and whether it ends in ":OK".
Echo(c, n) == [conn |-> c, n |-> n, ok |-> TRUE]

\* The number of the last line of c that was answered, 0 before the first.
LastAnswered(c) == IF answers[c] = <<>> THEN 0 ELSE answers[c][Len(answers[c])].n

EInit ==
    /\ status = [c \in Conns |-> "new"]
    /\ asked = [c \in Conns |-> 0]
    /\ answers = [c \in Conns |-> <<>>]

Open(c) ==
    /\ status[c] = "new"
    /\ status' = [status EXCEPT ![c] = "up"]
    /\ UNCHANGED <<asked, answers>>

Ask(c) ==
    /\ status[c] = "up"
    /\ asked[c] < MaxLines
    /\ asked' = [asked EXCEPT ![c] = @ + 1]
    /\ UNCHANGED <<status, answers>>

\* A reply goes to the sender of the line, and never to a line at or before one
\* already answered.
Answer(c) ==
    /\ status[c] = "up"
    /\ \E n \in (LastAnswered(c) + 1) .. asked[c] :
           answers' = [answers EXCEPT ![c] = Append(@, Echo(c, n))]
    /\ UNCHANGED <<status, asked>>

Leave(c) ==
    /\ status[c] = "up"
    /\ status' = [status EXCEPT ![c] = "closed"]
    /\ UNCHANGED <<asked, answers>>

\* The server hangs up on its own account only on a connection it has never served.
TurnAway(c) ==
    /\ status[c] = "up"
    /\ answers[c] = <<>>
    /\ status' = [status EXCEPT ![c] = "hungup"]
    /\ UNCHANGED <<asked, answers>>

ENext == \E c \in Conns : Open(c) \/ Ask(c) \/ Answer(c) \/ Leave(c) \/ TurnAway(c)

ESpec == EInit /\ [][ENext]_evars
=============================================================================
