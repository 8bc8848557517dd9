------------------------------ MODULE MCClients ------------------------------
(***************************************************************************)
(* The clients of one connection for TLC: a telnet client of chapter05,    *)
(* telnet1.c, telnet2.c or telnet3.c (Telnet) or telnet4.c or telnet5.c    *)
(* (TelnetPair), or one that sends lines (LineClient), chosen at the       *)
(* start.  What does not belong to the chosen client keeps its initial     *)
(* value.                                                                  *)
(***************************************************************************)
EXTENDS TelnetStream

CONSTANTS
    Me,             \* the client that sends lines
    MaxLines        \* bound: lines typed for it

ASSUME ClientsAssumption == MaxLines \in Nat

VARIABLES
    kind,           \* "telnet" or "lines"
    pc, ready, errno, main, sender, known, lone, g_end,
    typed, partial, closed, buffered, taken, at, found,
    over, sent, answered, part, displayed, hungup, reset, bye

T == INSTANCE Telnet
P == INSTANCE TelnetPair
L == INSTANCE LineClient
         WITH Clients <- {Me}, MaxTyped <- [u \in {Me} |-> MaxLines],
              pc <- at, ready <- found, shown <- displayed, broken <- reset

telnetVars == <<streamVars, pc, ready, errno, main, sender, known, lone, g_end>>
lineVars == <<typed, partial, closed, buffered, taken, at, found,
              over, sent, answered, part, displayed, hungup, reset, bye>>
vars == <<kind, telnetVars, lineVars>>

Alone == kind = "telnet" /\ prog \in 1 .. 3
Paired == kind = "telnet" /\ prog \notin 1 .. 3
Lines == kind = "lines"

single == <<pc, ready, errno>>
pair == <<main, sender, known, lone>>

Init ==
    /\ kind \in {"telnet", "lines"}
    /\ \/ T!Init /\ prog \in 1 .. 3 /\ main = "start" /\ sender = "none"
          /\ known = FALSE /\ lone = FALSE
       \/ P!Init /\ prog \notin 1 .. 3 /\ pc = "wait" /\ ready = {} /\ errno = "other"
    /\ Lines => prog = 1
    /\ L!Init
    /\ ~Lines => over = "tcp"

Loop == Alone /\ T!Loop /\ UNCHANGED <<kind, pair, lineVars>>
Main == Paired /\ P!Main /\ UNCHANGED <<kind, single, lineVars>>
Sender == Paired /\ P!Sender /\ UNCHANGED <<kind, single, lineVars>>
SigTerm ==
    \/ Alone /\ T!SigTerm /\ UNCHANGED <<kind, pair, lineVars>>
    \/ Paired /\ P!SigTerm /\ UNCHANGED <<kind, single, lineVars>>
LineLoop == Lines /\ L!Loop /\ UNCHANGED <<kind, telnetVars>>

Over ==
    CASE Alone -> T!Over
      [] Paired -> P!Over
      [] Lines -> L!Over

Outside ==
    /\ ~Over
    /\ \/ ~Lines /\ World /\ UNCHANGED <<single, pair, g_end, lineVars>>
       \/ Lines /\ L!World /\ UNCHANGED telnetVars
    /\ UNCHANGED kind

Next == Loop \/ Main \/ Sender \/ SigTerm \/ LineLoop \/ Outside

\* The processes and threads run (of Loop, Main and LineLoop only one is the chosen
\* client's).  The server need not send or close, the user need not type.
Spec ==
    /\ Init /\ [][Next]_vars
    /\ WF_vars(Loop \/ Main \/ LineLoop) /\ WF_vars(Sender)

---------------------------------------------------------------------------
(* Properties                                                              *)

\* Types of the chosen client's variables.
TypeOK ==
    CASE Alone -> T!TypeOK
      [] Paired -> P!TypeOK
      [] Lines -> L!TypeOK

\* The terminal is given back when the program ends, and not before the last of those
\* who read it: telnet5.c joins its thread, telnet4.c waits for its child.  (Not so
\* when pthread_create() fails; and in telnet4.c a signal from outside may interrupt
\* wait(), and the child goes on reading.)  The types are part of it: the terminal's
\* among them.
Reading ==
    IF Alone THEN pc = "key"
    ELSE ~P!Orphaned /\ sender \in {"test", "read", "send"}
TerminalGivenBack ==
    /\ TypeOK
    /\ ~Lines =>
           /\ (IF Alone THEN pc = "ended" ELSE main = "ended" /\ ~lone) => tty = "cooked"
           /\ tty = "cooked" /\ (prog = 4 => signals = 0) => ~Reading

\* When the server closes a telnet client ends, unless the signal for the one who reads
\* the keyboard came between its test of g_end and getchar(): then it takes another key.
\* telnet3.c asks errno, which recv() does not set at an end, and goes on if an earlier
\* call left EAGAIN there.
TooEarly == main = "wait" /\ sender = "read" /\ g_end["sender"]
TelnetNoticesEnd ==
    ~Lines /\ fin ~> Over \/ (prog = 3 /\ errno = "EAGAIN") \/ (Paired /\ TooEarly)

\* The end of the connection ends a client, but for the cases above, and for one that
\* waits in fgets() for the rest of a line.
EndIsNoticed == TelnetNoticesEnd /\ (Lines => L!EndIsNoticed)

\* A client that ends for want of input has sent every complete line of it.
NothingTypedIsLost == Lines => L!NothingTypedIsLost

\* Whatever is typed is sent, unless it waits in stdio's buffer, which select() cannot
\* see, or the client waits for the server (in SSL_connect() or SSL_read()) or for the
\* rest of a line, or has ended.  Every answer is shown but for the last two.
LinesGetThrough == Lines => L!TypedIsSent /\ L!AnswersAreShown
=============================================================================
