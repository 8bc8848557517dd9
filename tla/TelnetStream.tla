---------------------------- MODULE TelnetStream ----------------------------
(***************************************************************************)
(* What the telnet clients of chapter05 (telnet1.c to telnet5.c) share:    *)
(* the connection and the server at its other end, the keyboard, the       *)
(* terminal, and recv_data(), which takes one character or one command     *)
(* (three bytes, answered by WONT) from the connection.                    *)
(***************************************************************************)
EXTENDS Naturals, Sequences

CONSTANTS
    Programs,       \* the clients that are looked at, a subset of {1, 2, 3, 4, 5}
    MaxBytes,       \* bound: bytes the server sends
    MaxSignals      \* bound: SIGTERMs from outside

ASSUME TelnetAssumption ==
    /\ Programs \subseteq 1 .. 5
    /\ MaxBytes \in Nat
    /\ MaxSignals \in Nat

VARIABLES
    prog,       \* which of the clients runs
    tty,        \* how the terminal is set: "raw" or "cooked"
    key,        \* a key was pressed and has not been read
    net,        \* the bytes in the socket
    sentBytes,  \* bytes the server has sent
    place,      \* bytes of a command the server has sent the beginning of
    fin,        \* the server has closed
    broken,     \* and the connection was reset, because something was sent to it
    rp,         \* the byte recv_data() waits for: "first", "verb", "option", or "reply"
    shown,      \* history: the kinds of bytes put on the screen
    commands,   \* history: commands recv_data() has taken
    answers,    \* history: commands it has answered
    signals     \* history: SIGTERMs from outside

worldVars == <<prog, key, net, sentBytes, place, fin, broken>>
dataVars == <<rp, shown, commands, answers>>
streamVars == <<worldVars, tty, dataVars, signals>>

Kinds == {"text", "IAC", "verb", "option"}

StreamInit ==
    /\ prog \in Programs
    /\ tty = "raw" /\ key = FALSE
    /\ net = <<>> /\ sentBytes = 0 /\ place = 0
    /\ fin = FALSE /\ broken = FALSE
    /\ rp = "first" /\ shown = {} /\ commands = 0 /\ answers = 0
    /\ signals = 0

---------------------------------------------------------------------------
(* The server and the user                                                 *)

ServerSends ==
    /\ ~fin
    /\ sentBytes < MaxBytes
    /\ \E b \in Kinds :
           /\ b = CASE place = 1 -> "verb" [] place = 2 -> "option" [] OTHER -> b
           /\ place = 0 => b \in {"text", "IAC"}
           /\ net' = Append(net, b)
           /\ place' = IF b = "text" THEN 0 ELSE (place + 1) % 3
    /\ sentBytes' = sentBytes + 1
    /\ UNCHANGED <<prog, key, fin, broken, tty, dataVars, signals>>

ServerCloses ==
    /\ ~fin
    /\ fin' = TRUE
    /\ UNCHANGED <<prog, key, net, sentBytes, place, broken, tty, dataVars, signals>>

Press ==
    /\ ~key
    /\ key' = TRUE
    /\ UNCHANGED <<prog, net, sentBytes, place, fin, broken, tty, dataVars, signals>>

World == ServerSends \/ ServerCloses \/ Press

\* send() of a byte succeeds; a server that has closed answers with a reset.
SendOk == ~broken /\ broken' = fin

---------------------------------------------------------------------------
(* recv_data()                                                             *)

Empty == net = <<>>
Blocks == Empty /\ ~fin
Take == net' = Tail(net) /\ UNCHANGED <<prog, key, sentBytes, place, fin, broken>>

\* A character is put on the screen; recv_data() returns 0.
ShowByte ==
    /\ rp = "first"
    /\ ~Empty /\ Head(net) # "IAC"
    /\ Take
    /\ shown' = shown \cup {Head(net)}
    /\ UNCHANGED <<rp, commands, answers>>

BeginCommand ==
    /\ rp = "first"
    /\ ~Empty /\ Head(net) = "IAC"
    /\ Take
    /\ rp' = "verb"
    /\ UNCHANGED <<shown, commands, answers>>

\* mutant: commands are taken for two bytes
TakeShort ==
    /\ rp = "verb"
    /\ ~Empty
    /\ Take
    /\ rp' = "reply"
    /\ commands' = commands + 1
    /\ UNCHANGED <<shown, answers>>

TakeVerb ==
    /\ rp = "verb"
    /\ ~Empty
    /\ Take
    /\ rp' = "option"
    /\ UNCHANGED <<shown, commands, answers>>

TakeOption ==
    /\ rp = "option"
    /\ ~Empty
    /\ Take
    /\ rp' = "reply"
    /\ commands' = commands + 1
    /\ UNCHANGED <<shown, answers>>

\* The end of the connection is not looked for within a command: c keeps its value.
MissEnd ==
    /\ rp \in {"verb", "option"}
    /\ Empty /\ fin
    /\ rp' = IF rp = "verb" THEN "option" ELSE "reply"
    /\ UNCHANGED <<worldVars, shown, commands, answers>>

InCommand == BeginCommand \/ TakeVerb \/ TakeOption \/ MissEnd

\* WONT is sent; recv_data() returns 0.
SendWont ==
    /\ rp = "reply"
    /\ SendOk
    /\ rp' = "first"
    /\ answers' = answers + 1
    /\ UNCHANGED <<prog, key, net, sentBytes, place, fin, shown, commands>>

DataDone == ShowByte \/ SendWont

\* The end is found, or send() fails; recv_data() returns -1.
SendBreaks == rp = "reply" /\ broken
DataEnds ==
    /\ SendBreaks \/ (rp = "first" /\ Empty /\ fin)
    /\ rp' = "first"
    /\ UNCHANGED <<worldVars, shown, commands, answers>>

\* recv() returns -1 in the middle of anything: so does recv_data().
DataBreaks ==
    /\ Blocks /\ rp # "reply"
    /\ rp' = "first"
    /\ UNCHANGED <<worldVars, shown, commands, answers>>

---------------------------------------------------------------------------
(* Properties                                                              *)

StreamTypeOK ==
    /\ prog \in Programs
    /\ tty \in {"raw", "cooked"} /\ key \in BOOLEAN
    /\ net \in Seq(Kinds) /\ sentBytes \in 0 .. MaxBytes /\ place \in 0 .. 2
    /\ fin \in BOOLEAN /\ broken \in BOOLEAN
    /\ rp \in {"first", "verb", "option", "reply"}
    /\ shown \subseteq Kinds
    /\ commands \in 0 .. MaxBytes /\ answers \in Nat
    /\ signals \in 0 .. MaxSignals

\* Commands are told from text however the bytes come in: no byte of a command is put
\* on the screen, and every command that was taken has been answered, once, but for the
\* one in hand and for those that fall together with the end of the connection.
\* (Not so in telnet3.c, whose recv() may find nothing in the middle of a command.)
CommandsApart ==
    prog # 3 =>
        /\ shown \subseteq {"text"}
        /\ ~fin => commands = answers + (IF rp = "reply" THEN 1 ELSE 0)
=============================================================================
