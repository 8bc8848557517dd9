------------------------------- MODULE Telnet -------------------------------
(***************************************************************************)
(* chapter05/telnet1.c (select), telnet2.c (poll) and telnet3.c            *)
(* (non-blocking): one process that turns from the socket to the keyboard. *)
(***************************************************************************)
EXTENDS TelnetStream

VARIABLES
    pc,         \* where send_recv_loop() is
    ready,      \* what select() or poll() has reported
    g_end,      \* the flag sig_term_handler() sets
    errno       \* telnet3: "EAGAIN", "EINTR" or "other"

loopVars == <<pc, ready, g_end, errno>>
vars == <<streamVars, loopVars>>

Init ==
    /\ StreamInit
    /\ pc = IF prog = 3 THEN "recv" ELSE "wait"
    /\ ready = {} /\ g_end = FALSE /\ errno = "other"

NetReady == ~Empty \/ fin

---------------------------------------------------------------------------
(* telnet1.c, telnet2.c: select() or poll(), with a timeout of a second    *)

Wait ==
    /\ pc = "wait" /\ prog # 3
    /\ ready' = {x \in {"net", "key"} : IF x = "net" THEN NetReady ELSE key}
    /\ ready' # {}
    /\ pc' = IF "net" \in ready' THEN "recv" ELSE "key"
    /\ UNCHANGED <<streamVars, g_end, errno>>

\* The second is over, or a signal has come.
WaitEnds ==
    /\ pc = "wait" /\ prog # 3
    /\ ~NetReady /\ ~key
    /\ pc' = "test"
    /\ UNCHANGED <<streamVars, ready, g_end, errno>>

WaitFails ==
    /\ pc = "wait" /\ prog # 3
    /\ g_end' = TRUE
    /\ pc' = "test"
    /\ UNCHANGED <<streamVars, ready, errno>>

---------------------------------------------------------------------------
(* recv_data() and what the loop does with its result                      *)

AfterData == IF prog = 3 \/ "key" \in ready THEN "key" ELSE "test"

Data ==
    /\ pc = "recv"
    /\ \/ InCommand /\ pc' = pc
       \/ DataDone /\ pc' = AfterData
    /\ UNCHANGED <<tty, signals, ready, g_end, errno>>

\* telnet1.c, telnet2.c: -1 is the end, and SIGPIPE is another.
DataFails ==
    /\ pc = "recv" /\ prog # 3
    /\ DataEnds
    /\ g_end' = TRUE
    /\ pc' \in {"test"} \cup (IF SendBreaks THEN {"killed"} ELSE {})
    /\ UNCHANGED <<tty, signals, ready, errno>>

\* telnet3.c: recv() finds nothing, also in the middle of a command.
NoData ==
    /\ pc = "recv" /\ prog = 3
    /\ DataBreaks
    /\ errno' = "EAGAIN"
    /\ pc' = "key"
    /\ UNCHANGED <<tty, signals, ready, g_end>>

\* telnet3.c: at the end recv() does not set errno, which is what an earlier call left.
\* (Once the connection is reset it does.)
EndByErrno ==
    /\ pc = "recv" /\ prog = 3
    /\ DataEnds
    /\ pc' \in IF SendBreaks THEN {"restore", "killed"}
              ELSE IF errno = "EAGAIN" /\ ~broken THEN {"key"} ELSE {"restore"}
    /\ UNCHANGED <<tty, signals, ready, g_end, errno>>

---------------------------------------------------------------------------
(* The keyboard                                                            *)

Key ==
    /\ pc = "key" /\ key
    /\ SendOk
    /\ key' = FALSE
    /\ pc' = IF prog = 3 THEN "recv" ELSE "test"
    /\ UNCHANGED <<prog, net, sentBytes, place, fin, tty, dataVars, signals, ready, g_end, errno>>

\* send() fails, or raises SIGPIPE.
KeyFails ==
    /\ pc = "key" /\ key
    /\ broken
    /\ key' = FALSE
    /\ \/ pc' = "restore"
       \/ pc' = "killed"
    /\ UNCHANGED <<prog, net, sentBytes, place, fin, broken, tty, dataVars, signals, ready, g_end, errno>>

\* telnet3.c: getchar() returns EOF; usleep(), which a signal may interrupt.
NoKey ==
    /\ pc = "key" /\ ~key
    /\ errno' = "EAGAIN"
    /\ pc' = "recv"
    /\ UNCHANGED <<streamVars, ready, g_end>>

Test ==
    /\ pc = "test"
    /\ pc' = IF g_end THEN "restore" ELSE "wait"
    /\ UNCHANGED <<streamVars, ready, g_end, errno>>

Restore ==
    /\ pc = "restore"
    /\ tty' = "cooked"
    /\ pc' = "ended"
    /\ UNCHANGED <<worldVars, dataVars, signals, ready, g_end, errno>>

\* SIGTERM comes: a recv() that blocks fails, unless it is only about to.
SigTerm ==
    /\ pc \notin {"ended", "killed"}
    /\ signals < MaxSignals
    /\ signals' = signals + 1
    /\ g_end' = TRUE
    /\ errno' = IF prog = 3 THEN "EINTR" ELSE errno
    /\ \/ pc = "recv" /\ prog # 3 /\ DataBreaks /\ pc' = "test"
       \/ UNCHANGED <<worldVars, dataVars, pc>>
    /\ UNCHANGED <<tty, ready>>

Loop ==
    \/ Wait \/ WaitEnds \/ WaitFails
    \/ Data \/ DataFails \/ NoData \/ EndByErrno
    \/ Key \/ KeyFails \/ NoKey
    \/ Test \/ Restore

Over == pc \in {"ended", "killed"}

Next == Loop \/ SigTerm \/ (World /\ ~Over /\ UNCHANGED loopVars)

---------------------------------------------------------------------------
(* Properties                                                              *)

TypeOK ==
    /\ StreamTypeOK
    /\ pc \in {"wait", "recv", "key", "test", "restore", "ended", "killed"}
    /\ ready \subseteq {"net", "key"}
    /\ g_end \in BOOLEAN
    /\ errno \in {"EAGAIN", "EINTR", "other"}
=============================================================================
