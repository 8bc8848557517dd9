----------------------------- MODULE TelnetPair -----------------------------
(***************************************************************************)
(* chapter05/telnet4.c and telnet5.c: the main process (thread) receives,  *)
(* a child process (a second thread) reads the keyboard and sends.  Each   *)
(* ends the other with SIGTERM, whose handler sets g_end; a call that      *)
(* blocks fails when the signal comes in it, not when it comes before.     *)
(***************************************************************************)
EXTENDS TelnetStream

VARIABLES
    main,       \* where main() is
    sender,     \* where the child process, or send_thread(), is
    g_end,      \* the flag, as each of the two sees it
    known,      \* telnet5: g_parent_thread has been set
    lone        \* telnet5: pthread_create() has failed

pairVars == <<main, sender, g_end, known, lone>>
vars == <<streamVars, pairVars>>

Both == {"main", "sender"}

Init ==
    /\ StreamInit
    /\ main = "start" /\ sender = "none"
    /\ g_end = [p \in Both |-> FALSE]
    /\ known = FALSE /\ lone = FALSE

Over == main \in {"ended", "killed"}
\* A thread ends with its process, a child process does not.
Orphaned == Over /\ prog = 5

\* The handler runs in p.
Handle(p) == g_end' = [q \in Both |-> q = p \/ prog = 5 \/ g_end[q]]

\* SIGTERM for the main process or thread, which may be in a call that it interrupts:
\* recv(), or in telnet4.c wait().
SignalMain ==
    /\ ~Over
    /\ Handle("main")
    /\ \/ main = "recv" /\ DataBreaks /\ main' = "kill"
       \/ /\ main = "wait" /\ prog = 4
          /\ main' = "restore"
          /\ UNCHANGED <<worldVars, dataVars>>
       \/ UNCHANGED <<worldVars, dataVars, main>>

\* SIGTERM for the other: getchar() returns EOF, which is sent like a key.
SignalSender ==
    /\ sender \notin {"none", "done"}
    /\ Handle("sender")
    /\ \/ sender = "read" /\ sender' = "send"
       \/ UNCHANGED sender

---------------------------------------------------------------------------
(* The main process or thread                                              *)

\* fork(): the child has g_end as it is.
Start ==
    /\ main = "start"
    /\ sender' = "test"
    /\ g_end' = [p \in Both |-> g_end["main"]]
    /\ main' = IF prog = 4 THEN "test" ELSE "set"
    /\ UNCHANGED <<streamVars, known, lone>>

\* telnet5.c: g_parent_thread was not set, and main() takes itself for the child.
StartFails ==
    /\ main = "start"
    /\ main' = IF prog = 4 THEN "restore" ELSE "ended"
    /\ lone' = (prog = 5)
    /\ UNCHANGED <<streamVars, sender, g_end, known>>

SetParent ==
    /\ main = "set"
    /\ known' = TRUE
    /\ main' = "recv"
    /\ UNCHANGED <<streamVars, sender, g_end, lone>>

\* telnet4.c; in telnet5.c nothing is tested.
TestMain ==
    /\ main = "test"
    /\ main' = IF g_end["main"] THEN "kill" ELSE "recv"
    /\ UNCHANGED <<streamVars, sender, g_end, known, lone>>

Data ==
    /\ main = "recv"
    /\ \/ InCommand /\ main' = main
       \/ DataDone /\ main' = IF prog = 4 THEN "test" ELSE "recv"
    /\ UNCHANGED <<tty, signals, sender, g_end, known, lone>>

DataFails ==
    /\ main = "recv"
    /\ DataEnds
    /\ main' \in {"kill"} \cup (IF SendBreaks THEN {"killed"} ELSE {})
    /\ UNCHANGED <<tty, signals, sender, g_end, known, lone>>

\* mutant: the other is waited for without a signal
OnlyWait ==
    /\ main = "kill"
    /\ main' = "wait"
    /\ UNCHANGED <<streamVars, sender, g_end, known, lone>>

Kill ==
    /\ main = "kill"
    /\ IF sender = "done" THEN UNCHANGED <<sender, g_end>> ELSE SignalSender
    /\ main' = "wait"
    /\ UNCHANGED <<streamVars, known, lone>>

\* mutant: wait() is left out
NoWait ==
    /\ main = "wait"
    /\ main' = "restore"
    /\ UNCHANGED <<streamVars, sender, g_end, known, lone>>

\* wait() or pthread_join()
WaitSender ==
    /\ main = "wait"
    /\ sender = "done"
    /\ main' = "restore"
    /\ UNCHANGED <<streamVars, sender, g_end, known, lone>>

\* mutant: another mode than the one that was found
SaneTty ==
    /\ main = "restore"
    /\ tty' = "sane"
    /\ main' = "ended"
    /\ UNCHANGED <<worldVars, dataVars, signals, sender, g_end, known, lone>>

RestoreTty ==
    /\ main = "restore"
    /\ tty' = "cooked"
    /\ main' = "ended"
    /\ UNCHANGED <<worldVars, dataVars, signals, sender, g_end, known, lone>>

Main ==
    \/ Start \/ StartFails \/ SetParent \/ TestMain \/ Data \/ DataFails
    \/ Kill \/ WaitSender \/ RestoreTty

---------------------------------------------------------------------------
(* The other one                                                           *)

TestSender ==
    /\ sender = "test"
    /\ sender' = IF g_end["sender"] THEN "kill" ELSE "read"
    /\ UNCHANGED <<streamVars, main, g_end, known, lone>>

Read ==
    /\ sender = "read" /\ key
    /\ key' = FALSE
    /\ sender' = "send"
    /\ UNCHANGED <<prog, net, sentBytes, place, fin, broken, tty, dataVars, signals,
                   main, g_end, known, lone>>

SendKey ==
    /\ sender = "send"
    /\ SendOk
    /\ sender' = "test"
    /\ UNCHANGED <<prog, key, net, sentBytes, place, fin, tty, dataVars, signals,
                   main, g_end, known, lone>>

\* send() fails, or SIGPIPE ends the process the sender is in.
SendKeyFails ==
    /\ sender = "send"
    /\ broken
    /\ \/ sender' = "kill" /\ main' = main
       \/ /\ sender' = "done"
          /\ main' = IF prog = 5 THEN "killed" ELSE main
    /\ UNCHANGED <<streamVars, g_end, known, lone>>

\* The other is signalled, and the sender ends.
EndSender ==
    /\ sender = "kill"
    /\ IF Over THEN UNCHANGED <<worldVars, dataVars, main, g_end>>
       ELSE (prog = 4 \/ known) /\ SignalMain
    /\ sender' = "done"
    /\ UNCHANGED <<tty, signals, known, lone>>

\* telnet5.c: g_parent_thread has not been set; pthread_kill() fails or crashes.
EndAstray ==
    /\ sender = "kill"
    /\ prog = 5 /\ ~known /\ ~Over
    /\ main' \in {main, "killed"}
    /\ sender' = "done"
    /\ UNCHANGED <<streamVars, g_end, known, lone>>

Sender ==
    /\ ~Orphaned
    /\ TestSender \/ Read \/ SendKey \/ SendKeyFails \/ EndSender \/ EndAstray

---------------------------------------------------------------------------

\* SIGTERM from outside, for the process: any thread may take it.
SigTerm ==
    /\ signals < MaxSignals
    /\ signals' = signals + 1
    /\ \/ SignalMain /\ UNCHANGED sender
       \/ ~Orphaned /\ SignalSender /\ UNCHANGED <<worldVars, dataVars, main>>
    /\ UNCHANGED <<tty, known, lone>>

Next == Main \/ Sender \/ SigTerm \/ (World /\ ~Over /\ UNCHANGED pairVars)

---------------------------------------------------------------------------
(* Properties                                                              *)

TypeOK ==
    /\ StreamTypeOK
    /\ main \in {"start", "set", "test", "recv", "kill", "wait", "restore", "ended", "killed"}
    /\ sender \in {"none", "test", "read", "send", "kill", "done"}
    /\ g_end \in [Both -> BOOLEAN]
    /\ known \in BOOLEAN /\ lone \in BOOLEAN
=============================================================================
