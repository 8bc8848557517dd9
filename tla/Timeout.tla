------------------------------ MODULE Timeout ------------------------------
(***************************************************************************)
(* chapter06/timeout.c: six ways to receive with a timeout, one of which   *)
(* is chosen when the program starts, and the loop that uses them.         *)
(*                                                                         *)
(* Time passes in ticks (see TimeoutBounds).  usleep() lasts one tick; the *)
(* program's other steps take no time.  time() counts whole seconds, and   *)
(* the call may begin at any tick of a second.                             *)
(***************************************************************************)
EXTENDS TimeoutBounds

VARIABLES
    g_mode,     \* 'n', 's', 'p', 'e', 'i' or 'o'
    pc,         \* where the program is
    rv,         \* what recv_with_timeout() returns: "length", "zero", "-1", or "none" yet
    timedOut,   \* history: "Timeout" was printed in this call
    elapsed,    \* ticks since the call began
    second,     \* the tick of a second at which it began
    timer,      \* ticks until the wait times out
    signals,    \* waits of this call that were interrupted
    upper,      \* the upper half of nread
    lines,      \* lines in the socket
    since,      \* history: when the first of them came, in ticks of this call
    fin         \* the connection's end is in the socket: "no", "eof" or "reset"

callVars == <<rv, timedOut, elapsed, second, timer, signals, upper>>
sockVars == <<lines, since, fin>>
vars == <<g_mode, pc, callVars, sockVars>>

Halves == {"zero", "positive", "negative"}
Modes == {"n", "s", "p", "e", "i", "o"}
Polling == {"n", "i"}                       \* those that look, sleep and look again
Readable == lines > 0 \/ fin # "no"
\* The longest time a call of a polling mode looks at; nothing is counted beyond it.
Longest == (TIMEOUT_SEC + 1) * Ticks + 1
Horizon == (MaxSignals + 1) * Longest + 1

Init ==
    /\ g_mode \in Modes
    /\ pc = "accept"
    /\ rv = "none" /\ timedOut = FALSE /\ elapsed = 0 /\ second = 0
    /\ timer = 0 /\ signals = 0 /\ upper = "zero"
    /\ lines = 0 /\ since = 0 /\ fin = "no"

---------------------------------------------------------------------------
(* The client and the clock                                                *)

Send ==
    /\ pc # "accept"
    /\ fin = "no" /\ lines < MaxLines
    /\ lines' = lines + 1
    /\ since' = IF lines = 0 THEN elapsed ELSE since
    /\ UNCHANGED <<g_mode, pc, callVars, fin>>

Finish ==
    /\ pc # "accept"
    /\ fin = "no"
    /\ fin' \in {"eof", "reset"}
    /\ UNCHANGED <<g_mode, pc, callVars, lines, since>>

Passes == elapsed' = IF elapsed < Horizon THEN elapsed + 1 ELSE elapsed

---------------------------------------------------------------------------
(* accept_loop() and send_recv_loop()                                      *)

Accept ==
    /\ pc = "accept"
    /\ pc' = "call"
    /\ lines' = 0 /\ since' = 0 /\ fin' = "no"
    /\ UNCHANGED <<g_mode, callVars>>

\* recv_with_timeout() begins: the start time is taken, or the wait begins.
Call ==
    /\ pc = "call"
    /\ pc' = IF g_mode \in Polling THEN "look" ELSE "wait"
    /\ rv' = "none" /\ timedOut' = FALSE /\ elapsed' = 0 /\ signals' = 0 /\ since' = 0
    /\ second' \in IF g_mode \in Polling THEN 0 .. (Ticks - 1) ELSE {0}
    /\ upper' \in IF g_mode = "i" THEN Halves ELSE {"zero"}
    /\ timer' = IF g_mode \in Polling THEN 0 ELSE Deadline
    /\ UNCHANGED <<g_mode, lines, fin>>

\* epoll_create(), EPOLL_CTL_ADD or setsockopt() fails.
CallFails ==
    /\ pc = "call"
    /\ g_mode \in {"e", "o"}
    /\ pc' = "accept"
    /\ UNCHANGED <<g_mode, callVars, sockVars>>

\* The reply is sent, and the loop goes on.
Reply ==
    /\ pc = "return" /\ rv = "length"
    /\ pc' = "call"
    /\ UNCHANGED <<g_mode, callVars, sockVars>>

\* The end, an error or a timeout, or send() fails: the connection is closed.
Close ==
    /\ pc = "return"
    /\ rv = "length" => fin = "reset"
    /\ pc' = "accept"
    /\ UNCHANGED <<g_mode, callVars, sockVars>>

---------------------------------------------------------------------------
(* Receiving                                                               *)

\* recv() on a socket that is readable.
Recv ==
    /\ Readable
    /\ rv' = IF lines > 0 THEN "length" ELSE IF fin = "eof" THEN "zero" ELSE "-1"
    /\ lines' = 0
    /\ pc' = "return"
    /\ UNCHANGED <<g_mode, timedOut, elapsed, second, timer, signals, upper, since, fin>>

\* mutant: the time of a whole second less is enough
TimeIsUpEarly == (second + elapsed) \div Ticks >= TIMEOUT_SEC
TimeIsUp == (second + elapsed) \div Ticks > TIMEOUT_SEC

\* 'n': what there is is received, though the time may be up.
TryRecv ==
    /\ pc = "look" /\ g_mode = "n"
    /\ Recv

\* 'n': recv() finds nothing, and the program sleeps, also when the time is up.
TryAgain ==
    /\ pc = "look" /\ g_mode = "n"
    /\ ~Readable
    /\ timedOut' = TimeIsUp
    /\ rv' = IF TimeIsUp THEN "-1" ELSE rv
    /\ pc' = "sleep"
    /\ UNCHANGED <<g_mode, elapsed, second, timer, signals, upper, sockVars>>

\* 'i': FIONREAD stores an int in nread, which has twice the size of one and was not
\* initialised; its upper half decides whether it is positive.
Fionread == upper = "positive" \/ (upper = "zero" /\ lines > 0)

GiveUp ==
    /\ pc = "look" /\ g_mode = "i"
    /\ TimeIsUp
    /\ timedOut' = TRUE
    /\ rv' = "-1"
    /\ pc' = "return"
    /\ UNCHANGED <<g_mode, elapsed, second, timer, signals, upper, sockVars>>

Look ==
    /\ pc = "look" /\ g_mode = "i"
    /\ ~TimeIsUp
    /\ pc' = IF Fionread THEN "recv" ELSE "sleep"
    /\ UNCHANGED <<g_mode, callVars, sockVars>>

\* usleep()
Sleep ==
    /\ pc = "sleep"
    /\ Passes
    /\ pc' = IF rv = "none" THEN "look" ELSE "return"
    /\ UNCHANGED <<g_mode, rv, timedOut, second, timer, signals, upper, sockVars>>

\* mutant: the wait knows no timeout
WaitForEver ==
    /\ pc = "wait"
    /\ ~Readable
    /\ Passes
    /\ timer' = timer - 1
    /\ UNCHANGED <<g_mode, pc, rv, timedOut, second, signals, upper, sockVars>>

\* 's', 'p', 'e', 'o': select(), poll(), epoll_wait() or recv() itself waits.
Wait ==
    /\ pc = "wait"
    /\ ~Readable
    /\ timer > 0
    /\ Passes
    /\ timer' = timer - 1
    /\ UNCHANGED <<g_mode, pc, rv, timedOut, second, signals, upper, sockVars>>

WaitTimesOut ==
    /\ pc = "wait"
    /\ ~Readable
    /\ timer = 0
    /\ timedOut' = TRUE
    /\ rv' = "-1"
    /\ pc' = "return"
    /\ UNCHANGED <<g_mode, elapsed, second, timer, signals, upper, sockVars>>

WaitEnds ==
    /\ pc = "wait"
    /\ g_mode # "o"
    /\ Readable
    /\ pc' = "recv"
    /\ UNCHANGED <<g_mode, callVars, sockVars>>

WaitReceives == pc = "wait" /\ g_mode = "o" /\ Recv

\* mutant: timeout is set again before every select()
WaitAgain == Deadline

\* What is left for the wait after a signal: select() has taken from timeout what it
\* used, the others wait from the start.
AfterEintr == IF g_mode = "s" THEN timer ELSE Deadline

Eintr ==
    /\ pc = "wait"
    /\ ~Readable
    /\ signals < MaxSignals
    /\ signals' = signals + 1
    /\ timer' = AfterEintr
    /\ UNCHANGED <<g_mode, pc, rv, timedOut, elapsed, second, upper, sockVars>>

\* Any other error of the wait.
WaitFails ==
    /\ pc = "wait"
    /\ rv' = "-1"
    /\ pc' = "return"
    /\ UNCHANGED <<g_mode, timedOut, elapsed, second, timer, signals, upper, sockVars>>

\* The recv() that follows; it blocks if there is nothing.
RecvNow == pc = "recv" /\ Recv

RecvBlocks ==
    /\ pc = "recv"
    /\ ~Readable
    /\ Passes
    /\ UNCHANGED <<g_mode, pc, rv, timedOut, second, timer, signals, upper, sockVars>>

Program ==
    \/ Accept \/ Call \/ CallFails \/ Reply \/ Close
    \/ TryRecv \/ TryAgain \/ GiveUp \/ Look \/ Sleep
    \/ Wait \/ WaitTimesOut \/ WaitEnds \/ WaitReceives \/ Eintr \/ WaitFails
    \/ RecvNow \/ RecvBlocks

Next == Program \/ Send \/ Finish

Spec == Init /\ [][Next]_vars

---------------------------------------------------------------------------
(* Properties                                                              *)

TypeOK ==
    /\ g_mode \in Modes
    /\ pc \in {"accept", "call", "look", "sleep", "wait", "recv", "return"}
    /\ rv \in {"none", "-1", "zero", "length"} /\ timedOut \in BOOLEAN
    /\ elapsed \in 0 .. Horizon /\ second \in 0 .. (Ticks - 1)
    /\ timer \in 0 .. Deadline
    /\ signals \in 0 .. MaxSignals
    /\ upper \in Halves
    /\ lines \in 0 .. MaxLines /\ since \in 0 .. Horizon /\ fin \in {"no", "eof", "reset"}

\* A client is given up for its silence only when TIMEOUT_SEC have passed since the
\* call began, though time() has only whole seconds; and no line that came before that
\* is left in the socket.  (Given that no garbage stands in nread: see RecvHasTimeout.)
TimeoutIsTrue ==
    pc = "return" /\ timedOut /\ rv = "-1" /\ upper = "zero" =>
        /\ elapsed >= Deadline
        /\ lines > 0 => since >= Deadline

\* Every call ends: the polling ones and select() within a second and a sleep after
\* TIMEOUT_SEC, the others within TIMEOUT_SEC of the last signal.  (The same is
\* given.)
Allowed ==
    IF g_mode \in Polling THEN Longest
    ELSE IF g_mode = "s" THEN Deadline
    ELSE (signals + 1) * Deadline
CallIsBounded == pc \notin {"accept", "call"} /\ upper = "zero" => elapsed <= Allowed

\* "タイムアウト付き受信(ioctl)", receiving with a timeout: so does every call end.
RecvHasTimeout == pc \notin {"accept", "call"} => elapsed <= Allowed
=============================================================================
