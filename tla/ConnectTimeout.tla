--------------------------- MODULE ConnectTimeout ---------------------------
(***************************************************************************)
(* client_socket_with_timeout() of chapter04/client-timeout.c: connect()   *)
(* on a socket that does not block, and select() for its outcome.  The     *)
(* server may answer, refuse, or be silent for ever.                       *)
(***************************************************************************)
EXTENDS TimeoutBounds

VARIABLES
    timeout,    \* the timeout in ticks, or -1 for none
    cpc,        \* where the function is
    answer,     \* what has come of the server: "none", "accepted" or "refused"
    left,       \* ticks until select() times out
    passed,     \* history: the ticks since connect()
    intr,       \* the waits that were interrupted
    soc         \* the socket: "none", "blocking", "nonblocking" or "closed"

connectVars == <<timeout, cpc, answer, left, passed, intr, soc>>

\* Nothing is counted beyond this tick.
Late == Deadline + 2

ConnectInit ==
    /\ timeout \in {-1, 0, Deadline}
    /\ cpc = "connect" /\ answer = "none"
    /\ left = 0 /\ passed = 0 /\ intr = 0
    /\ soc = "none"

ServerAnswers ==
    /\ cpc # "connect" /\ answer = "none"
    /\ answer' \in {"accepted", "refused"}
    /\ UNCHANGED <<timeout, cpc, left, passed, intr, soc>>

Returns(result, s) ==
    /\ cpc' = result
    /\ soc' = s
    /\ UNCHANGED <<timeout, left, passed, intr>>

\* connect() is in progress, of a socket that blocks if there is no timeout.
Connect ==
    /\ cpc = "connect"
    /\ cpc' = IF timeout < 0 THEN "blocked" ELSE "select"
    /\ soc' = IF timeout < 0 THEN "blocking" ELSE "nonblocking"
    /\ left' = IF timeout < 0 THEN 0 ELSE timeout
    /\ UNCHANGED <<timeout, answer, passed, intr>>

\* connect() succeeds or fails at once.
ConnectAtOnce ==
    /\ cpc = "connect"
    /\ \/ answer' = "accepted" /\ Returns("connected", "blocking")
       \/ answer' = "refused" /\ Returns("-1", "closed")

\* Without a timeout connect() returns when the server has answered.
ConnectReturns ==
    /\ cpc = "blocked"
    /\ \/ answer = "accepted" /\ Returns("connected", "blocking")
       \/ answer = "refused" /\ Returns("-1", "closed")
    /\ UNCHANGED answer

Tick ==
    /\ cpc \in {"blocked", "select"}
    /\ answer = "none"
    /\ cpc = "select" => left > 0
    /\ left' = IF cpc = "select" THEN left - 1 ELSE left
    /\ passed' = IF passed < Late THEN passed + 1 ELSE passed
    /\ UNCHANGED <<timeout, cpc, answer, intr, soc>>

\* mutant: a socket that is writable is taken to be connected
SoErrorUnread ==
    /\ cpc = "select"
    /\ answer # "none"
    /\ Returns("connected", "blocking")
    /\ UNCHANGED answer

\* select() reports the socket, and SO_ERROR says what came of the connection.
SoError ==
    /\ cpc = "select"
    /\ \/ answer = "accepted" /\ Returns("connected", "blocking")
       \/ answer = "refused" /\ Returns("-1", "closed")
    /\ UNCHANGED answer

SelectTimesOut ==
    /\ cpc = "select"
    /\ answer = "none"
    /\ left = 0
    /\ Returns("-1", "closed")
    /\ UNCHANGED answer

\* EINTR: the loop waits again, for what select() has left of the timeout.
SelectInterrupted ==
    /\ cpc = "select"
    /\ answer = "none"
    /\ intr < MaxSignals
    /\ intr' = intr + 1
    /\ UNCHANGED <<timeout, cpc, answer, left, passed, soc>>

SelectFails ==
    /\ cpc = "select"
    /\ Returns("-1", "closed")
    /\ UNCHANGED answer

ConnectNext ==
    \/ Connect \/ ConnectAtOnce \/ ConnectReturns
    \/ SoError \/ SelectTimesOut \/ SelectInterrupted \/ SelectFails
    \/ Tick \/ ServerAnswers

---------------------------------------------------------------------------
(* Properties                                                              *)

\* A socket is returned only if it is connected, and then it blocks again, as the
\* loop that follows expects; otherwise it is closed.
ConnectIsTrue ==
    /\ cpc = "connected" => answer = "accepted" /\ soc = "blocking"
    /\ cpc = "-1" => soc = "closed"

\* With a timeout nobody waits longer, whatever signals come.
ConnectIsBounded == timeout >= 0 => passed <= timeout
=============================================================================
