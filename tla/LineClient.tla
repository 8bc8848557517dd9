----------------------------- MODULE LineClient -----------------------------
(***************************************************************************)
(* A client that sends the lines it reads to a server and shows what the   *)
(* server answers: over TCP (chapter01/client.c, chpater12/client-2.c,     *)
(* chapter04/client-timeout.c once it is connected, "tcp"), or over SSL    *)
(* (chapter11/ssl-client.c, "ssl"), where SSL_connect() comes first and    *)
(* SSL_read() waits until a record is complete.                            *)
(***************************************************************************)
EXTENDS SelectLoop

CONSTANT Me     \* the client: Clients is {Me}

VARIABLES
    over,       \* what the connection is: "tcp" or "ssl"
    sent,       \* lines the client has sent
    answered,   \* lines the server has answered
    part,       \* the beginning of another answer has arrived, too
    shown,      \* answers the client has shown
    hungup,     \* the server has closed
    broken,     \* and the connection was reset because something was sent to it
    bye         \* ssl-client.c has ended its session by SSL_shutdown()

connVars == <<over, sent, answered, part, shown, hungup, broken, bye>>
lineVars == <<inputVars, loopVars, connVars>>

Init ==
    /\ LoopInit([u \in Clients |-> 0], {})
    /\ over \in {"tcp", "ssl"}
    /\ pc = [u \in Clients |-> IF over = "ssl" THEN "connect" ELSE "select"]
    /\ sent = 0 /\ answered = 0 /\ part = FALSE /\ shown = 0
    /\ hungup = FALSE /\ broken = FALSE /\ bye = FALSE

---------------------------------------------------------------------------
(* The server: it answers, in one piece or two, and may close.             *)

ServerAnswers ==
    /\ answered < sent /\ ~hungup
    /\ \/ answered' = answered + 1 /\ part' = FALSE
       \/ ~part /\ part' = TRUE /\ UNCHANGED answered
    /\ UNCHANGED <<over, sent, shown, hungup, broken, bye, loopVars, inputVars>>

ServerCloses ==
    /\ ~hungup
    /\ hungup' = TRUE
    /\ UNCHANGED <<over, sent, answered, part, shown, broken, bye, loopVars, inputVars>>

User ==
    /\ pc[Me] # "ended"
    /\ Input(Me)
    /\ UNCHANGED <<loopVars, connVars>>

---------------------------------------------------------------------------
(* send_recv_loop()                                                        *)

\* SSL_connect(), which waits for the server; it may fail, and does if that closes.
Handshake ==
    /\ pc[Me] = "connect"
    /\ \/ ~hungup /\ Goto(Me, "select")
       \/ Goto(Me, "ended")
    /\ UNCHANGED <<buffered, taken, ready, inputVars, connVars>>

\* mutant: the socket is missing from the mask
WaitDeaf == Select(Me, FALSE) /\ UNCHANGED <<inputVars, connVars>>

Wait == Select(Me, answered > shown \/ part \/ hungup) /\ UNCHANGED <<inputVars, connVars>>

\* recv() returns what there is; SSL_read() a record, and blocks within one.
Receive ==
    /\ pc[Me] = "soc"
    /\ IF over = "ssl"
       THEN answered > shown /\ shown' = shown + 1 /\ UNCHANGED part
       ELSE \/ shown' \in shown + 1 .. answered /\ UNCHANGED part
            \/ part /\ part' = FALSE /\ shown' = answered
    /\ SocDone(Me)
    /\ UNCHANGED <<over, sent, answered, hungup, broken, bye, inputVars>>

\* recv() returns 0 or -1.  At the end SSL_read() returns 0 (the session is ended by
\* SSL_shutdown()) or, within a record, -1.
EndOfStream ==
    /\ pc[Me] = "soc" /\ hungup /\ answered = shown
    /\ part => over = "ssl"
    /\ Goto(Me, "ended")
    /\ bye' = (over = "ssl" /\ ~part)
    /\ UNCHANGED <<buffered, taken, ready, inputVars, over, sent, answered, part, shown, hungup, broken>>

ReadLine ==
    \/ Fgets(Me) /\ UNCHANGED <<inputVars, connVars>>
    \/ /\ EndOfInput(Me)
       /\ bye' = (over = "ssl")
       /\ UNCHANGED <<inputVars, over, sent, answered, part, shown, hungup, broken>>

\* send(); after the server has closed the first one is answered by a reset, the next
\* fails or is SIGPIPE.
Send ==
    /\ pc[Me] = "send"
    /\ IF broken
       THEN Goto(Me, "ended") /\ UNCHANGED <<sent, broken>>
       ELSE /\ Goto(Me, "select")
            /\ sent' = sent + 1
            /\ broken' \in {FALSE, hungup}
    /\ UNCHANGED <<buffered, taken, ready, inputVars, over, answered, part, shown, hungup, bye>>

Loop == Handshake \/ Wait \/ Receive \/ EndOfStream \/ ReadLine \/ Send
World == ServerAnswers \/ ServerCloses \/ User

Over == pc[Me] = "ended"

---------------------------------------------------------------------------
(* Properties                                                              *)

TypeOK ==
    /\ LoopTypeOK
    /\ over \in {"tcp", "ssl"}
    /\ sent \in Nat /\ answered \in Nat /\ shown \in Nat
    /\ shown <= answered /\ answered <= sent /\ sent <= taken[Me]
    /\ part \in BOOLEAN /\ hungup \in BOOLEAN /\ broken \in BOOLEAN /\ bye \in BOOLEAN

\* A client that ends for want of input has sent every line of it, in the order they
\* were typed, the last only if it is complete.  (It does not wait for the answers.)
NothingTypedIsLost ==
    (Over /\ ~hungup /\ (over = "ssl" => bye)) => sent = Lines(Me)

\* Whatever is typed is sent, unless it waits in stdio's buffer, which select() cannot
\* see, or SSL_connect() or SSL_read() waits for the server, or fgets() for the rest of
\* a line, or the client has ended.
Waiting == pc[Me] \in {"connect", "more", "ended"} \/ (over = "ssl" /\ part)
TypedIsSent ==
    \A n \in 1 .. MaxTyped[Me] :
        (Lines(Me) >= n) ~> (sent >= n \/ HeldBack(Me) \/ Waiting)

\* Every answer is shown, unless the client has ended or waits in fgets().
AnswersAreShown ==
    \A n \in 1 .. MaxTyped[Me] :
        (answered >= n) ~> (shown >= n \/ pc[Me] \in {"more", "ended"})

\* The end of the connection ends the client, unless it waits in fgets().
EndIsNoticed == hungup ~> (Over \/ pc[Me] = "more")
=============================================================================
