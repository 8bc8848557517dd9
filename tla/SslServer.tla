------------------------------ MODULE SslServer ------------------------------
(***************************************************************************)
(* chapter11/ssl-server.c: a sequential server whose conversations are TLS *)
(* sessions.  A conversation begins with SSL_accept(), which waits for the *)
(* client's part of the handshake, and ends in one of two ways: the client *)
(* has closed its socket, or has sent close_notify and may keep the        *)
(* connection.  The library is modelled by how the code uses it: lines go  *)
(* through a session as they do through a connection.                      *)
(***************************************************************************)
EXTENDS Sequential

VARIABLES
    hello,      \* the clients that have begun the handshake
    notified    \* the clients that have sent close_notify

sslVars == <<hello, notified>>

SslInit == hello = {} /\ notified = {}

ClientHello(c) ==
    /\ phase[c] = "up"
    /\ c \notin hello
    /\ hello' = hello \cup {c}
    /\ UNCHANGED <<clientVars, convVars, seqVars, notified>>

CloseNotify(c) ==
    /\ phase[c] = "up"
    /\ c \in Live \ notified
    /\ sent[c] = Answered(c)
    /\ notified' = notified \cup {c}
    /\ UNCHANGED <<clientVars, convVars, seqVars, hello>>

\* A client sends lines in a session only.
MaySend(c) == c \in Live \ notified

SslAccept ==
    /\ AcceptOn("v4")
    /\ pc' = "shake"
    /\ UNCHANGED <<phase, sent, read, out, got, reset, convVars, prog, family, listening,
                   selected, sslVars>>

\* SSL_accept() has the client's part of the handshake and succeeds.
Handshake ==
    /\ pc = "shake"
    /\ acc \in hello
    /\ pc' = "serve"
    /\ Begin(acc)
    /\ UNCHANGED <<clientVars, prog, acc, family, listening, mask, selected, sslVars>>

\* SSL_new() or SSL_accept() fails, or post_connection_check() rejects the client's
\* certificate; SSL_accept() also fails when the client closes.
HandshakeFails ==
    /\ pc = "shake"
    /\ (MayFail /\ acc \in hello) \/ phase[acc] = "closed"
    /\ HangUpOn(acc)
    /\ pc' = "accept"
    /\ acc' = NoConn
    /\ UNCHANGED <<sent, read, out, got, reset, backlog, convVars, prog, family, listening, mask,
                   selected, sslVars>>

\* SSL_read() returns 0 because of close_notify.  SSL_set_shutdown() replaces what the
\* session knows of the client's notification by the server's own, so that
\* SSL_shutdown() sends nothing and waits for the client.
Shutdown ==
    /\ pc = "serve"
    /\ conv[acc] = "recv"
    /\ acc \in notified
    /\ ~HasLines(acc)
    /\ pc' = "shutdown"
    /\ UNCHANGED <<clientVars, convVars, prog, acc, family, listening, mask, selected, sslVars>>

\* The client has closed: SSL_shutdown() returns.
ShutdownEnds ==
    /\ pc = "shutdown"
    /\ phase[acc] = "closed"
    /\ End(acc)
    /\ pc' = "accept"
    /\ acc' = NoConn
    /\ UNCHANGED <<prog, family, listening, mask, selected, sslVars>>

SslStep ==
    \/ SslAccept
    \/ Handshake \/ HandshakeFails
    \/ Shutdown \/ ShutdownEnds
=============================================================================
