----------------------------- MODULE Datagrams -----------------------------
(***************************************************************************)
(* The UDP programs of chapter09 and chapter10: clients that send the      *)
(* lines they read and show what comes back, and servers that answer each  *)
(* datagram by its text and ":OK", over a network that may lose, duplicate *)
(* and reorder.                                                            *)
(*                                                                         *)
(* A client sends to one server (u-client.c), to every server by broadcast *)
(* or multicast (u-client-b.c, -b2.c, -m.c, -m6.c), or has connected its   *)
(* socket (u-client2.c).  A server answers to where the line came from     *)
(* (u-server.c, u-server-m.c, u-server-m6.c), or broadcasts its answers to *)
(* that port (u-server-b.c), and then ignores what it sent itself.  A      *)
(* broadcast does not reach a socket with an address of its own: one that  *)
(* is connected (u-client2.c) or bound to it (u-client-b2.c, -m.c, -m6.c). *)
(***************************************************************************)
EXTENDS SelectLoop, FiniteSets

CONSTANTS
    Servers,
    Files,          \* the clients that read a file
    Bound,          \* the clients that bind their socket to an address, to send to all
    Nobody,         \* what no datagram has come from
    Port,           \* Port[x]: the port of a client's or a server's socket
    Host,           \* Host[x]: the host x runs on
    MaxFaults,      \* bound: datagrams lost, duplicated, and calls that fail
    MaxOks          \* bound: length of an answer

Nodes == Clients \cup Servers

ASSUME DatagramAssumption ==
    /\ Files \subseteq Clients /\ Bound \subseteq Clients /\ Servers # {}
    /\ Clients \cap Servers = {} /\ Nobody \notin Nodes
    /\ Port \in [Nodes -> Nat] /\ Host \in [Nodes -> Nat]
    /\ \A s, t \in Servers : Port[s] = Port[t] /\ (Host[s] = Host[t] => s = t)
    /\ MaxFaults \in Nat /\ MaxOks \in Nat

VARIABLES
    how,        \* the clients send to "one" server, to "all", or are "connected"
    mode,       \* the servers answer by "unicast" or by "broadcast"
    knows,      \* u-server-b.c has found out its own address
    net,        \* the datagrams on their way
    buf, from,  \* of each server: the text its buffer holds, and where that came from
    ended,      \* the servers that have ended
    refused,    \* refused[u]: a datagram of client u's connected socket was refused
    lost,       \* history: the lines that were lost, or an answer to them was
    dups,       \* history: the datagrams that came and are to come again
    errors,     \* history: the calls that failed
    shown,      \* history: shown[u], what client u has shown
    twice       \* history: something was shown twice

fixed == <<how, mode, knows>>
serverVars == <<buf, from, ended>>
clientVars == <<shown, twice, refused>>
vars == <<inputVars, loopVars, fixed, net, serverVars, clientVars, lost, dups, errors>>

\* A text is a line of a client and the number of ":OK" behind it.
Line(u, n) == [line |-> <<u, n>>, oks |-> 0]
Datagram(x, y, text) == [src |-> x, dst |-> y, text |-> text]

Init ==
    /\ LoopInit(MaxTyped, Files)
    /\ pc = [u \in Clients |-> "select"]
    /\ how \in {"one", "all", "connected"}
    /\ mode \in {"unicast", "broadcast"}
    /\ knows \in BOOLEAN /\ (mode = "unicast" => ~knows)
    /\ net = {} /\ lost = {} /\ dups = 0 /\ errors = 0
    /\ buf = [s \in Servers |-> [line |-> <<>>, oks |-> 0]]
    /\ from = [s \in Servers |-> Nobody]
    /\ ended = {}
    /\ shown = [u \in Clients |-> {}] /\ twice = FALSE
    /\ refused = [u \in Clients |-> FALSE]

Fault == Cardinality(lost) + dups + errors < MaxFaults
Fails == Fault /\ errors' = errors + 1

---------------------------------------------------------------------------
(* The network                                                             *)

\* The one server a client sends to.
Home == CHOOSE s \in Servers : TRUE

\* A connected socket takes datagrams from its server only.
Reaches(d) == d.dst \in Clients /\ how = "connected" => d.src = Home
For(x) == {d \in net : d.dst = x /\ Reaches(d)}

\* A datagram is lost; but not if it is the one recv() was called for.
Lose ==
    /\ Fault
    /\ \E d \in net :
           /\ d.dst \in Clients => pc[d.dst] # "soc" \/ For(d.dst) # {d}
           /\ net' = net \ {d}
           /\ lost' = lost \cup {d.text.line}
    /\ UNCHANGED <<inputVars, loopVars, fixed, dups, serverVars, clientVars, errors>>

\* Datagram d has come, and may come again: the rest remains.
Comes(d, rest) ==
    \/ rest = net \ {d} /\ UNCHANGED dups
    \/ rest = net /\ Fault /\ dups' = dups + 1
Rests(d) == {net \ {d}, net}

---------------------------------------------------------------------------
(* send_recv_loop() of the servers                                         *)

\* u-server-b.c takes what its own host sent for its own.
FromOneself(s, x) == mode = "broadcast" /\ knows /\ Host[x] = Host[s]

\* mutant: the answer is broadcast to every port
HearersAll(x) == Clients

\* mutant: it is broadcast to the servers' port
HearersServers(x) == IF mode = "unicast" THEN {x} ELSE Servers

\* The clients whose socket has an address of its own, by connect() or bind(): what is
\* sent to the broadcast address is not for it.
Addressed == {u \in Clients : how = "connected" \/ (how = "all" /\ u \in Bound)}

\* Who hears an answer to x: if it is broadcast, the sockets of its port for any address.
Hearers(x) ==
    IF mode = "unicast" THEN {x} ELSE {y \in Nodes \ Addressed : Port[y] = Port[x]}

\* mutant: the answer is made from the line again, not in the buffer
AnswerAnew(s, x, text, rest) ==
    LET answer == [text EXCEPT !.oks = 1] IN
    /\ buf' = [buf EXCEPT ![s] = answer]
    /\ net' = rest \cup {Datagram(s, y, answer) : y \in Hearers(x)}

\* The text in the buffer gets an ":OK" and is sent.
Answer(s, x, text, rest) ==
    LET answer == [text EXCEPT !.oks = @ + 1] IN
    /\ text.oks < MaxOks
    /\ buf' = [buf EXCEPT ![s] = answer]
    /\ net' = rest \cup {Datagram(s, y, answer) : y \in Hearers(x)}

Serve(s) ==
    /\ s \notin ended
    /\ \E d \in For(s) : \E rest \in Rests(d) :
           /\ Comes(d, rest)
           /\ from' = [from EXCEPT ![s] = d.src]
           /\ IF FromOneself(s, d.src)
              THEN buf' = [buf EXCEPT ![s] = d.text] /\ net' = rest
              ELSE Answer(s, d.src, d.text, rest)
    /\ UNCHANGED <<inputVars, loopVars, fixed, ended, clientVars, lost, errors>>

\* recvfrom() fails, and the loop goes on with what the call before left: it answers again.
\* (After none it sends to an address that was never set: sendto() may fail or not.)
ServeAgain(s) ==
    /\ s \notin ended
    /\ Fails
    /\ IF from[s] = Nobody \/ FromOneself(s, from[s])
       THEN UNCHANGED <<buf, net>>
       ELSE Answer(s, from[s], buf[s], net)
    /\ UNCHANGED <<inputVars, loopVars, fixed, from, ended, clientVars, lost, dups>>

\* sendto() fails, or GetAddress(), which returns a number that was never set; or the
\* write to buf[-1] after a failing recvfrom() destroyed something.
ServerEnds(s) ==
    /\ s \notin ended
    /\ Fails
    /\ ended' = ended \cup {s}
    /\ \/ UNCHANGED <<net, lost>>
       \/ \E d \in For(s) : net' = net \ {d} /\ lost' = lost \cup {d.text.line}
    /\ UNCHANGED <<inputVars, loopVars, fixed, dups, buf, from, clientVars>>

---------------------------------------------------------------------------
(* send_recv_loop() of the clients                                         *)

\* mutant: the socket is missing from the mask
WaitDeaf(u) ==
    /\ Select(u, FALSE)
    /\ UNCHANGED <<inputVars, fixed, net, serverVars, clientVars, lost, dups, errors>>

Wait(u) ==
    /\ Select(u, For(u) # {} \/ refused[u])
    /\ UNCHANGED <<inputVars, fixed, net, serverVars, clientVars, lost, dups, errors>>

Receive(u) ==
    /\ pc[u] = "soc" /\ ~refused[u]
    /\ \E d \in For(u) : \E rest \in Rests(d) :
           /\ Comes(d, rest)
           /\ net' = rest
           /\ shown' = [shown EXCEPT ![u] = @ \cup {<<d.src, d.text>>}]
           /\ twice' = (twice \/ <<d.src, d.text>> \in shown[u])
    /\ SocDone(u)
    /\ UNCHANGED <<inputVars, fixed, serverVars, refused, lost, errors>>

ReadLine(u) ==
    /\ Fgets(u) \/ EndOfInput(u)
    /\ UNCHANGED <<inputVars, fixed, net, serverVars, clientVars, lost, dups, errors>>

Targets == IF how = "all" THEN Servers ELSE {Home}

\* Where no server is left the datagram is dropped, or refused if the socket is connected.
Send(u) ==
    /\ pc[u] = "send" /\ ~refused[u]
    /\ net' = net \cup {Datagram(u, s, Line(u, taken[u])) : s \in Targets \ ended}
    /\ refused' = [refused EXCEPT ![u] = how = "connected" /\ Home \in ended]
    /\ Goto(u, "select")
    /\ UNCHANGED <<buffered, taken, ready, inputVars, fixed, serverVars, shown, twice,
                   lost, dups, errors>>

\* The line does not begin with "host:port", or the host is not known: it is left out.
SkipLine(u) ==
    /\ pc[u] = "send" /\ how # "connected"
    /\ Fails
    /\ lost' = lost \cup {<<u, taken[u]>>}
    /\ Goto(u, "select")
    /\ UNCHANGED <<buffered, taken, ready, inputVars, fixed, net, dups, serverVars, clientVars>>

\* recvfrom() or sendto() fails, because an earlier datagram was refused or otherwise.
SocFails(u) ==
    /\ pc[u] \in {"soc", "send"}
    /\ \/ refused[u] /\ UNCHANGED errors
       \/ ~refused[u] /\ Fails
    /\ Goto(u, "ended")
    /\ UNCHANGED <<buffered, taken, ready, inputVars, fixed, net, serverVars, clientVars,
                   lost, dups>>

Loop(u) == Wait(u) \/ Receive(u) \/ ReadLine(u) \/ Send(u)

\* The loops differ in whom they send to, and a connected socket may be refused.
SendToOne(u) == how = "one" /\ Loop(u)
SendToAll(u) == how = "all" /\ Loop(u)
SendConnected(u) == how = "connected" /\ (Loop(u) \/ (refused[u] /\ SocFails(u)))
Client(u) == SendToOne(u) \/ SendToAll(u) \/ SendConnected(u)

Next ==
    \/ Lose
    \/ \E s \in Servers : Serve(s) \/ ServeAgain(s) \/ ServerEnds(s)
    \/ \E u \in Clients : Client(u) \/ SkipLine(u) \/ SocFails(u)

\* The programs run, but no call need fail.
Fairness ==
    /\ \A s \in Servers : WF_vars(Serve(s))
    /\ \A u \in Clients : WF_vars(Client(u))

Spec == Init /\ [][Next]_vars /\ Fairness

---------------------------------------------------------------------------
(* Properties                                                              *)

TypeOK ==
    /\ LoopTypeOK
    /\ how \in {"one", "all", "connected"} /\ mode \in {"unicast", "broadcast"} /\ knows \in BOOLEAN
    /\ net \subseteq [src : Nodes, dst : Nodes, text : [line : Clients \X (Nat \ {0}), oks : Nat]]
    /\ from \in [Servers -> Nodes \cup {Nobody}]
    /\ ended \subseteq Servers
    /\ refused \in [Clients -> BOOLEAN] /\ twice \in BOOLEAN

\* Whatever is lost, comes twice or fails, a client is shown answers to lines of its own
\* only: the text in a server's buffer and the address beside it are always of the same
\* datagram.  Where the servers broadcast it hears those to clients of its port, too.
AnswersAreOwn ==
    \A u \in Clients : \A a \in shown[u] :
        LET v == a[2].line[1] IN v = u \/ (mode = "broadcast" /\ Port[v] = Port[u])

\* When a client has the servers' port, broadcasting servers hear each other's answers
\* and answer them, each of them and without end.
PortsApart == \A u \in Clients, s \in Servers : Port[u] # Port[s]
ServersApart == mode = "unicast" \/ PortsApart

\* Nothing is shown twice unless the network has delivered something twice: when a failing
\* recvfrom() has a server answer again, the second answer differs by another ":OK".
ShownOnce == ServersApart /\ twice => dups > 0

\* An answer carries one ":OK", and one more for each call that failed.
AnswersDoNotGrow == ServersApart => \A d \in net : d.text.oks <= 1 + errors

\* Both: failures and the network apart, a line has one answer, and it is of one kind.
OneAnswerEach == ShownOnce /\ AnswersDoNotGrow

\* A line that is read is shown by its client with an ":OK", unless it or its answer was
\* lost, it is in a server that has ended, or the client has ended.  Of a broadcasting
\* server a client has no answer that is ignored as the server itself, that has the
\* servers' port, or whose socket has an address of its own.
IsShown(u, n) == \E a \in shown[u] : a[2].line = <<u, n>> /\ a[2].oks >= 1
Excused(u, n) ==
    \/ <<u, n>> \in lost
    \/ \E s \in Targets : s \in ended \/ FromOneself(s, u)
    \/ pc[u] = "ended"
    \/ mode = "broadcast" /\ (~PortsApart \/ u \in Addressed)
LineIsAnswered ==
    \A u \in Clients : \A n \in 1 .. MaxTyped[u] :
        (taken[u] >= n) ~> (IsShown(u, n) \/ Excused(u, n))
=============================================================================
