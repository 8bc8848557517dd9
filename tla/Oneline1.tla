------------------------------ MODULE Oneline1 ------------------------------
(***************************************************************************)
(* chapter06/oneline1.c: epoll and many connections, one byte per event.   *)
(* A line is collected in g_buf, one array per descriptor, over as many    *)
(* events as it has bytes.  Only the first byte says that no line has been *)
(* begun; what a line leaves behind stays where it is, also when the       *)
(* descriptor is handed out again.                                         *)
(*                                                                         *)
(* The calls of one event are one step: nothing but their results depends  *)
(* on the clients.  SIGPIPE, which ends the program, is left out.          *)
(***************************************************************************)
EXTENDS LineBytes

VARIABLES
    pcl,        \* where the loop is
    open,       \* descriptors open on connections
    count,      \* the code's count of them
    events,     \* the events of the batch that have not been looked at
    g_buf,      \* g_buf[f][i]: the bytes of the line of descriptor f
    g_pos,      \* g_pos[f]: where its next byte goes
    heard,      \* history: the bytes received on f since its last reply
    ended,      \* descriptors on which recv() has returned 0
    reply       \* history: the last reply of the batch, and what it answers

loopVars == <<pcl, open, count, events>>
bufVars == <<g_buf, g_pos, heard, ended>>
vars1 == <<loopVars, bufVars, reply>>

Soc == 0                    \* the listening socket
Fds == 1 .. MAX_CHILD       \* one more than the connections that are kept
Places == 0 .. (FIXED_BUFFER_SIZE - 1)
FreeFds == Fds \ open

\* What "%s" prints of the array a, cut before the first line end.
CString(a) ==
    LET stops == {i \in Places : a[i] \in {NUL, NL}}
        stop == CHOOSE i \in stops : \A j \in stops : i <= j
    IN [k \in 1 .. stop |-> a[k - 1]]

\* The line s without its line end.
Text(s) == IF LastIs(s, NL) THEN SubSeq(s, 1, Len(s) - 1) ELSE s

NoReply == [text |-> <<>>, line |-> <<>>, eof |-> FALSE]

Init1 ==
    /\ pcl = "wait" /\ open = {} /\ count = 0 /\ events = {}
    /\ g_buf = [f \in Fds |-> [i \in Places |-> NUL]]
    /\ g_pos = [f \in Fds |-> 0]
    /\ heard = [f \in Fds |-> <<>>]
    /\ ended = {}
    /\ reply = NoReply

EpollWait ==
    /\ pcl = "wait"
    /\ events' \in SUBSET (open \cup {Soc}) \ {{}}
    /\ pcl' = "scan"
    /\ reply' = NoReply
    /\ UNCHANGED <<open, count, bufVars>>

NextEvent(f) ==
    /\ pcl = "scan"
    /\ f \in events
    /\ events' = events \ {f}

AcceptFails ==
    /\ NextEvent(Soc)
    /\ UNCHANGED <<pcl, open, count, bufVars, reply>>

Full == count + 1 >= MAX_CHILD

\* The connection is closed at once.
AcceptFull ==
    /\ NextEvent(Soc)
    /\ Full
    /\ UNCHANGED <<pcl, open, count, bufVars, reply>>

\* EPOLL_CTL_ADD fails: accept_loop() returns, and the program ends.
AcceptAddFails ==
    /\ NextEvent(Soc)
    /\ ~Full
    /\ pcl' = "return"
    /\ UNCHANGED <<open, count, bufVars, reply>>

\* accept() returns the lowest free descriptor.
AcceptAdd ==
    /\ NextEvent(Soc)
    /\ ~Full
    /\ \E f \in FreeFds :
           /\ \A g \in FreeFds : f <= g
           /\ open' = open \cup {f}
           /\ heard' = [heard EXCEPT ![f] = <<>>]
           /\ ended' = ended \ {f}
    /\ count' = count + 1
    /\ UNCHANGED <<pcl, g_buf, g_pos, reply>>

---------------------------------------------------------------------------
(* recv_one_line_1()                                                       *)

\* mutant: a line is begun where the last one ended
StartAnywhere(f) == g_pos[f]

\* g_pos after the test that begins a line.
Start(f) == IF g_buf[f][0] = NUL THEN 0 ELSE g_pos[f]

IsLine(pos, b) == b = NL \/ pos = FIXED_BUFFER_SIZE - 1

Put(f, b) == [g_buf[f] EXCEPT ![Start(f)] = b]

\* recv() returns the byte b.
Received(f, b) ==
    /\ NextEvent(f)
    /\ f \notin ended
    /\ g_pos' = [g_pos EXCEPT ![f] = Start(f) + 1]
    /\ UNCHANGED ended

\* recv() returns 0.
Eof(f) ==
    /\ NextEvent(f)
    /\ g_pos' = [g_pos EXCEPT ![f] = Start(f)]
    /\ ended' = ended \cup {f}

\* send_recv_1() returns -2: the line goes on.
RecvMore(f, b) ==
    /\ Received(f, b)
    /\ ~IsLine(Start(f) + 1, b)
    /\ g_buf' = [g_buf EXCEPT ![f] = Put(f, b)]
    /\ heard' = [heard EXCEPT ![f] = Append(@, b)]
    /\ UNCHANGED <<pcl, open, count, reply>>

\* The array a after its line was cut and its first byte cleared.
Cleared(a) == [i \in Places |-> IF i = 0 \/ i = Len(CString(a)) THEN NUL ELSE a[i]]

\* The line in a is replied to.
Answer(f, a, line, eof) ==
    /\ reply' = [text |-> CString(a), line |-> line, eof |-> eof]
    /\ heard' = [heard EXCEPT ![f] = <<>>]
    /\ g_buf' = [g_buf EXCEPT ![f] = Cleared(a)]
    /\ UNCHANGED <<pcl, open, count>>

RecvLine(f, b) ==
    /\ Received(f, b)
    /\ IsLine(Start(f) + 1, b)
    /\ Answer(f, Put(f, b), Append(heard[f], b), FALSE)

\* A line has been begun when recv() returns 0: it is replied to.
RecvRest(f) ==
    /\ Start(f) > 0
    /\ Eof(f)
    /\ Answer(f, g_buf[f], heard[f], TRUE)

---------------------------------------------------------------------------
(* send_recv_1() returns -1, and accept_loop() drops the connection        *)

\* mutant: the line that was begun is left in g_buf
DropKeeps(f, a) ==
    /\ open' = open \ {f}
    /\ count' = count - 1
    /\ UNCHANGED <<pcl, g_buf, heard, reply>>

Drop(f, a) ==
    /\ g_buf' = [g_buf EXCEPT ![f] = [a EXCEPT ![0] = NUL]]
    /\ open' = open \ {f}
    /\ count' = count - 1
    /\ UNCHANGED <<pcl, heard, reply>>

HangUp(f) ==
    /\ Start(f) = 0
    /\ Eof(f)
    /\ Drop(f, g_buf[f])

\* recv() returns -1.
RecvFails(f) ==
    /\ NextEvent(f)
    /\ g_pos' = [g_pos EXCEPT ![f] = Start(f)]
    /\ Drop(f, g_buf[f])
    /\ UNCHANGED ended

\* send() returns -1: the line is lost.
SendFails(f, b) ==
    /\ Received(f, b)
    /\ IsLine(Start(f) + 1, b)
    /\ Drop(f, Cleared(Put(f, b)))

RestFails(f) ==
    /\ Start(f) > 0
    /\ Eof(f)
    /\ Drop(f, Cleared(g_buf[f]))

BatchEnds ==
    /\ pcl = "scan"
    /\ events = {}
    /\ pcl' = "wait"
    /\ UNCHANGED <<open, count, events, bufVars, reply>>

SendRecv(f) ==
    \/ \E b \in Bytes : RecvMore(f, b) \/ RecvLine(f, b) \/ SendFails(f, b)
    \/ RecvRest(f) \/ RestFails(f)
    \/ RecvFails(f) \/ HangUp(f)

Next1 ==
    \/ EpollWait
    \/ AcceptFails \/ AcceptFull \/ AcceptAdd \/ AcceptAddFails
    \/ \E f \in Fds : SendRecv(f)
    \/ BatchEnds

Spec1 == Init1 /\ [][Next1]_vars1

---------------------------------------------------------------------------
(* Properties                                                              *)

TypeOK1 ==
    /\ pcl \in {"wait", "scan", "return"}
    /\ open \subseteq Fds
    /\ events \subseteq Fds \cup {Soc}
    /\ g_buf \in [Fds -> [Places -> Bytes \cup {NUL}]]
    /\ g_pos \in [Fds -> Places]
    /\ heard \in [Fds -> Seq(Bytes)]
    /\ ended \subseteq Fds

\* The count is the number of open descriptors, and the events that are left are about
\* open ones, so that no descriptor is closed twice.
CountIsOpen1 ==
    /\ count = Cardinality(open)
    /\ events \subseteq open \cup {Soc}

\* The reply to a line that was ended by a line end, or by the end of the buffer, is
\* that line, though the buffer holds bytes of earlier ones and the descriptor may have
\* been another client's.
LinesEchoed == ~reply.eof => reply.text = Text(reply.line)

\* What "正常終了" (line 216) says of the rest of a connection: it is replied to as any
\* line is.
RestEchoed == reply.text = Text(reply.line)

\* While a line is collected its buffer begins with what was heard of it.
BufferHoldsLine ==
    \A f \in open :
        /\ Start(f) = Len(heard[f])
        /\ \A k \in 1 .. Len(heard[f]) : g_buf[f][k - 1] = heard[f][k]

\* There is always room for one more byte, and the array's last byte stays NUL.
RoomForNul1 ==
    \A f \in Fds :
        /\ Start(f) < FIXED_BUFFER_SIZE - 1
        /\ g_buf[f][FIXED_BUFFER_SIZE - 1] = NUL
=============================================================================
