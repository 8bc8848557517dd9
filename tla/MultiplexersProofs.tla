------------------------- MODULE MultiplexersProofs -------------------------
(***************************************************************************)
(* Proofs about the servers MCMultiplexers puts side by side, for any      *)
(* number of connections and lines, and tables of any size.  Of server9.c  *)
(* the proofs are those of Server9Proofs.                                  *)
(***************************************************************************)
EXTENDS MCMultiplexers, FiniteSetTheorems, SequenceTheorems, TLAPS

---------------------------------------------------------------------------
(* The invariants                                                          *)

Counts == [Conns -> 0 .. MaxLines]
Streams == [Conns -> Seq(Replies)]
Pcs == {"wait", "accept", "scan", "send", "return", "killed"}

\* What the servers of one thread share keeps its types.
Types ==
    /\ phase \in [Conns -> Phases]
    /\ sent \in Counts /\ read \in Counts /\ \A c \in Conns : read[c] <= sent[c]
    /\ out \in Streams /\ got \in Streams
    /\ backlog \in Seq(Conns)
    /\ fdConn \in [Fds -> Conns \cup {NoConn}]
    /\ pc \in Pcs /\ cur \in Fds \cup {Soc} /\ reply \in Replies

\* A connection is in one place only: new, waiting in the listening socket's queue
\* at one position, or open on one descriptor.
OnePlace ==
    /\ \A f, g \in Fds : fdConn[f] # NoConn /\ fdConn[f] = fdConn[g] => f = g
    /\ \A f \in Fds : \A j \in DOMAIN backlog : backlog[j] # fdConn[f]
    /\ \A j, k \in DOMAIN backlog : backlog[j] = backlog[k] => j = k
    /\ \A c \in Conns : phase[c] = "new" =>
           /\ \A f \in Fds : fdConn[f] # c
           /\ \A j \in DOMAIN backlog : backlog[j] # c

\* Who waits has been sent nothing.  What is about to be sent is the reply to a line of
\* the client behind all that were answered.
Faithful ==
    /\ \A c \in Conns : LastReply(c) <= read[c]
    /\ \A c \in Conns : phase[c] = "new" => Sent(c) = <<>>
    /\ \A j \in DOMAIN backlog : Sent(backlog[j]) = <<>>
    /\ pc = "send" =>
           /\ cur \in OpenFds
           /\ reply = [conn |-> fdConn[cur], n |-> reply.n, ok |-> TRUE]
           /\ reply.n \in Nat
           /\ LastReply(fdConn[cur]) < reply.n /\ reply.n <= read[fdConn[cur]]

Shared == Types /\ OnePlace /\ Faithful

\* recv() on f would not block.
Live(f) == f \in OpenFds /\ Readable(fdConn[f])

\* child[] of server2.c and server3.c.  Slots and descriptors are both handed out lowest
\* first, so that slot k can only hold the k-th descriptor.
Slots == 0 .. (MAX_CHILD - 1)
NoFd == -1
Table ==
    /\ child \in [Slots -> Fds \cup {NoFd}] /\ child_no \in Slots
    /\ \A k \in Slots : child[k] = IF FirstFd + k \in OpenFds THEN FirstFd + k ELSE NoFd
    /\ \A k \in Slots : child[k] # NoFd => k < child_no

\* server2.c: what the pass is still to read is readable.
MarkedFrom(m) == \A k \in Slots : k >= m /\ child[k] \in mask => Live(child[k])
SelectInv ==
    /\ Table
    /\ pc \in {"wait", "accept", "scan", "send", "killed"}
    /\ mask \subseteq Fds \cup {Soc} /\ i \in 0 .. MAX_CHILD
    /\ pc = "accept" =>
           /\ shown = Cardinality(OpenFds)
           /\ \A f \in mask \ {Soc} : Live(f)
    /\ pc = "scan" => MarkedFrom(i)
    /\ pc = "send" => i < child_no /\ child[i] = cur /\ MarkedFrom(i + 1)

\* server3.c: the same of targets[], which is as long as the table at most and holds
\* nothing twice.
ReportedFrom(m) == \A k \in DOMAIN targets : k >= m /\ targets[k] \in revents => Live(targets[k])
PollInv ==
    /\ Table
    /\ pc \in {"wait", "accept", "scan", "send", "killed"}
    /\ \E n \in 0 .. child_no : targets \in [1 .. n -> Fds]
    /\ \A j, k \in DOMAIN targets : targets[j] = targets[k] => j = k
    /\ revents \subseteq Fds \cup {Soc} /\ i \in 1 .. MAX_CHILD
    /\ pc = "accept" => \A f \in revents \ {Soc} : Live(f)
    /\ pc = "scan" => ReportedFrom(i)
    /\ pc = "send" => i \in DOMAIN targets /\ targets[i] = cur /\ ReportedFrom(i + 1)

\* server4.c and server-libevent.c: the rest of the batch.
BatchLive ==
    /\ events \subseteq Fds \cup {Soc}
    /\ \A f \in events \ {Soc} : Live(f)
    /\ pc = "send" => cur \notin events

EpollInv ==
    /\ BatchLive
    /\ pc \in {"wait", "scan", "send", "return", "killed"}
    /\ count = Cardinality(OpenFds) /\ count \in 0 .. (MAX_CHILD - 1)

LibeventInv ==
    /\ BatchLive
    /\ pc \in {"wait", "scan", "send", "return", "killed"}
    /\ pc = "wait" => events = {}
    /\ registered \subseteq OpenFds
    /\ ~CtlMayFail => registered = OpenFds

\* The inductive invariant; server9.c has its own.
IInv ==
    /\ which \in Servers
    /\ which # "queue" => Shared
    /\ which = "select" => SelectInv
    /\ which = "poll" => PollInv
    /\ which = "epoll" => EpollInv
    /\ which = "libevent" => LibeventInv

---------------------------------------------------------------------------
(* The servers' instances of OneThread are one                             *)

LEMMA Same2 ==
    /\ S2!Fds = Fds /\ S2!Soc = Soc /\ S2!OpenFds = OpenFds
    /\ S2!OneThreadInit <=> OneThreadInit
    /\ \A S : S2!ReadyOf(S) = ReadyOf(S) /\ (S2!NeverBlocks(S) <=> NeverBlocks(S))
    /\ \A c : S2!AtEnd(c) <=> AtEnd(c)
    /\ \A f : /\ S2!AcceptAs(f) <=> AcceptAs(f)
              /\ S2!CloseFd(f) <=> CloseFd(f)
              /\ S2!RecvLine(f) <=> RecvLine(f)
    /\ S2!AcceptAndClose <=> AcceptAndClose
    /\ S2!ReplySent <=> ReplySent
    /\ S2!ReplyFails <=> ReplyFails
    /\ S2!ReplyKills <=> ReplyKills
    /\ S2!ThreadTypeOK <=> ThreadTypeOK
  BY DEF clientVars, S2!clientVars, threadVars, S2!threadVars, Fds, S2!Fds, Soc, S2!Soc,
         OpenFds, S2!OpenFds, FreeFds, S2!FreeFds, Replies, S2!Replies, NoLine, S2!NoLine,
         OneThreadInit, S2!OneThreadInit, SocketInit, S2!SocketInit, ClientInit,
         S2!ClientInit, ReadyOf, S2!ReadyOf, NeverBlocks, S2!NeverBlocks, AtEnd, S2!AtEnd,
         HasLines, S2!HasLines, Readable, S2!Readable, AcceptAs, S2!AcceptAs, CloseFd,
         S2!CloseFd, HangUpOn, S2!HangUpOn, RecvLine, S2!RecvLine, RecvFrom, S2!RecvFrom,
         FirstLine, S2!FirstLine, TakeLines, S2!TakeLines, AcceptAndClose,
         S2!AcceptAndClose, ReplySent, S2!ReplySent, SendTo, S2!SendTo, Deliver,
         S2!Deliver, Broken, S2!Broken, ReplyFails, S2!ReplyFails, ReplyKills,
         S2!ReplyKills, ThreadTypeOK, S2!ThreadTypeOK

LEMMA Same3 ==
    /\ S3!Fds = Fds /\ S3!Soc = Soc /\ S3!OpenFds = OpenFds
    /\ S3!OneThreadInit <=> OneThreadInit
    /\ \A S : S3!ReadyOf(S) = ReadyOf(S) /\ (S3!NeverBlocks(S) <=> NeverBlocks(S))
    /\ \A c : S3!AtEnd(c) <=> AtEnd(c)
    /\ \A f : /\ S3!AcceptAs(f) <=> AcceptAs(f)
              /\ S3!CloseFd(f) <=> CloseFd(f)
              /\ S3!RecvLine(f) <=> RecvLine(f)
    /\ S3!AcceptAndClose <=> AcceptAndClose
    /\ S3!ReplySent <=> ReplySent
    /\ S3!ReplyFails <=> ReplyFails
    /\ S3!ReplyKills <=> ReplyKills
    /\ S3!ThreadTypeOK <=> ThreadTypeOK
  BY DEF clientVars, S3!clientVars, threadVars, S3!threadVars, Fds, S3!Fds, Soc, S3!Soc,
         OpenFds, S3!OpenFds, FreeFds, S3!FreeFds, Replies, S3!Replies, NoLine, S3!NoLine,
         OneThreadInit, S3!OneThreadInit, SocketInit, S3!SocketInit, ClientInit,
         S3!ClientInit, ReadyOf, S3!ReadyOf, NeverBlocks, S3!NeverBlocks, AtEnd, S3!AtEnd,
         HasLines, S3!HasLines, Readable, S3!Readable, AcceptAs, S3!AcceptAs, CloseFd,
         S3!CloseFd, HangUpOn, S3!HangUpOn, RecvLine, S3!RecvLine, RecvFrom, S3!RecvFrom,
         FirstLine, S3!FirstLine, TakeLines, S3!TakeLines, AcceptAndClose,
         S3!AcceptAndClose, ReplySent, S3!ReplySent, SendTo, S3!SendTo, Deliver,
         S3!Deliver, Broken, S3!Broken, ReplyFails, S3!ReplyFails, ReplyKills,
         S3!ReplyKills, ThreadTypeOK, S3!ThreadTypeOK

LEMMA Same4 ==
    /\ S4!Fds = Fds /\ S4!Soc = Soc /\ S4!OpenFds = OpenFds
    /\ S4!OneThreadInit <=> OneThreadInit
    /\ \A S : S4!ReadyOf(S) = ReadyOf(S) /\ (S4!NeverBlocks(S) <=> NeverBlocks(S))
    /\ \A c : S4!AtEnd(c) <=> AtEnd(c)
    /\ \A f : /\ S4!AcceptAs(f) <=> AcceptAs(f)
              /\ S4!CloseFd(f) <=> CloseFd(f)
              /\ S4!RecvLine(f) <=> RecvLine(f)
    /\ S4!AcceptAndClose <=> AcceptAndClose
    /\ S4!ReplySent <=> ReplySent
    /\ S4!ReplyFails <=> ReplyFails
    /\ S4!ReplyKills <=> ReplyKills
    /\ S4!ThreadTypeOK <=> ThreadTypeOK
  BY DEF clientVars, S4!clientVars, threadVars, S4!threadVars, Fds, S4!Fds, Soc, S4!Soc,
         OpenFds, S4!OpenFds, FreeFds, S4!FreeFds, Replies, S4!Replies, NoLine, S4!NoLine,
         OneThreadInit, S4!OneThreadInit, SocketInit, S4!SocketInit, ClientInit,
         S4!ClientInit, ReadyOf, S4!ReadyOf, NeverBlocks, S4!NeverBlocks, AtEnd, S4!AtEnd,
         HasLines, S4!HasLines, Readable, S4!Readable, AcceptAs, S4!AcceptAs, CloseFd,
         S4!CloseFd, HangUpOn, S4!HangUpOn, RecvLine, S4!RecvLine, RecvFrom, S4!RecvFrom,
         FirstLine, S4!FirstLine, TakeLines, S4!TakeLines, AcceptAndClose,
         S4!AcceptAndClose, ReplySent, S4!ReplySent, SendTo, S4!SendTo, Deliver,
         S4!Deliver, Broken, S4!Broken, ReplyFails, S4!ReplyFails, ReplyKills,
         S4!ReplyKills, ThreadTypeOK, S4!ThreadTypeOK

LEMMA SameL ==
    /\ SL!Fds = Fds /\ SL!Soc = Soc /\ SL!OpenFds = OpenFds
    /\ SL!OneThreadInit <=> OneThreadInit
    /\ \A S : SL!ReadyOf(S) = ReadyOf(S) /\ (SL!NeverBlocks(S) <=> NeverBlocks(S))
    /\ \A c : SL!AtEnd(c) <=> AtEnd(c)
    /\ \A f : /\ SL!AcceptAs(f) <=> AcceptAs(f)
              /\ SL!CloseFd(f) <=> CloseFd(f)
              /\ SL!RecvLine(f) <=> RecvLine(f)
    /\ SL!AcceptAndClose <=> AcceptAndClose
    /\ SL!ReplySent <=> ReplySent
    /\ SL!ReplyFails <=> ReplyFails
    /\ SL!ReplyKills <=> ReplyKills
    /\ SL!ThreadTypeOK <=> ThreadTypeOK
  BY DEF clientVars, SL!clientVars, threadVars, SL!threadVars, Fds, SL!Fds, Soc, SL!Soc,
         OpenFds, SL!OpenFds, FreeFds, SL!FreeFds, Replies, SL!Replies, NoLine, SL!NoLine,
         OneThreadInit, SL!OneThreadInit, SocketInit, SL!SocketInit, ClientInit,
         SL!ClientInit, ReadyOf, SL!ReadyOf, NeverBlocks, SL!NeverBlocks, AtEnd, SL!AtEnd,
         HasLines, SL!HasLines, Readable, SL!Readable, AcceptAs, SL!AcceptAs, CloseFd,
         SL!CloseFd, HangUpOn, SL!HangUpOn, RecvLine, SL!RecvLine, RecvFrom, SL!RecvFrom,
         FirstLine, SL!FirstLine, TakeLines, SL!TakeLines, AcceptAndClose,
         SL!AcceptAndClose, ReplySent, SL!ReplySent, SendTo, SL!SendTo, Deliver,
         SL!Deliver, Broken, SL!Broken, ReplyFails, SL!ReplyFails, ReplyKills,
         SL!ReplyKills, ThreadTypeOK, SL!ThreadTypeOK

---------------------------------------------------------------------------
(* What a step does to the connections, whichever server takes it          *)

Looks ==
    /\ UNCHANGED <<clientVars, fdConn, cur, reply>>
    /\ pc' \in Pcs \ {"send"}
Refuses == AcceptAndClose /\ UNCHANGED <<cur, reply>> /\ pc' \in Pcs \ {"send"}
Takes(f) == AcceptAs(f) /\ UNCHANGED <<cur, reply>> /\ pc' \in Pcs \ {"send"}
Receives(f) == RecvLine(f) /\ f \in Fds /\ Live(f)
Drops(f) ==
    /\ CloseFd(f) /\ f \in OpenFds /\ phase[fdConn[f]] = "closed"
    /\ cur' \in Fds \cup {Soc} /\ reply' \in {reply, NoLine} /\ pc' \in Pcs \ {"send"}
Ends ==
    /\ phase' = [c \in Conns |-> IF phase[c] = "up" THEN "hungup" ELSE phase[c]]
    /\ fdConn' = [f \in Fds |-> NoConn]
    /\ UNCHANGED <<sent, read, out, got, reset, backlog, cur, reply>>
    /\ pc' = "return"
AClient == (\E c \in Conns : Client(c)) /\ UNCHANGED <<fdConn, threadVars>>
Unchanged == UNCHANGED <<clientVars, fdConn, threadVars>>

Kinds ==
    \/ Looks \/ Refuses \/ ReplySent \/ AClient \/ Unchanged
    \/ \E f \in Fds : Takes(f) \/ Receives(f) \/ Drops(f)

LEMMA FdsFacts ==
    /\ IsFiniteSet(Fds)
    /\ \A f \in Fds : f \in Nat /\ f # Soc
    /\ \A f : f \in Fds <=> \E k \in Slots : f = FirstFd + k
    /\ \A k \in Slots : k \in Nat /\ FirstFd + k \in Fds /\ FirstFd + k - FirstFd = k
<1>1. FirstFd \in Nat /\ FirstFd + MAX_CHILD - 1 \in Int /\ MAX_CHILD \in Nat
  BY SocketAssumption
<1>2. IsFiniteSet(Fds)
  BY <1>1, FS_Interval DEF Fds
<1>3. \A f \in Fds : f \in Nat /\ f # Soc
  BY SocketAssumption DEF Fds, Soc
<1>4. ASSUME NEW f \in Fds PROVE f - FirstFd \in Slots /\ f = FirstFd + (f - FirstFd)
  BY <1>1 DEF Fds, Slots
<1>5. \A k \in Slots : k \in Nat /\ FirstFd + k \in Fds /\ FirstFd + k - FirstFd = k
  BY <1>1 DEF Fds, Slots
<1>6. QED
  BY <1>2, <1>3, <1>4, <1>5

LEMMA OpenFinite == OpenFds \subseteq Fds /\ IsFiniteSet(OpenFds) /\ Cardinality(OpenFds) \in Nat
<1>1. OpenFds \subseteq Fds
  BY DEF OpenFds
<1>2. IsFiniteSet(OpenFds)
  BY <1>1, FdsFacts, FS_Subset
<1>3. QED
  BY <1>1, <1>2, FS_CardinalityType

LEMMA NoLineIsReply == NoLine \in Replies
  BY ClientAssumption DEF NoLine, Replies

\* accept() takes the head of the queue; what is left stays in its order.
LEMMA QueueHead ==
    ASSUME backlog \in Seq(Conns), backlog # << >>, backlog' = Tail(backlog)
    PROVE  /\ Head(backlog) \in Conns /\ Head(backlog) # NoConn
           /\ Head(backlog) = backlog[1] /\ 1 \in DOMAIN backlog
           /\ backlog' \in Seq(Conns)
           /\ \A j \in DOMAIN backlog' :
                 j + 1 \in DOMAIN backlog /\ backlog'[j] = backlog[j + 1] /\ j \in Nat \ {0}
<1>1. Len(backlog) \in Nat \ {0} /\ DOMAIN backlog = 1 .. Len(backlog)
  BY LenProperties, EmptySeq
<1>2. Head(backlog) \in Conns /\ Head(backlog) = backlog[1] /\ Head(backlog) # NoConn
  BY ClientAssumption
<1>3. /\ Tail(backlog) \in Seq(Conns)
      /\ Len(Tail(backlog)) = Len(backlog) - 1
      /\ \A j \in 1 .. Len(Tail(backlog)) : Tail(backlog)[j] = backlog[j + 1]
  BY HeadTailProperties
<1>4. DOMAIN Tail(backlog) = 1 .. Len(Tail(backlog))
  BY <1>3, LenProperties
<1>5. QED
  BY <1>1, <1>2, <1>3, <1>4

\* A connection that joins the queue takes none out.
LEMMA ConnectQueues ==
    ASSUME backlog \in Seq(Conns), NEW c \in Conns, Connect(c)
    PROVE  /\ backlog' \in Seq(Conns)
           /\ \A j \in DOMAIN backlog' :
                 \/ j \in DOMAIN backlog /\ backlog'[j] = backlog[j]
                 \/ j = Len(backlog) + 1 /\ backlog'[j] = c
<1>1. backlog' = Append(backlog, c)
  BY DEF Connect
<1>2. /\ backlog' \in Seq(Conns)
      /\ Len(backlog') = Len(backlog) + 1
      /\ \A j \in 1 .. Len(backlog) : backlog'[j] = backlog[j]
      /\ backlog'[Len(backlog) + 1] = c
  BY <1>1, AppendProperties
<1>3. /\ DOMAIN backlog = 1 .. Len(backlog) /\ DOMAIN backlog' = 1 .. Len(backlog')
      /\ Len(backlog) \in Nat
  BY <1>2, LenProperties
<1>4. QED
  BY <1>2, <1>3

LEMMA CountFacts == \A m \in Counts : \A c \in Conns : m[c] \in Nat /\ m[c] <= m[c]
<1> SUFFICES ASSUME NEW m \in Counts, NEW c \in Conns PROVE m[c] \in Nat /\ m[c] <= m[c]
  OBVIOUS
<1>1. m[c] \in 0 .. MaxLines
  BY DEF Counts
<1>2. QED
  BY <1>1, ClientAssumption

\* What the server has open is open on a connection.
LEMMA OpenConn ==
    ASSUME Types, NEW f \in OpenFds
    PROVE  f \in Fds /\ fdConn[f] \in Conns /\ fdConn[f] # NoConn
  BY DEF Types, OpenFds

---------------------------------------------------------------------------
(* Types                                                                   *)

LEMMA ClientTypes ==
    ASSUME Types, NEW c \in Conns, Client(c)
    PROVE  /\ phase' \in [Conns -> Phases]
           /\ sent' \in Counts /\ read' = read /\ \A d \in Conns : read'[d] <= sent'[d]
           /\ out' \in Streams /\ got' \in Streams
           /\ backlog' \in Seq(Conns)
<1>1. /\ phase \in [Conns -> Phases]
      /\ read \in Counts /\ sent \in Counts /\ \A d \in Conns : read[d] <= sent[d]
      /\ out \in Streams /\ got \in Streams /\ backlog \in Seq(Conns)
  BY DEF Types
<1>2. CASE Connect(c)
  <2>1. backlog' \in Seq(Conns)
    BY <1>1, <1>2, ConnectQueues
  <2>2. QED
    BY <1>1, <1>2, <2>1 DEF Connect, Phases
<1>3. CASE SendLine(c)
  <2>1. /\ sent' = [sent EXCEPT ![c] = @ + 1] /\ sent[c] < MaxLines
        /\ UNCHANGED <<phase, read, out, got, backlog>>
    BY <1>3 DEF SendLine
  <2>2. sent[c] \in Nat /\ read[c] \in Nat /\ read[c] <= sent[c] /\ MaxLines \in Nat
    BY <1>1, ClientAssumption DEF Counts
  <2>3. sent[c] + 1 \in 0 .. MaxLines /\ read[c] <= sent[c] + 1
    BY <2>1, <2>2
  <2>4. sent' \in Counts /\ \A d \in Conns : read[d] <= sent'[d]
    BY <1>1, <2>1, <2>3 DEF Counts
  <2>5. QED
    BY <1>1, <2>1, <2>4
<1>4. CASE ReadReply(c)
  <2>1. /\ got' = [got EXCEPT ![c] = Append(@, Head(out[c]))]
        /\ out' = [out EXCEPT ![c] = Tail(@)] /\ out[c] # << >>
        /\ UNCHANGED <<phase, sent, read, backlog>>
    BY <1>4 DEF ReadReply
  <2>2. out[c] \in Seq(Replies) /\ got[c] \in Seq(Replies)
    BY <1>1 DEF Streams
  <2>3. Append(got[c], Head(out[c])) \in Seq(Replies) /\ Tail(out[c]) \in Seq(Replies)
    BY <2>1, <2>2
  <2>4. out' \in Streams /\ got' \in Streams
    BY <1>1, <2>1, <2>3 DEF Streams
  <2>5. QED
    BY <1>1, <2>1, <2>4
<1>5. CASE CloseConn(c)
  BY <1>1, <1>5 DEF CloseConn, Phases
<1>6. QED
  BY <1>2, <1>3, <1>4, <1>5 DEF Client

\* recv() takes lines the client has sent; the first of them becomes the reply.
LEMMA Receiving ==
    ASSUME Types, NEW f \in Fds, Receives(f)
    PROVE  LET c == fdConn[f] IN
           /\ f \in OpenFds /\ c \in Conns
           /\ \E k \in 1 .. (sent[c] - read[c]) : read' = [read EXCEPT ![c] = @ + k]
           /\ read' \in Counts /\ \A d \in Conns : read[d] <= read'[d] /\ read'[d] <= sent[d]
           /\ read[c] + 1 <= read'[c]
           /\ reply' = [conn |-> c, n |-> read[c] + 1, ok |-> TRUE] /\ reply' \in Replies
           /\ cur' = f /\ pc' = "send"
           /\ UNCHANGED <<phase, sent, out, got, reset, backlog, fdConn>>
<1> DEFINE c == fdConn[f]
<1>1. f \in OpenFds /\ c \in Conns
  BY OpenConn DEF Receives, Live
<1>2. PICK k \in 1 .. (sent[c] - read[c]) : read' = [read EXCEPT ![c] = @ + k]
  BY DEF Receives, RecvLine, RecvFrom, TakeLines
<1>3. /\ sent \in Counts /\ read \in Counts /\ \A d \in Conns : read[d] <= sent[d]
      /\ MaxLines \in Nat
  BY ClientAssumption DEF Types
<1>4. /\ sent[c] \in 0 .. MaxLines /\ read[c] \in 0 .. MaxLines /\ read[c] <= sent[c]
  BY <1>1, <1>3 DEF Counts
<1>5. /\ read[c] + k \in 0 .. MaxLines /\ read[c] + 1 \in 0 .. MaxLines
      /\ read[c] <= read[c] + k /\ read[c] + k <= sent[c] /\ read[c] + 1 <= read[c] + k
  BY <1>2, <1>3, <1>4
<1>6. read'[c] = read[c] + k /\ \A d \in Conns : d # c => read'[d] = read[d]
  BY <1>1, <1>2, <1>3 DEF Counts
<1>7. /\ read' \in Counts
      /\ \A d \in Conns : read[d] <= read'[d] /\ read'[d] <= sent[d]
  <2>1. \A d \in Conns : read[d] <= read[d]
    BY <1>3, CountFacts
  <2>2. read' \in Counts
    BY <1>2, <1>3, <1>5 DEF Counts
  <2>3. ASSUME NEW d \in Conns PROVE read[d] <= read'[d] /\ read'[d] <= sent[d]
    <3>1. CASE d = c
      BY <1>5, <1>6, <3>1
    <3>2. CASE d # c
      BY <1>3, <1>6, <2>1, <3>2
    <3>3. QED
      BY <3>1, <3>2
  <2>4. QED
    BY <2>2, <2>3
<1>8. reply' = [conn |-> c, n |-> read[c] + 1, ok |-> TRUE]
  BY DEF Receives, RecvLine, FirstLine
<1>9. reply' \in Replies
  BY <1>1, <1>5, <1>8 DEF Replies
<1>10. QED
  BY <1>1, <1>2, <1>5, <1>6, <1>7, <1>8, <1>9 DEF Receives, RecvLine, RecvFrom

\* send() puts the reply behind those the client has not read, or the client is gone.
LEMMA Sending ==
    ASSUME Types, ReplySent, cur \in OpenFds
    PROVE  LET c == fdConn[cur] IN
           /\ cur \in Fds /\ c \in Conns /\ pc = "send"
           /\ \/ phase[c] = "up" /\ out' = [out EXCEPT ![c] = Append(@, reply)]
              \/ UNCHANGED out
           /\ out' \in Streams
           /\ pc' = "scan" /\ cur' = Soc /\ reply' = NoLine
           /\ UNCHANGED <<phase, sent, read, got, backlog, fdConn>>
<1> DEFINE c == fdConn[cur]
<1>1. cur \in Fds /\ c \in Conns
  BY OpenConn
<1>2. /\ out \in Streams /\ reply \in Replies
  BY DEF Types
<1>3. out[c] \in Seq(Replies)
  BY <1>1, <1>2 DEF Streams
<1>4. Append(out[c], reply) \in Seq(Replies)
  BY <1>2, <1>3
<1>5. \/ phase[c] = "up" /\ out' = [out EXCEPT ![c] = Append(@, reply)]
      \/ UNCHANGED out
  BY DEF ReplySent, SendTo, Deliver
<1>6. out' \in Streams
  BY <1>2, <1>4, <1>5 DEF Streams
<1>7. QED
  BY <1>1, <1>5, <1>6 DEF ReplySent, SendTo

\* The server closes a connection only after its client has: nothing changes for it.
LEMMA DropKeepsClients ==
    ASSUME Types, NEW f \in Fds, Drops(f)
    PROVE  /\ UNCHANGED <<phase, sent, read, out, got, reset, backlog>>
           /\ fdConn' = [fdConn EXCEPT ![f] = NoConn]
<1>1. /\ phase' = [phase EXCEPT ![fdConn[f]] = IF @ = "up" THEN "hungup" ELSE @]
      /\ phase[fdConn[f]] = "closed" /\ phase \in [Conns -> Phases]
  BY DEF Drops, CloseFd, HangUpOn, Types
<1>2. phase' = phase
  BY <1>1
<1>3. QED
  BY <1>2 DEF Drops, CloseFd

LEMMA TypesStep ==
    ASSUME Shared, Kinds \/ Ends PROVE Types'
<1> USE DEF Shared
<1>1. CASE Looks \/ Unchanged
  BY <1>1 DEF Looks, Unchanged, Types, clientVars, threadVars
<1>2. CASE Refuses
  <2>1. backlog' \in Seq(Conns)
    BY <1>2, QueueHead DEF Refuses, AcceptAndClose, Types
  <2>2. phase' \in [Conns -> Phases]
    BY <1>2 DEF Refuses, AcceptAndClose, HangUpOn, Types, Phases
  <2>3. QED
    BY <1>2, <2>1, <2>2 DEF Refuses, AcceptAndClose, Types
<1>3. ASSUME NEW f \in Fds, Takes(f) PROVE Types'
  <2>1. backlog' \in Seq(Conns) /\ Head(backlog) \in Conns
    BY <1>3, QueueHead DEF Takes, AcceptAs, Types
  <2>2. fdConn' \in [Fds -> Conns \cup {NoConn}]
    BY <1>3, <2>1 DEF Takes, AcceptAs, Types
  <2>3. QED
    BY <1>3, <2>1, <2>2 DEF Takes, AcceptAs, Types
<1>4. ASSUME NEW f \in Fds, Receives(f) PROVE Types'
  BY <1>4, Receiving DEF Types, Pcs
<1>5. CASE ReplySent
  <2>1. cur \in OpenFds
    BY <1>5 DEF ReplySent, Faithful
  <2>2. QED
    BY <1>5, <2>1, Sending, NoLineIsReply DEF Types, Pcs
<1>6. ASSUME NEW f \in Fds, Drops(f) PROVE Types'
  <2>1. fdConn' \in [Fds -> Conns \cup {NoConn}]
    BY <1>6, DropKeepsClients DEF Types
  <2>2. QED
    BY <1>6, <2>1, DropKeepsClients, NoLineIsReply DEF Drops, Types
<1>7. CASE AClient
  BY <1>7, ClientTypes DEF AClient, Types, threadVars
<1>8. CASE Ends
  BY <1>8 DEF Ends, Types, Phases, Pcs
<1>9. QED
  BY <1>1, <1>2, <1>3, <1>4, <1>5, <1>6, <1>7, <1>8 DEF Kinds

---------------------------------------------------------------------------
(* Connections and descriptors                                             *)

LEMMA OnePlaceStep ==
    ASSUME Shared, Kinds \/ Ends PROVE OnePlace'
<1> USE DEF Shared
<1>0. phase \in [Conns -> Phases] /\ backlog \in Seq(Conns)
  BY DEF Types
<1>1. ASSUME UNCHANGED <<phase, backlog, fdConn>> PROVE OnePlace'
  BY <1>1 DEF OnePlace
<1>2. CASE Refuses
  <2>1. /\ backlog # << >> /\ backlog' = Tail(backlog) /\ UNCHANGED fdConn
        /\ phase' = [phase EXCEPT ![Head(backlog)] = IF @ = "up" THEN "hungup" ELSE @]
    BY <1>2 DEF Refuses, AcceptAndClose, HangUpOn
  <2>2. \A c \in Conns : phase'[c] = "new" => phase[c] = "new"
    BY <1>0, <2>1
  <2>3. QED
    BY <1>0, <2>1, <2>2, QueueHead DEF OnePlace
<1>3. ASSUME NEW f \in Fds, Takes(f) PROVE OnePlace'
  <2>1. /\ backlog # << >> /\ backlog' = Tail(backlog) /\ UNCHANGED phase
        /\ fdConn' = [fdConn EXCEPT ![f] = Head(backlog)]
    BY <1>3 DEF Takes, AcceptAs
  <2>2. \A g \in Fds : fdConn'[g] = IF g = f THEN Head(backlog) ELSE fdConn[g]
    BY <2>1 DEF Types
  <2>3. \A g, h \in Fds : fdConn'[g] # NoConn /\ fdConn'[g] = fdConn'[h] => g = h
    BY <1>0, <2>1, <2>2, QueueHead DEF OnePlace
  <2>4. \A g \in Fds : \A j \in DOMAIN backlog' : backlog'[j] # fdConn'[g]
    BY <1>0, <2>1, <2>2, QueueHead DEF OnePlace
  <2>5. QED
    BY <1>0, <2>1, <2>2, <2>3, <2>4, QueueHead DEF OnePlace
<1>4. ASSUME NEW f \in Fds, Drops(f) PROVE OnePlace'
  <2>1. fdConn' = [fdConn EXCEPT ![f] = NoConn] /\ UNCHANGED <<phase, backlog>>
    BY <1>4, DropKeepsClients
  <2>2. \A g \in Fds : fdConn'[g] = IF g = f THEN NoConn ELSE fdConn[g]
    BY <2>1 DEF Types
  <2>3. \A j \in DOMAIN backlog : backlog[j] # NoConn
    BY <1>0, ClientAssumption
  <2>4. QED
    BY <2>1, <2>2, <2>3, ClientAssumption DEF OnePlace
<1>5. ASSUME NEW c \in Conns, Connect(c), UNCHANGED fdConn PROVE OnePlace'
  <2>1. /\ phase[c] = "new" /\ phase' = [phase EXCEPT ![c] = "up"]
    BY <1>5 DEF Connect
  <2>2. \A j \in DOMAIN backlog' :
            \/ j \in DOMAIN backlog /\ backlog'[j] = backlog[j]
            \/ j = Len(backlog) + 1 /\ backlog'[j] = c
    BY <1>0, <1>5, ConnectQueues
  <2>3. \A d \in Conns : phase'[d] = "new" => phase[d] = "new" /\ d # c
    BY <1>0, <2>1
  <2>4. QED
    BY <1>5, <2>1, <2>2, <2>3 DEF OnePlace
<1>6. ASSUME NEW c \in Conns, SendLine(c) \/ ReadReply(c) \/ CloseConn(c), UNCHANGED fdConn
      PROVE OnePlace'
  <2>1. UNCHANGED backlog /\ \A d \in Conns : phase'[d] = "new" => phase[d] = "new"
    BY <1>0, <1>6 DEF SendLine, ReadReply, CloseConn
  <2>2. QED
    BY <1>6, <2>1 DEF OnePlace
<1>7. CASE Ends
  <2>1. /\ fdConn' = [f \in Fds |-> NoConn] /\ UNCHANGED backlog
        /\ \A c \in Conns : phase'[c] = "new" => phase[c] = "new"
    BY <1>0, <1>7 DEF Ends
  <2>2. \A j \in DOMAIN backlog : backlog[j] # NoConn
    BY <1>0, ClientAssumption
  <2>3. QED
    BY <2>1, <2>2, ClientAssumption DEF OnePlace
<1>8. CASE Looks \/ Unchanged
  BY <1>1, <1>8 DEF Looks, Unchanged, clientVars
<1>9. CASE ReplySent
  BY <1>1, <1>9 DEF ReplySent, SendTo
<1>10. ASSUME NEW f \in Fds, Receives(f) PROVE OnePlace'
  BY <1>1, <1>10 DEF Receives, RecvLine, RecvFrom
<1>11. QED
  BY <1>2, <1>3, <1>4, <1>5, <1>6, <1>7, <1>8, <1>9, <1>10 DEF Kinds, AClient, Client

\* What the server has open, step by step.
LEMMA OpenStep ==
    ASSUME Types
    PROVE  /\ UNCHANGED fdConn => OpenFds' = OpenFds
           /\ \A f \in Fds : Takes(f) =>
                 /\ OpenFds' = OpenFds \cup {f} /\ f \notin OpenFds
                 /\ \A g \in Fds : g < f => g \in OpenFds
           /\ \A f \in Fds : Drops(f) => OpenFds' = OpenFds \ {f} /\ f \in OpenFds
           /\ Ends => OpenFds' = {}
<1>1. UNCHANGED fdConn => OpenFds' = OpenFds
  BY DEF OpenFds
<1>2. ASSUME NEW f \in Fds, Takes(f)
      PROVE  /\ OpenFds' = OpenFds \cup {f} /\ f \notin OpenFds
             /\ \A g \in Fds : g < f => g \in OpenFds
  <2>1. /\ fdConn' = [fdConn EXCEPT ![f] = Head(backlog)] /\ Head(backlog) # NoConn
        /\ f \in FreeFds /\ \A g \in FreeFds : f <= g
    BY <1>2, QueueHead DEF Takes, AcceptAs, Types
  <2>2. OpenFds' = OpenFds \cup {f}
    BY <2>1 DEF OpenFds, Types
  <2>3. ASSUME NEW g \in Fds, g < f PROVE g \in OpenFds
    BY <2>1, <2>3, FdsFacts DEF FreeFds
  <2>4. QED
    BY <2>1, <2>2, <2>3 DEF FreeFds
<1>3. ASSUME NEW f \in Fds, Drops(f) PROVE OpenFds' = OpenFds \ {f} /\ f \in OpenFds
  BY <1>3 DEF Drops, CloseFd, OpenFds, Types
<1>4. Ends => OpenFds' = {}
  BY DEF Ends, OpenFds
<1>5. QED
  BY <1>1, <1>2, <1>3, <1>4

\* What is readable stays so until the server reads or closes it.
LEMMA StillLive ==
    ASSUME Shared, Kinds, NEW g \in Fds, Live(g), ~Receives(g), ~Drops(g)
    PROVE  Live(g)'
<1> DEFINE c == fdConn[g]
<1>0. /\ Types /\ c \in Conns /\ c # NoConn
      /\ HasLines(c) \/ phase[c] = "closed"
      /\ phase \in [Conns -> Phases] /\ sent \in Counts /\ read \in Counts
  BY OpenConn DEF Shared, Live, Types, Readable
<1>n. \A m \in Counts : m[c] \in Int
  BY <1>0, CountFacts
<1> HIDE DEF c
<1>1. ASSUME fdConn'[g] = c, sent'[c] >= sent[c], read'[c] = read[c],
             phase[c] = "closed" => phase'[c] = "closed"
      PROVE  Live(g)'
  <2>1. sent[c] \in Int /\ read[c] \in Int
    BY <1>0, <1>n
  <2>2. read[c] < sent[c] /\ sent'[c] \in Int => read'[c] < sent'[c]
    BY <1>1, <2>1
  <2>3. Types'
    BY TypesStep
  <2>4. sent'[c] \in Int
    BY <1>n, <2>3 DEF Types
  <2>5. QED
    BY <1>0, <1>1, <2>2, <2>4 DEF c, Live, Readable, HasLines, OpenFds
<1>2. sent[c] >= sent[c]
  BY <1>0, <1>n
<1>3. CASE Looks \/ Unchanged
  BY <1>1, <1>2, <1>3 DEF Looks, Unchanged, clientVars, c
<1>4. CASE Refuses
  <2>1. phase[c] = "closed" => phase'[c] = "closed"
    BY <1>0, <1>4 DEF Refuses, AcceptAndClose, HangUpOn
  <2>2. QED
    BY <1>1, <1>2, <1>4, <2>1 DEF Refuses, AcceptAndClose, c
<1>5. CASE ReplySent
  BY <1>1, <1>2, <1>5 DEF ReplySent, SendTo, c
<1>6. ASSUME NEW f \in Fds, Takes(f) PROVE Live(g)'
  <2>1. f # g
    BY <1>0, <1>6, OpenStep DEF Live
  <2>2. fdConn'[g] = c
    BY <1>0, <1>6, <2>1 DEF Takes, AcceptAs, Types, c
  <2>3. QED
    BY <1>1, <1>2, <1>6, <2>2 DEF Takes, AcceptAs
<1>7. ASSUME NEW f \in Fds, Drops(f) PROVE Live(g)'
  <2>1. f # g
    BY <1>7
  <2>2. fdConn'[g] = c
    BY <1>0, <1>7, <2>1, DropKeepsClients DEF Types, c
  <2>3. QED
    BY <1>0, <1>1, <1>2, <1>7, <2>2, DropKeepsClients
<1>8. ASSUME NEW f \in Fds, Receives(f) PROVE Live(g)'
  <2>1. f # g
    BY <1>8
  <2>2. fdConn[f] # c
    BY <1>0, <2>1 DEF Shared, OnePlace, c
  <2>3. read'[c] = read[c] /\ UNCHANGED <<fdConn, phase, sent>>
    BY <1>0, <1>8, <2>2, Receiving DEF Counts
  <2>4. QED
    BY <1>1, <1>2, <2>3 DEF c
<1>9. ASSUME NEW d \in Conns, Client(d), UNCHANGED fdConn PROVE Live(g)'
  <2>1. read' = read /\ (phase[c] = "closed" => phase'[c] = "closed")
    BY <1>0, <1>9 DEF Client, Connect, SendLine, ReadReply, CloseConn
  <2>2. sent'[c] >= sent[c]
    <3>1. CASE SendLine(d)
      BY <1>0, <3>1 DEF SendLine, Counts
    <3>2. CASE Connect(d) \/ ReadReply(d) \/ CloseConn(d)
      BY <1>2, <3>2 DEF Connect, ReadReply, CloseConn
    <3>3. QED
      BY <1>9, <3>1, <3>2 DEF Client
  <2>3. QED
    BY <1>1, <1>9, <2>1, <2>2 DEF c
<1>10. QED
  BY <1>3, <1>4, <1>5, <1>6, <1>7, <1>8, <1>9 DEF Kinds, AClient

---------------------------------------------------------------------------
(* The answers                                                             *)

LEMMA SentTypes ==
    ASSUME Types, NEW c \in Conns
    PROVE  Sent(c) \in Seq(Replies) /\ LastReply(c) \in Nat
<1>1. got[c] \in Seq(Replies) /\ out[c] \in Seq(Replies)
  BY DEF Types, Streams
<1>2. Sent(c) \in Seq(Replies)
  BY <1>1, ConcatProperties DEF Sent
<1>3. CASE Sent(c) # << >>
  <2>1. Len(Sent(c)) \in Nat \ {0}
    BY <1>2, <1>3, EmptySeq
  <2>2. Sent(c)[Len(Sent(c))] \in Replies
    BY <1>2, <2>1, ElementOfSeq
  <2>3. Sent(c)[Len(Sent(c))].n \in 0 .. MaxLines
    BY <2>2 DEF Replies
  <2>4. QED
    BY <1>2, <1>3, <2>3, ClientAssumption DEF LastReply
<1>4. QED
  BY <1>2, <1>3 DEF LastReply

\* What a client reads was sent to it before.
LEMMA SentRead ==
    ASSUME Types, NEW c \in Conns, ReadReply(c)
    PROVE  \A d \in Conns : Sent(d)' = Sent(d)
<1>1. /\ got' = [got EXCEPT ![c] = Append(@, Head(out[c]))]
      /\ out' = [out EXCEPT ![c] = Tail(@)] /\ out[c] # << >>
  BY DEF ReadReply
<1>2. got \in Streams /\ out \in Streams /\ got[c] \in Seq(Replies) /\ out[c] \in Seq(Replies)
  BY DEF Types, Streams
<1> DEFINE g == got[c]
           o == out[c]
           h == Head(out[c])
           t == Tail(out[c])
<1>3. g \in Seq(Replies) /\ o \in Seq(Replies) /\ h \in Replies /\ t \in Seq(Replies) /\ o = << h >> \o t
  BY <1>1, <1>2
<1>4. << h >> \in Seq(Replies)
  BY <1>3
<1> HIDE DEF g, o, h, t
<1>5. Append(g, h) \o t = g \o o
  <2>1. Append(g, h) = g \o << h >>
    BY <1>3, AppendIsConcat
  <2>2. (g \o << h >>) \o t = g \o (<< h >> \o t)
    BY <1>3, <1>4, ConcatAssociative
  <2>3. QED
    BY <1>3, <2>1, <2>2
<1>6. Sent(c)' = Sent(c)
  <2>1. got'[c] = Append(g, h) /\ out'[c] = t
    BY <1>1, <1>2 DEF Streams, g, h, t
  <2>2. QED
    BY <1>5, <2>1 DEF Sent, g, o
<1>7. ASSUME NEW d \in Conns, d # c PROVE Sent(d)' = Sent(d)
  <2>1. got'[d] = got[d] /\ out'[d] = out[d]
    BY <1>1, <1>2, <1>7 DEF Streams
  <2>2. QED
    BY <2>1 DEF Sent
<1>8. QED
  BY <1>6, <1>7

\* What is sent is the last that was sent.
LEMMA SentAppend ==
    ASSUME Types, NEW c \in Conns, NEW l \in Replies,
           out' = [out EXCEPT ![c] = Append(@, l)], UNCHANGED got
    PROVE  /\ Sent(c)' = Append(Sent(c), l)
           /\ LastReply(c)' = l.n
           /\ \A d \in Conns : d # c => Sent(d)' = Sent(d)
<1>1. got \in Streams /\ out \in Streams /\ got[c] \in Seq(Replies) /\ out[c] \in Seq(Replies)
  BY DEF Types, Streams
<1> DEFINE g == got[c]
           o == out[c]
<1>2. g \in Seq(Replies) /\ o \in Seq(Replies) /\ g \o o \in Seq(Replies)
  BY <1>1, ConcatProperties
<1>3. << l >> \in Seq(Replies)
  OBVIOUS
<1>4. got'[c] = g /\ out'[c] = Append(o, l)
  BY <1>1 DEF Streams
<1>5. Sent(c) = g \o o
  BY DEF Sent
<1> HIDE DEF g, o
<1>6. g \o Append(o, l) = Append(g \o o, l)
  <2>1. Append(o, l) = o \o << l >> /\ Append(g \o o, l) = (g \o o) \o << l >>
    BY <1>2, AppendIsConcat
  <2>2. g \o (o \o << l >>) = (g \o o) \o << l >>
    BY <1>2, <1>3, ConcatAssociative
  <2>3. QED
    BY <2>1, <2>2
<1>7. Sent(c)' = Append(Sent(c), l)
  BY <1>4, <1>5, <1>6 DEF Sent
<1> DEFINE e == Sent(c)
<1>0. e \in Seq(Replies)
  BY <1>2, <1>5
<1> HIDE DEF e
<1>8. /\ Append(e, l) # << >>
      /\ Len(Append(e, l)) = Len(e) + 1
      /\ Append(e, l)[Len(e) + 1] = l
  BY <1>0, AppendProperties
<1>9. LastReply(c)' = l.n
  BY <1>7, <1>8 DEF LastReply, e
<1>10. ASSUME NEW d \in Conns, d # c PROVE Sent(d)' = Sent(d)
  BY <1>1, <1>10 DEF Sent, Streams
<1>11. QED
  BY <1>7, <1>9, <1>10

\* A step after which c has been sent what it had been.
LEMMA SentSame ==
    ASSUME Types, NEW c \in Conns, Sent(c)' = Sent(c)
    PROVE  LastReply(c)' = LastReply(c)
  BY DEF LastReply

LEMMA FaithfulStep ==
    ASSUME Shared, Kinds \/ Ends PROVE Faithful'
<1>0. /\ Types /\ OnePlace /\ Faithful
      /\ phase \in [Conns -> Phases] /\ backlog \in Seq(Conns)
  BY DEF Shared, Types
<1>1. ASSUME UNCHANGED <<out, got, read>>, pc' # "send",
             \A c \in Conns : phase'[c] = "new" => phase[c] = "new",
             backlog' = backlog \/ (backlog # << >> /\ backlog' = Tail(backlog))
      PROVE  Faithful'
  <2>1. \A c : Sent(c)' = Sent(c) /\ LastReply(c)' = LastReply(c)
    BY <1>1 DEF Sent, LastReply
  <2>2. \A j \in DOMAIN backlog' : \E k \in DOMAIN backlog : backlog'[j] = backlog[k]
    BY <1>0, <1>1, QueueHead
  <2>3. QED
    BY <1>0, <1>1, <2>1, <2>2 DEF Faithful
<1>2. CASE Looks
  BY <1>1, <1>2 DEF Looks, clientVars
<1>3. CASE Refuses
  <2>1. \A c \in Conns : phase'[c] = "new" => phase[c] = "new"
    BY <1>0, <1>3 DEF Refuses, AcceptAndClose, HangUpOn
  <2>2. QED
    BY <1>1, <1>3, <2>1 DEF Refuses, AcceptAndClose
<1>4. ASSUME NEW f \in Fds, Takes(f) PROVE Faithful'
  BY <1>1, <1>4 DEF Takes, AcceptAs
<1>5. ASSUME NEW f \in Fds, Drops(f) PROVE Faithful'
  BY <1>0, <1>1, <1>5, DropKeepsClients DEF Drops
<1>6. CASE Ends
  BY <1>0, <1>1, <1>6 DEF Ends
<1>7. CASE Unchanged
  <2>1. \A c : Sent(c)' = Sent(c) /\ LastReply(c)' = LastReply(c)
    BY <1>7 DEF Unchanged, clientVars, Sent, LastReply
  <2>2. OpenFds' = OpenFds
    BY <1>7 DEF Unchanged, OpenFds
  <2>3. UNCHANGED <<phase, read, backlog, fdConn, pc, cur, reply>>
    BY <1>7 DEF Unchanged, clientVars, threadVars
  <2> HIDE <1>7
  <2>4. QED
    BY <1>0, <2>1, <2>2, <2>3 DEF Faithful
<1>8. ASSUME NEW f \in Fds, Receives(f) PROVE Faithful'
  <2> DEFINE c == fdConn[f]
  <2>1. /\ c \in Conns /\ read[c] \in Nat
        /\ reply' = [conn |-> c, n |-> read[c] + 1, ok |-> TRUE] /\ cur' = f
        /\ \A d \in Conns : read[d] <= read'[d] /\ read[d] \in Nat /\ read'[d] \in Nat
        /\ read[c] + 1 <= read'[c]
        /\ f \in OpenFds /\ UNCHANGED <<phase, out, got, backlog, fdConn>>
    BY <1>0, <1>8, Receiving, CountFacts DEF Types
  <2>2. \A d : Sent(d)' = Sent(d) /\ LastReply(d)' = LastReply(d)
    BY <2>1 DEF Sent, LastReply
  <2>3. ASSUME NEW d \in Conns PROVE LastReply(d)' <= read'[d]
    <3>1. LastReply(d) \in Nat /\ LastReply(d) <= read[d]
      BY <1>0, SentTypes DEF Faithful
    <3>2. QED
      BY <2>1, <2>2, <3>1
  <2>4. /\ cur' \in OpenFds'
        /\ reply' = [conn |-> fdConn'[cur'], n |-> reply'.n, ok |-> TRUE]
        /\ reply'.n \in Nat
    BY <2>1 DEF OpenFds
  <2>5. LastReply(fdConn[cur])' < reply'.n /\ reply'.n <= read'[fdConn'[cur']]
    <3>1. fdConn'[cur'] = c /\ reply'.n = read[c] + 1
      BY <2>1
    <3>2. LastReply(c)' = LastReply(c) /\ LastReply(c) \in Nat /\ LastReply(c) <= read[c]
      BY <1>0, <2>1, <2>2, SentTypes DEF Faithful
    <3>3. LastReply(c)' < read[c] + 1
      BY <2>1, <3>2
    <3>4. LastReply(fdConn[cur])' = LastReply(c)'
      BY <2>1, <2>2 DEF LastReply, Sent
    <3>5. QED
      BY <2>1, <3>1, <3>3, <3>4
  <2>6. QED
    BY <1>0, <2>1, <2>2, <2>3, <2>4, <2>5 DEF Faithful
<1>9. CASE ReplySent
  <2>0. PICK c : c = fdConn[cur]
    OBVIOUS
  <2>1. /\ cur \in OpenFds /\ reply \in Replies /\ reply.n \in Nat /\ reply.n <= read[c]
    BY <1>0, <1>9, <2>0 DEF ReplySent, Faithful, Types
  <2>2. /\ c \in Conns /\ pc' = "scan" /\ UNCHANGED <<phase, read, got, backlog>>
        /\ \/ phase[c] = "up" /\ out' = [out EXCEPT ![c] = Append(@, reply)]
           \/ UNCHANGED out
    BY <1>0, <1>9, <2>0, <2>1, Sending
  <2>3. CASE UNCHANGED out
    BY <1>1, <2>2, <2>3
  <2>4. CASE phase[c] = "up" /\ out' = [out EXCEPT ![c] = Append(@, reply)]
    <3>1. LastReply(c)' = reply.n /\ \A d \in Conns : d # c => Sent(d)' = Sent(d)
      BY <1>0, <2>1, <2>2, <2>4, SentAppend
    <3>2. \A d \in Conns : d # c => LastReply(d)' = LastReply(d)
      BY <1>0, <3>1, SentSame
    <3>3. \A j \in DOMAIN backlog : backlog[j] \in Conns /\ backlog[j] # c
      BY <1>0, <2>0, <2>1 DEF OnePlace, OpenFds
    <3>4. \A d \in Conns : LastReply(d)' <= read'[d]
      BY <1>0, <2>1, <2>2, <3>1, <3>2 DEF Faithful
    <3>5. QED
      BY <1>0, <2>2, <2>4, <3>1, <3>3, <3>4 DEF Faithful
  <2>5. QED
    BY <2>2, <2>3, <2>4
<1>10. ASSUME NEW c \in Conns, Client(c), UNCHANGED <<fdConn, threadVars>> PROVE Faithful'
  <2>1. /\ UNCHANGED <<read, fdConn, pc, cur, reply, OpenFds>>
    BY <1>0, <1>10, ClientTypes DEF threadVars, OpenFds
  <2>2. \A d \in Conns : Sent(d)' = Sent(d)
    <3>1. CASE ReadReply(c)
      BY <1>0, <3>1, SentRead
    <3>2. CASE Connect(c) \/ SendLine(c) \/ CloseConn(c)
      BY <3>2 DEF Connect, SendLine, CloseConn, Sent
    <3>3. QED
      BY <1>10, <3>1, <3>2 DEF Client
  <2>3. \A d \in Conns : LastReply(d)' = LastReply(d)
    BY <1>0, <2>2, SentSame
  <2>4. \A d \in Conns : phase'[d] = "new" => phase[d] = "new"
    BY <1>0, <1>10 DEF Client, Connect, SendLine, ReadReply, CloseConn
  <2>5. \A j \in DOMAIN backlog' : backlog'[j] \in Conns /\ Sent(backlog'[j]) = << >>
    <3>1. CASE Connect(c)
      <4>1. phase[c] = "new"
        BY <3>1 DEF Connect
      <4>2. Sent(c) = << >>
        BY <1>0, <4>1 DEF Faithful
      <4>3. QED
        BY <1>0, <3>1, <4>2, ConnectQueues DEF Faithful
    <3>2. CASE SendLine(c) \/ ReadReply(c) \/ CloseConn(c)
      BY <1>0, <3>2 DEF SendLine, ReadReply, CloseConn, Faithful
    <3>3. QED
      BY <1>10, <3>1, <3>2 DEF Client
  <2>6. OpenFds \subseteq Fds /\ \A f \in OpenFds : fdConn[f] \in Conns
    BY <1>0, OpenConn
  <2>7. QED
    BY <1>0, <2>1, <2>2, <2>3, <2>4, <2>5, <2>6 DEF Faithful
<1>11. QED
  BY <1>2, <1>3, <1>4, <1>5, <1>6, <1>7, <1>8, <1>9, <1>10 DEF Kinds, AClient

LEMMA SharedStep ==
    ASSUME Shared, Kinds \/ Ends PROVE Shared'
  BY TypesStep, OnePlaceStep, FaithfulStep DEF Shared

---------------------------------------------------------------------------
(* The servers' steps                                                      *)

LEMMA StepsOf ==
    ASSUME [Next]_vars, which # "queue"
    PROVE  /\ which' = which
           /\ \/ which = "select" /\ S2!Server
              \/ which = "poll" /\ S3!Server
              \/ which = "epoll" /\ S4!Server
              \/ which = "libevent" /\ SL!Server
              \/ AClient /\ UNCHANGED <<kept, table, own2, own3, own4>>
              \/ Unchanged /\ UNCHANGED <<kept, table, own2, own3, own4>>
<1>1. CASE Server
  BY <1>1 DEF Server, Select, Poll, Epoll, Libevent, kept
<1>2. CASE ClientStep
  BY <1>2 DEF ClientStep, AClient, kept
<1>3. CASE UNCHANGED vars
  BY <1>3 DEF vars, Unchanged, kept
<1>4. CASE Receiver \/ (which = "queue" /\ \E q \in S9!Senders : Sender(q) \/ Wakeup(q))
  BY <1>4 DEF Receiver, OfQueue
<1>5. QED
  BY <1>1, <1>2, <1>3, <1>4 DEF Next

\* The two ways a connection is closed for its client.
LEMMA Closes ==
    ASSUME Shared, NEW f, CloseFd(f), pc' \in Pcs \ {"send"},
           \/ f \in OpenFds /\ AtEnd(fdConn[f]) /\ UNCHANGED <<cur, reply>>
           \/ pc = "send" /\ f = cur /\ Broken(fdConn[f]) /\ cur' = Soc /\ reply' = NoLine
    PROVE  Drops(f) /\ f \in Fds
<1>1. f \in OpenFds /\ f \in Fds
  BY DEF Shared, Faithful, OpenFds
<1>2. phase[fdConn[f]] = "closed"
  BY DEF AtEnd, Broken
<1>3. cur' \in Fds \cup {Soc} /\ reply' \in {reply, NoLine}
  BY DEF Shared, Types
<1>4. QED
  BY <1>1, <1>2, <1>3 DEF Drops

LEMMA LiveStep ==
    ASSUME Shared, Kinds, NEW g \in Fds, Live(g), g \in OpenFds',
           UNCHANGED read \/ ~(pc' = "send" /\ cur' = g)
    PROVE  Live(g)'
<1>1. ~Receives(g)
  <2>1. SUFFICES ASSUME Receives(g) PROVE FALSE
    OBVIOUS
  <2>2. UNCHANGED read /\ read[fdConn[g]] \in Nat
    BY <2>1, OpenConn, CountFacts DEF Shared, Types, Receives, RecvLine, Live
  <2>3. read[fdConn[g]] + 1 <= read[fdConn[g]]
    BY <2>1, <2>2, Receiving DEF Shared
  <2>4. QED
    BY <2>2, <2>3
<1>2. ~Drops(g)
  BY OpenStep DEF Shared
<1>3. QED
  BY <1>1, <1>2, StillLive

\* A batch of events: what is not taken out of it stays live.
LEMMA BatchStep ==
    ASSUME Shared, Kinds, BatchLive, events' \subseteq events,
           events' \cap Fds \subseteq OpenFds', pc' = "send" => cur' \notin events'
    PROVE  BatchLive'
<1>1. ASSUME NEW f \in events' \ {Soc} PROVE Live(f)'
  <2>1. f \in Fds /\ Live(f)
    BY DEF BatchLive
  <2>2. QED
    BY <2>1, LiveStep
<1>2. Soc' = Soc /\ Fds' = Fds
  BY DEF Soc, Fds
<1>3. events' \subseteq Fds \cup {Soc}
  BY DEF BatchLive
<1>4. QED
  BY <1>1, <1>2, <1>3 DEF BatchLive

\* What epoll_wait() reports of descriptors that are open is live.
LEMMA ReadyIsLive ==
    ASSUME NEW S, S \subseteq OpenFds, \A f \in Fds : f # Soc
    PROVE  /\ ReadyOf(S) \subseteq S \cup {Soc}
           /\ \A f \in ReadyOf(S) \ {Soc} : Live(f)
  BY DEF ReadyOf, Live, OpenFds

LEMMA EpollStep ==
    ASSUME which = "epoll", Shared, EpollInv, [Next]_vars
    PROVE  Kinds /\ EpollInv'
<1> DEFINE Good == Kinds /\ EpollInv'
           Places == {"wait", "scan", "send", "return", "killed"}
<1>0. /\ Types /\ Faithful /\ IsFiniteSet(OpenFds) /\ Cardinality(OpenFds) \in Nat
      /\ MAX_CHILD \in Nat \ {0}
      /\ BatchLive /\ count = Cardinality(OpenFds) /\ count \in 0 .. (MAX_CHILD - 1)
      /\ pc \in Places
  BY OpenFinite, SocketAssumption DEF Shared, EpollInv
<1>1. events \subseteq Fds \cup {Soc} /\ \A f \in events \ {Soc} : f \in OpenFds
  BY <1>0 DEF BatchLive, Live
\* The steps that leave the descriptors alone.
<1>2. ASSUME Kinds, events' \subseteq events, UNCHANGED <<count, fdConn>>, pc' \in Places,
             pc' = "send" => cur' \notin events'
      PROVE  Good
  <2>1. OpenFds' = OpenFds
    BY <1>2 DEF OpenFds
  <2>2. BatchLive'
    BY <1>0, <1>1, <1>2, <2>1, BatchStep, FdsFacts
  <2>3. QED
    BY <1>0, <1>2, <2>1, <2>2 DEF EpollInv
<1>3. CASE S4!EpollWait
  <2>1. /\ events' = ReadyOf(OpenFds) /\ pc = "wait" /\ pc' = "scan"
        /\ UNCHANGED <<clientVars, fdConn, cur, reply, count>>
    BY <1>3, Same4 DEF S4!EpollWait, S4!clientVars, clientVars
  <2>2. OpenFds' = OpenFds /\ \A f : Live(f)' <=> Live(f)
    BY <2>1 DEF OpenFds, Live, Readable, HasLines, clientVars
  <2>3. BatchLive'
    BY <2>1, <2>2, ReadyIsLive, FdsFacts, OpenFinite DEF BatchLive, Fds, Soc
  <2>4. QED
    BY <1>0, <2>1, <2>2, <2>3 DEF EpollInv, Kinds, Looks, Pcs
<1>4. CASE S4!AcceptFails \/ S4!BatchEnds \/ S4!SendKills
  <2>1. /\ events' \subseteq events /\ UNCHANGED <<clientVars, fdConn, cur, reply, count>>
        /\ pc' \in {"scan", "wait", "killed"}
    <3>1. CASE S4!AcceptFails
      BY <3>1, Same4 DEF S4!AcceptFails, S4!NextEvent, S4!Quiet, S4!threadVars, S4!clientVars, clientVars
    <3>2. CASE S4!BatchEnds
      BY <3>2, Same4 DEF S4!BatchEnds, S4!clientVars, clientVars
    <3>3. CASE S4!SendKills
      BY <3>3, Same4 DEF S4!SendKills, ReplyKills
    <3>4. QED
      BY <1>4, <3>1, <3>2, <3>3
  <2>2. QED
    BY <1>2, <2>1 DEF Kinds, Looks, Pcs
<1>5. CASE S4!AcceptFull \/ S4!AcceptAddFails
  <2>1. /\ events' \subseteq events /\ AcceptAndClose /\ UNCHANGED <<cur, reply, count>>
        /\ pc' \in {"scan", "return"}
    BY <1>5, Same4 DEF S4!AcceptFull, S4!AcceptAddFails, S4!NextEvent, S4!Quiet, S4!threadVars
  <2>2. fdConn' = fdConn
    BY <2>1 DEF AcceptAndClose
  <2>3. QED
    BY <1>2, <2>1, <2>2 DEF Kinds, Refuses, Pcs
<1>6. CASE S4!AcceptAdd
  <2>1. /\ events' \subseteq events /\ ~S4!Full /\ count' = count + 1
        /\ UNCHANGED <<pc, cur, reply>> /\ pc = "scan"
    BY <1>6, Same4 DEF S4!AcceptAdd, S4!NextEvent, S4!Quiet, S4!threadVars
  <2>2. PICK f \in Fds : AcceptAs(f)
    BY <1>6, Same4 DEF S4!AcceptAdd
  <2>3. Takes(f) /\ Kinds
    BY <2>1, <2>2 DEF Takes, Kinds, Pcs
  <2>4. OpenFds' = OpenFds \cup {f} /\ f \notin OpenFds
    BY <1>0, <2>3, OpenStep
  <2>5. count' = Cardinality(OpenFds')
    BY <1>0, <2>1, <2>4, FS_AddElement
  <2>6. count' \in 0 .. (MAX_CHILD - 1)
    BY <1>0, <2>1 DEF S4!Full
  <2>7. BatchLive'
    BY <1>0, <1>1, <2>1, <2>3, <2>4, BatchStep, FdsFacts
  <2>8. QED
    BY <2>1, <2>3, <2>5, <2>6, <2>7 DEF EpollInv
<1>7. ASSUME NEW f \in Fds, S4!Recv(f) PROVE Good
  <2>1. RecvLine(f) /\ f \in events /\ f # Soc /\ events' = events \ {f} /\ UNCHANGED count
    BY <1>7, Same4 DEF S4!Recv, S4!NextEvent
  <2>2. Receives(f)
    BY <1>0, <2>1 DEF Receives, BatchLive
  <2>3. cur' = f /\ pc' = "send" /\ fdConn' = fdConn
    BY <2>1 DEF RecvLine, RecvFrom
  <2>4. QED
    BY <1>2, <2>1, <2>2, <2>3 DEF Kinds
<1>8. CASE S4!Reply
  <2>1. ReplySent /\ UNCHANGED <<events, count>>
    BY <1>8, Same4 DEF S4!Reply
  <2>2. fdConn' = fdConn /\ pc' = "scan"
    BY <2>1 DEF ReplySent, SendTo
  <2>3. QED
    BY <1>2, <2>1, <2>2 DEF Kinds
<1>9. ASSUME NEW f \in Fds, Drops(f), count' = count - 1, events' \subseteq events, f \notin events',
             pc' = "scan"
      PROVE  Good
  <2>1. OpenFds' = OpenFds \ {f} /\ f \in OpenFds
    BY <1>0, <1>9, OpenStep
  <2>2. count' = Cardinality(OpenFds')
    BY <1>0, <1>9, <2>1, FS_RemoveElement
  <2>3. count' \in 0 .. (MAX_CHILD - 1)
    <3>1. Cardinality(OpenFds') \in Nat
      BY <1>0, <2>1, FS_RemoveElement, FS_CardinalityType
    <3>2. QED
      BY <1>0, <1>9, <2>2, <3>1
  <2>4. Kinds /\ BatchLive'
    BY <1>0, <1>1, <1>9, <2>1, BatchStep, FdsFacts DEF Kinds
  <2>5. QED
    BY <1>9, <2>2, <2>3, <2>4 DEF EpollInv
<1>10. ASSUME NEW f \in Fds, S4!HangUp(f) PROVE Good
  <2>1. /\ f \in events /\ f # Soc /\ events' = events \ {f} /\ count' = count - 1
        /\ CloseFd(f) /\ AtEnd(fdConn[f]) /\ UNCHANGED <<pc, cur, reply>> /\ pc = "scan"
    BY <1>10, Same4 DEF S4!HangUp, S4!NextEvent, S4!Drop, S4!Quiet, S4!threadVars
  <2>2. Drops(f)
    BY <1>1, <2>1, Closes DEF Pcs
  <2>3. QED
    BY <1>9, <2>1, <2>2
<1>11. CASE S4!SendFails
  <2>1. ReplyFails /\ CloseFd(cur) /\ count' = count - 1 /\ UNCHANGED events
    BY <1>11, Same4 DEF S4!SendFails, S4!Drop
  <2>2. cur \in Fds /\ Drops(cur) /\ pc' = "scan" /\ pc = "send"
    BY <2>1, Closes DEF ReplyFails, Pcs
  <2>3. cur \notin events
    BY <1>0, <2>2 DEF BatchLive
  <2>4. QED
    BY <1>9, <2>1, <2>2, <2>3
<1>12. CASE AClient /\ UNCHANGED <<kept, table, own2, own3, own4>>
  BY <1>0, <1>2, <1>12 DEF AClient, threadVars, own4, Kinds, BatchLive
<1>13. CASE Unchanged /\ UNCHANGED <<kept, table, own2, own3, own4>>
  BY <1>0, <1>2, <1>13 DEF Unchanged, threadVars, own4, Kinds, BatchLive
<1>14. CASE S4!Server
  BY <1>3, <1>4, <1>5, <1>6, <1>7, <1>8, <1>10, <1>11, <1>14, Same4 DEF S4!Server
<1>15. QED
  BY <1>12, <1>13, <1>14, StepsOf

LEMMA LibeventStep ==
    ASSUME which = "libevent", Shared, LibeventInv, [Next]_vars
    PROVE  /\ Kinds \/ (Ends /\ Interrupted)
           /\ LibeventInv'
<1> DEFINE Good == (Kinds \/ (Ends /\ Interrupted)) /\ LibeventInv'
           Places == {"wait", "scan", "send", "return", "killed"}
<1>0. /\ Types /\ Faithful /\ BatchLive
      /\ registered \subseteq OpenFds /\ (~CtlMayFail => registered = OpenFds)
      /\ pc \in Places /\ (pc = "wait" => events = {})
  BY DEF Shared, LibeventInv
<1>1. events \subseteq Fds \cup {Soc} /\ \A f \in events \ {Soc} : f \in OpenFds
  BY <1>0 DEF BatchLive, Live
\* The steps that leave the descriptors alone.
<1>2. ASSUME Kinds, events' \subseteq events, UNCHANGED <<registered, fdConn>>, pc' \in Places,
             pc' = "send" => cur' \notin events', pc' = "wait" => events' = {}
      PROVE  Good
  <2>1. OpenFds' = OpenFds
    BY <1>2 DEF OpenFds
  <2>2. BatchLive'
    BY <1>0, <1>1, <1>2, <2>1, BatchStep, FdsFacts
  <2>3. QED
    BY <1>0, <1>2, <2>1, <2>2 DEF LibeventInv
<1>3. CASE SL!Dispatch
  <2>1. /\ events' = ReadyOf(registered) /\ pc = "wait" /\ pc' = "scan"
        /\ UNCHANGED <<clientVars, fdConn, cur, reply, registered>>
    BY <1>3, SameL DEF SL!Dispatch, SL!clientVars, clientVars
  <2>2. OpenFds' = OpenFds /\ \A f : Live(f)' <=> Live(f)
    BY <2>1 DEF OpenFds, Live, Readable, HasLines, clientVars
  <2>3. /\ ReadyOf(registered) \subseteq registered \cup {Soc}
        /\ \A f \in ReadyOf(registered) \ {Soc} : Live(f)
    BY <1>0, ReadyIsLive, FdsFacts
  <2>4. BatchLive'
    BY <1>0, <2>1, <2>2, <2>3, OpenFinite DEF BatchLive, Fds, Soc
  <2>5. QED
    BY <1>0, <2>1, <2>2, <2>4 DEF LibeventInv, Kinds, Looks, Pcs
<1>4. CASE SL!AcceptFails \/ SL!ActiveEnd \/ SL!SendKills
  <2>1. /\ events' \subseteq events /\ UNCHANGED <<clientVars, fdConn, cur, reply, registered>>
        /\ pc' \in {"scan", "killed"} \/ (pc' = "wait" /\ events' = {})
    <3>1. CASE SL!AcceptFails
      BY <3>1, SameL DEF SL!AcceptFails, SL!Handle, SL!threadVars, SL!clientVars, clientVars
    <3>2. CASE SL!ActiveEnd
      BY <3>2, SameL DEF SL!ActiveEnd, SL!clientVars, clientVars
    <3>3. CASE SL!SendKills
      BY <3>3, SameL DEF SL!SendKills, ReplyKills
    <3>4. QED
      BY <1>4, <3>1, <3>2, <3>3
  <2>2. QED
    BY <1>2, <2>1 DEF Kinds, Looks, Pcs
<1>5. CASE SL!AcceptEvent \/ SL!AcceptLost \/ SL!AcceptCrashes
  <2>1. /\ events' \subseteq events /\ pc' \in {"scan", "killed"} /\ UNCHANGED <<cur, reply>>
        /\ \E f \in Fds : /\ AcceptAs(f)
                          /\ \/ registered' = registered \cup {f}
                             \/ registered' = registered /\ CtlMayFail
    BY <1>5, SameL DEF SL!AcceptEvent, SL!AcceptLost, SL!AcceptCrashes, SL!Handle, SL!threadVars
  <2>2. PICK f \in Fds : /\ AcceptAs(f)
                         /\ \/ registered' = registered \cup {f}
                            \/ registered' = registered /\ CtlMayFail
    BY <2>1
  <2>3. Takes(f) /\ Kinds
    BY <2>1, <2>2 DEF Takes, Kinds, Pcs
  <2>4. OpenFds' = OpenFds \cup {f}
    BY <1>0, <2>3, OpenStep
  <2>5. BatchLive'
    BY <1>0, <1>1, <2>1, <2>3, <2>4, BatchStep, FdsFacts
  <2>6. QED
    BY <1>0, <2>1, <2>2, <2>3, <2>4, <2>5 DEF LibeventInv
<1>6. ASSUME NEW f \in Fds, SL!Recv(f) PROVE Good
  <2>1. RecvLine(f) /\ f \in events /\ f # Soc /\ events' = events \ {f} /\ UNCHANGED registered
    BY <1>6, SameL DEF SL!Recv, SL!Handle
  <2>2. Receives(f)
    BY <1>0, <2>1 DEF Receives, BatchLive
  <2>3. cur' = f /\ pc' = "send" /\ fdConn' = fdConn
    BY <2>1 DEF RecvLine, RecvFrom
  <2>4. QED
    BY <1>2, <2>1, <2>2, <2>3 DEF Kinds
<1>7. CASE SL!Reply
  <2>1. ReplySent /\ UNCHANGED <<events, registered>>
    BY <1>7, SameL DEF SL!Reply
  <2>2. fdConn' = fdConn /\ pc' = "scan"
    BY <2>1 DEF ReplySent, SendTo
  <2>3. QED
    BY <1>2, <2>1, <2>2 DEF Kinds
<1>8. ASSUME NEW f \in Fds, Drops(f), registered' = registered \ {f}, events' \subseteq events,
             f \notin events', pc' = "scan"
      PROVE  Good
  <2>1. OpenFds' = OpenFds \ {f}
    BY <1>0, <1>8, OpenStep
  <2>2. Kinds /\ BatchLive'
    BY <1>0, <1>1, <1>8, <2>1, BatchStep, FdsFacts DEF Kinds
  <2>3. QED
    BY <1>0, <1>8, <2>1, <2>2 DEF LibeventInv
<1>9. ASSUME NEW f \in Fds, SL!HangUp(f) PROVE Good
  <2>1. /\ f \in events /\ f # Soc /\ events' = events \ {f} /\ registered' = registered \ {f}
        /\ CloseFd(f) /\ AtEnd(fdConn[f]) /\ UNCHANGED <<pc, cur, reply>> /\ pc = "scan"
    BY <1>9, SameL DEF SL!HangUp, SL!Handle, SL!Drop, SL!threadVars
  <2>2. Drops(f)
    BY <1>1, <2>1, Closes DEF Pcs
  <2>3. QED
    BY <1>8, <2>1, <2>2
<1>10. CASE SL!SendFails
  <2>1. ReplyFails /\ CloseFd(cur) /\ registered' = registered \ {cur} /\ UNCHANGED events
    BY <1>10, SameL DEF SL!SendFails, SL!Drop
  <2>2. cur \in Fds /\ Drops(cur) /\ pc' = "scan" /\ pc = "send"
    BY <2>1, Closes DEF ReplyFails, Pcs
  <2>3. cur \notin events
    BY <1>0, <2>2 DEF BatchLive
  <2>4. QED
    BY <1>8, <2>1, <2>2, <2>3
<1>11. CASE SL!sig_int_handler
  <2>1. /\ Ends /\ Interrupted /\ pc' = "return" /\ registered' = {}
        /\ events' = events /\ events = {}
    BY <1>0, <1>11, SameL DEF SL!sig_int_handler, Ends, Pcs
  <2>2. OpenFds' = {}
    BY <1>0, <2>1, OpenStep
  <2>3. QED
    BY <2>1, <2>2 DEF LibeventInv, BatchLive
<1>12. CASE AClient /\ UNCHANGED <<kept, table, own2, own3, own4>>
  BY <1>0, <1>2, <1>12 DEF AClient, threadVars, own4, kept, Kinds, BatchLive
<1>13. CASE Unchanged /\ UNCHANGED <<kept, table, own2, own3, own4>>
  BY <1>0, <1>2, <1>13 DEF Unchanged, threadVars, own4, kept, Kinds, BatchLive
<1>14. CASE SL!Server
  BY <1>3, <1>4, <1>5, <1>6, <1>7, <1>9, <1>10, <1>11, <1>14, SameL DEF SL!Server
<1>15. QED
  BY <1>12, <1>13, <1>14, StepsOf

---------------------------------------------------------------------------
(* The table of server2.c and server3.c                                    *)

LEMMA CardinalitySame ==
    \A S : S2!Cardinality(S) = Cardinality(S) /\ S3!Cardinality(S) = Cardinality(S)
  BY DEF Cardinality, S2!Cardinality, S3!Cardinality

\* Slot k holds descriptor FirstFd + k, or none; every open descriptor has its slot.
LEMMA TableFacts ==
    ASSUME Table
    PROVE  /\ \A k \in Slots : child[k] # NoFd =>
                 /\ child[k] = FirstFd + k /\ child[k] \in OpenFds /\ child[k] \in Fds
                 /\ child[k] # Soc /\ k \in 0 .. (child_no - 1)
           /\ \A j, k \in Slots : child[j] # NoFd /\ child[j] = child[k] => j = k
           /\ \A f \in OpenFds : \E k \in Slots :
                 f = FirstFd + k /\ child[k] = f /\ child[k] # NoFd /\ k \in 0 .. (child_no - 1)
           /\ 0 .. (child_no - 1) \subseteq Slots
           /\ \A f \in Fds : f # NoFd
<1>1. \A f \in Fds : f \in Nat /\ f # NoFd /\ f # Soc
  BY FdsFacts DEF NoFd
<1>2. \A k \in Slots : FirstFd + k \in Fds /\ FirstFd + k # NoFd /\ k \in Nat
  BY FdsFacts, <1>1
<1>3. FirstFd \in Nat /\ MAX_CHILD \in Nat /\ child_no \in Nat /\ child_no < MAX_CHILD
  BY SocketAssumption DEF Table, Slots
<1>4. ASSUME NEW k \in Slots, child[k] # NoFd
      PROVE  /\ child[k] = FirstFd + k /\ child[k] \in OpenFds /\ child[k] \in Fds
             /\ child[k] # Soc /\ k \in 0 .. (child_no - 1)
  <2>1. child[k] = FirstFd + k /\ FirstFd + k \in OpenFds /\ k < child_no
    BY <1>4 DEF Table
  <2>2. QED
    BY <1>1, <1>2, <1>3, <2>1
<1>5. ASSUME NEW j \in Slots, NEW k \in Slots, child[j] # NoFd, child[j] = child[k] PROVE j = k
  <2>1. FirstFd + j = FirstFd + k
    BY <1>4, <1>5
  <2>2. QED
    BY <1>2, <1>3, <2>1
<1>6. ASSUME NEW f \in OpenFds
      PROVE  \E k \in Slots :
                 f = FirstFd + k /\ child[k] = f /\ child[k] # NoFd /\ k \in 0 .. (child_no - 1)
  <2>1. PICK k \in Slots : f = FirstFd + k
    BY FdsFacts DEF OpenFds
  <2>2. child[k] = f /\ child[k] # NoFd
    BY <1>2, <2>1 DEF Table
  <2>3. QED
    BY <1>4, <2>1, <2>2
<1>7. 0 .. (child_no - 1) \subseteq Slots
  BY <1>3 DEF Slots
<1>8. QED
  BY <1>1, <1>4, <1>5, <1>6, <1>7

LEMMA TableKept ==
    ASSUME Table, UNCHANGED <<child, child_no, fdConn>> PROVE Table'
  BY DEF Table, OpenFds, Slots, Fds, NoFd

\* A new descriptor goes into the first hole, or behind the last slot in use.
LEMMA TableTakes ==
    ASSUME Table, Types, NEW f \in Fds, Takes(f), NEW k \in Slots,
           child' = [child EXCEPT ![k] = f],
           \/ /\ child[k] = NoFd /\ k < child_no /\ UNCHANGED child_no
              /\ \A j \in Slots : j < child_no /\ child[j] = NoFd => k <= j
           \/ /\ k = child_no /\ child_no' = child_no + 1 /\ child_no + 1 < MAX_CHILD
              /\ \A j \in Slots : j < child_no => child[j] # NoFd
    PROVE  Table' /\ f = FirstFd + k
<1>1. /\ OpenFds' = OpenFds \cup {f} /\ f \notin OpenFds
      /\ \A g \in Fds : g < f => g \in OpenFds
  BY OpenStep
<1>2. PICK m \in Slots : f = FirstFd + m
  BY FdsFacts
<1>3. /\ FirstFd \in Nat /\ MAX_CHILD \in Nat /\ child_no \in Nat /\ child_no < MAX_CHILD
      /\ k \in Nat /\ m \in Nat
  BY SocketAssumption DEF Table, Slots
<1>4. child[m] = NoFd
  BY <1>1, <1>2 DEF Table
<1>5. child[k] = NoFd
  <2>1. CASE child[k] = NoFd
    BY <2>1
  <2>2. CASE k = child_no
    BY <1>3, <2>2 DEF Table
  <2>3. QED
    BY <2>1, <2>2
<1>6. FirstFd + k \notin OpenFds /\ FirstFd + k \in Fds
  <2>1. FirstFd + k \in Fds /\ FirstFd + k # NoFd
    BY FdsFacts DEF NoFd
  <2>2. QED
    BY <1>5, <2>1 DEF Table
<1>7. ~(FirstFd + k < f) /\ k >= m
  BY <1>1, <1>2, <1>3, <1>6
<1>8. m = k
  BY <1>3, <1>4, <1>7
<1>9. f = FirstFd + k
  BY <1>2, <1>8
<1>10. child' \in [Slots -> Fds \cup {NoFd}] /\ child_no' \in Slots
  BY <1>3 DEF Table, Slots
<1>11. ASSUME NEW j \in Slots
       PROVE  /\ child'[j] = IF FirstFd + j \in OpenFds' THEN FirstFd + j ELSE NoFd
              /\ child'[j] # NoFd => j < child_no'
  <2>1. j \in Nat /\ (FirstFd + j = FirstFd + k <=> j = k)
    BY <1>3, FdsFacts
  <2>2. CASE j = k
    BY <1>1, <1>3, <1>9, <2>2 DEF Table
  <2>3. CASE j # k
    BY <1>1, <1>3, <1>9, <2>1, <2>3 DEF Table
  <2>4. QED
    BY <2>2, <2>3
<1>12. QED
  BY <1>9, <1>10, <1>11 DEF Table, Slots, Fds, NoFd

\* A descriptor that is closed leaves its slot.
LEMMA TableDrops ==
    ASSUME Table, Types, NEW k \in Slots, Drops(child[k]), child[k] # NoFd,
           child' = [child EXCEPT ![k] = NoFd], UNCHANGED child_no
    PROVE  Table'
<1>1. child[k] = FirstFd + k /\ child[k] \in Fds
  BY TableFacts
<1>2. OpenFds' = OpenFds \ {FirstFd + k}
  BY <1>1, OpenStep
<1>3. child' \in [Slots -> Fds \cup {NoFd}] /\ child_no' \in Slots
  BY DEF Table
<1>4. FirstFd \in Nat /\ k \in Nat
  BY SocketAssumption, FdsFacts
<1>5. ASSUME NEW j \in Slots
      PROVE  /\ child'[j] = IF FirstFd + j \in OpenFds' THEN FirstFd + j ELSE NoFd
             /\ child'[j] # NoFd => j < child_no'
  <2>1. j \in Nat /\ (FirstFd + j = FirstFd + k <=> j = k)
    BY <1>4, FdsFacts
  <2>2. CASE j = k
    BY <1>2, <2>2 DEF Table
  <2>3. CASE j # k
    BY <1>2, <2>1, <2>3 DEF Table
  <2>4. QED
    BY <2>2, <2>3
<1>6. QED
  BY <1>3, <1>5 DEF Table, Slots, Fds, NoFd

\* As many slots are in use as descriptors are open.
LEMMA OpenCount ==
    ASSUME Table PROVE Cardinality({k \in Slots : child[k] # NoFd}) = Cardinality(OpenFds)
<1> DEFINE W == {k \in Slots : child[k] # NoFd}
           fd == [k \in W |-> FirstFd + k]
<1>1. FirstFd \in Nat \ {0} /\ \A k \in Slots : k \in Nat
  BY SocketAssumption, FdsFacts
<1>2. \A k \in W : k \in Slots /\ FirstFd + k \in OpenFds
  BY TableFacts
<1>3. \A f \in OpenFds : \E k \in W : FirstFd + k = f
  BY TableFacts
<1> HIDE DEF W
<1>4. \A a, b \in W : FirstFd + a = FirstFd + b => a = b
  BY <1>1, <1>2
<1>5. fd \in Bijection(W, OpenFds)
  <2>1. fd \in [W -> OpenFds]
    BY <1>2
  <2>2. fd \in Injection(W, OpenFds)
    BY <1>4, <2>1 DEF Injection, IsInjective
  <2>3. fd \in Surjection(W, OpenFds)
    BY <1>3, <2>1 DEF Surjection
  <2>4. QED
    BY <2>2, <2>3 DEF Bijection
<1>6. ExistsBijection(W, OpenFds)
  BY <1>5 DEF ExistsBijection
<1>7. IsFiniteSet(W)
  BY <1>5, OpenFinite, FS_Injection DEF Bijection
<1>8. QED
  BY <1>6, <1>7, FS_Bijection DEF W

\* A table without holes that cannot grow is full.
LEMMA TableFull ==
    ASSUME Table, child_no + 1 >= MAX_CHILD, \A k \in Slots : k < child_no => child[k] # NoFd
    PROVE  Cardinality(OpenFds) = MAX_CHILD - 1
<1>1. child_no \in Nat /\ MAX_CHILD \in Nat /\ child_no = MAX_CHILD - 1
  BY SocketAssumption DEF Table, Slots
<1>2. \A k \in Slots : k < child_no <=> child[k] # NoFd
  BY DEF Table
<1>3. {k \in Slots : child[k] # NoFd} = 0 .. (child_no - 1)
  BY <1>1, <1>2 DEF Slots
<1>4. Cardinality(0 .. (child_no - 1)) = child_no
  BY <1>1, FS_Interval
<1>5. QED
  BY <1>1, <1>3, <1>4, OpenCount

---------------------------------------------------------------------------
(* server2.c                                                               *)

\* The children that widen the mask are all of them.
LEMMA ShownCount ==
    ASSUME Table PROVE Cardinality({k \in S2!Used : S2!Widens(k)}) = Cardinality(OpenFds)
<1>1. FirstFd \in Nat \ {0} /\ \A k \in Slots : k \in Nat
  BY SocketAssumption, FdsFacts
<1>2. S2!Used \subseteq Slots /\ S2!Empty = NoFd
  BY TableFacts DEF S2!Used, S2!Empty, NoFd
<1>3. ASSUME NEW k \in S2!Used PROVE S2!Widens(k) <=> child[k] # NoFd
  <2>1. ASSUME child[k] # NoFd, NEW j \in 0 .. (k - 1) PROVE child[j] < child[k]
    <3>1. k \in Nat /\ k \in Slots /\ j \in Slots /\ j < k
      BY <1>1, <1>2, SocketAssumption DEF Slots
    <3>2. child[k] = FirstFd + k
      BY <2>1, <3>1, TableFacts
    <3>3. child[j] = NoFd \/ child[j] = FirstFd + j
      BY <3>1, TableFacts
    <3>4. QED
      BY <1>1, <3>1, <3>2, <3>3 DEF NoFd
  <2>2. QED
    BY <1>2, <2>1 DEF S2!Widens
<1>4. {k \in S2!Used : S2!Widens(k)} = {k \in Slots : child[k] # NoFd}
  BY <1>2, <1>3, TableFacts DEF S2!Used
<1>5. QED
  BY <1>4, OpenCount

LEMMA SelectStep ==
    ASSUME which = "select", Shared, SelectInv, [Next]_vars
    PROVE  Kinds /\ SelectInv'
<1> DEFINE Good == Kinds /\ SelectInv'
           Places == {"wait", "accept", "scan", "send", "killed"}
<1>0. /\ Types /\ Faithful /\ Table /\ pc \in Places
      /\ mask \subseteq Fds \cup {Soc} /\ i \in 0 .. MAX_CHILD
      /\ pc = "accept" => \A f \in mask \ {Soc} : Live(f)
      /\ pc = "scan" => MarkedFrom(i)
      /\ pc = "send" => i < child_no /\ child[i] = cur /\ MarkedFrom(i + 1)
      /\ MAX_CHILD \in Nat \ {0} /\ child_no \in Nat /\ child_no < MAX_CHILD
  BY SocketAssumption DEF Shared, SelectInv, Table, Slots
<1>1. /\ S2!Empty = NoFd /\ S2!Used \subseteq Slots /\ S2!Used = 0 .. (child_no - 1)
      /\ \A k \in Slots : S2!Marked(k) <=> child[k] \in mask
      /\ \A k \in Slots : k \in Nat /\ k < MAX_CHILD /\ k + 1 \in 0 .. MAX_CHILD
      /\ \A k \in Slots : child[k] \in mask => child[k] # NoFd /\ child[k] # Soc /\ child[k] \in Fds
  <2>1. S2!Empty = NoFd /\ S2!Used = 0 .. (child_no - 1)
    BY DEF S2!Empty, NoFd, S2!Used
  <2>2. NoFd \notin Fds \cup {Soc}
    BY <1>0, TableFacts DEF NoFd, Soc
  <2>3. QED
    BY <1>0, <2>1, <2>2, TableFacts DEF S2!Marked, Slots
\* What the pass is still to read stays live.
<1>2. ASSUME Kinds, Table', mask' = mask, NEW m \in Int, NEW n \in Int, m <= n, MarkedFrom(m),
             \A k \in Slots : k >= n /\ child'[k] \in mask => child'[k] = child[k],
             pc' = "send" => UNCHANGED read \/ \A k \in Slots : k >= n => cur' # child[k]
      PROVE  \A k \in Slots : k >= n /\ child'[k] \in mask' => Live(child[k])'
  <2>1. SUFFICES ASSUME NEW k \in Slots, k >= n, child'[k] \in mask PROVE Live(child[k])'
    BY <1>2
  <2>2. child'[k] = child[k] /\ k >= m
    BY <1>1, <1>2, <2>1
  <2>3. PICK g : g = child[k]
    OBVIOUS
  <2>4. g # NoFd /\ g \in Fds /\ Live(g)
    BY <1>0, <1>2, <2>1, <2>2, <2>3, TableFacts DEF MarkedFrom, Live, NoFd, Soc, OpenFds
  <2>5. g \in OpenFds'
    <3>1. g # NoFd /\ child'[k] = g
      BY <2>2, <2>3, <2>4
    <3>2. child'[k] = IF FirstFd + k \in OpenFds' THEN FirstFd + k ELSE NoFd
      BY <1>2, <2>1 DEF Table, Slots, NoFd
    <3>3. QED
      BY <3>1, <3>2
  <2>6. Live(g)'
    BY <1>2, <2>1, <2>3, <2>4, <2>5, LiveStep
  <2>7. QED
    BY <2>2, <2>3, <2>6 DEF Live, Readable, HasLines
\* The steps that leave the table alone.
<1>3. ASSUME Kinds, UNCHANGED <<child, child_no, fdConn, mask>>, pc' \in {"wait", "scan", "killed"},
             i' \in 0 .. MAX_CHILD,
             pc' = "scan" => \/ pc = "scan" /\ i' = i
                             \/ pc = "send" /\ i' = i + 1
                             \/ pc = "accept" /\ i' = 0
      PROVE  Good
  <2>1. Table'
    BY <1>0, <1>3, TableKept
  <2>2. ASSUME pc' = "scan" PROVE MarkedFrom(i)'
    <3>1. i' \in Int /\ MarkedFrom(i')
      BY <1>0, <1>1, <1>3, <2>2, TableFacts DEF MarkedFrom, NoFd, Soc
    <3>2. \A k \in Slots : k >= i' /\ child'[k] \in mask' => Live(child[k])'
      BY <1>2, <1>3, <2>1, <2>2, <3>1
    <3>3. QED
      BY <3>2 DEF MarkedFrom, Slots
  <2>3. QED
    BY <1>0, <1>3, <2>1, <2>2 DEF SelectInv, Fds, Soc
<1>4. CASE S2!Select
  <2>1. /\ mask' = ReadyOf(S2!Children) /\ pc = "wait" /\ pc' = "accept"
        /\ shown' = Cardinality({k \in S2!Used : S2!Widens(k)})
        /\ UNCHANGED <<clientVars, fdConn, cur, reply, child, child_no, i>>
    BY <1>4, Same2, CardinalitySame DEF S2!Select, S2!clientVars, clientVars
  <2>2. OpenFds' = OpenFds /\ \A f : Live(f)' <=> Live(f)
    BY <2>1 DEF OpenFds, Live, Readable, HasLines, clientVars
  <2>3. S2!Children \subseteq OpenFds
    BY <1>0, <1>1, TableFacts DEF S2!Children
  <2>4. mask' \subseteq Fds \cup {Soc} /\ \A f \in mask' \ {Soc} : Live(f)
    BY <2>1, <2>3, ReadyIsLive, FdsFacts, OpenFinite
  <2>5. shown' = Cardinality(OpenFds')
    BY <1>0, <2>1, <2>2, ShownCount
  <2>6. Table'
    BY <1>0, <2>1, TableKept
  <2>7. QED
    BY <1>0, <2>1, <2>2, <2>4, <2>5, <2>6 DEF SelectInv, Kinds, Looks, Pcs, Fds, Soc
<1>5. CASE S2!NothingToAccept \/ S2!AcceptFails \/ S2!SendKills \/ S2!PassEnds
  <2>1. /\ UNCHANGED <<clientVars, fdConn, cur, reply, child, child_no, mask>>
        /\ \/ pc = "accept" /\ pc' = "scan" /\ i' = 0
           \/ pc' \in {"wait", "killed"} /\ i' = i
    <3>1. CASE S2!NothingToAccept \/ S2!AcceptFails
      BY <3>1 DEF S2!NothingToAccept, S2!AcceptFails, S2!AtListener, S2!ToScan, S2!clientVars, clientVars
    <3>2. CASE S2!SendKills
      BY <3>2, Same2 DEF S2!SendKills, S2!tableVars, ReplyKills
    <3>3. CASE S2!PassEnds
      BY <3>3 DEF S2!PassEnds, S2!clientVars, clientVars
    <3>4. QED
      BY <1>5, <3>1, <3>2, <3>3
  <2>2. Kinds
    BY <2>1 DEF Kinds, Looks, Pcs
  <2>3. QED
    BY <1>0, <1>3, <2>1, <2>2
<1>6. CASE S2!AcceptFull
  <2>1. /\ AcceptAndClose /\ UNCHANGED <<child, child_no, cur, reply, mask>>
        /\ pc = "accept" /\ pc' = "scan" /\ i' = 0
    BY <1>6, Same2 DEF S2!AcceptFull, S2!AtListener, S2!ToScan
  <2>2. Kinds /\ fdConn' = fdConn
    BY <2>1 DEF Kinds, Refuses, AcceptAndClose, Pcs
  <2>3. QED
    BY <1>0, <1>3, <2>1, <2>2
<1>7. CASE S2!AcceptStore
  <2>1. pc = "accept" /\ pc' = "scan" /\ i' = 0 /\ UNCHANGED <<cur, reply, mask>>
    BY <1>7 DEF S2!AcceptStore, S2!StoreInHole, S2!StoreAtEnd, S2!AtListener, S2!ToScan
  <2>2. PICK f \in Fds : AcceptAs(f) /\ (S2!StoreInHole(f) \/ S2!StoreAtEnd(f))
    BY <1>7, Same2 DEF S2!AcceptStore
  <2>3. Takes(f) /\ Kinds
    BY <2>1, <2>2 DEF Takes, Kinds, Pcs
  <2>4. \E k \in Slots :
           /\ child' = [child EXCEPT ![k] = f]
           /\ \/ /\ child[k] = NoFd /\ k < child_no /\ UNCHANGED child_no
                 /\ \A j \in Slots : j < child_no /\ child[j] = NoFd => k <= j
              \/ /\ k = child_no /\ child_no' = child_no + 1 /\ child_no + 1 < MAX_CHILD
                 /\ \A j \in Slots : j < child_no => child[j] # NoFd
    <3>1. \A j \in Slots : j < child_no <=> j \in S2!Used
      BY <1>0, <1>1
    <3>2. CASE S2!StoreInHole(f)
      <4>1. PICK k \in S2!Holes : /\ \A j \in S2!Holes : k <= j
                                  /\ child' = [child EXCEPT ![k] = f]
        BY <3>2 DEF S2!StoreInHole
      <4>2. k \in Slots /\ child[k] = NoFd /\ k < child_no /\ UNCHANGED child_no
        BY <1>1, <3>1, <3>2, <4>1 DEF S2!Holes, S2!StoreInHole
      <4>3. \A j \in Slots : j < child_no /\ child[j] = NoFd => k <= j
        BY <1>1, <3>1, <4>1 DEF S2!Holes
      <4>4. QED
        BY <4>1, <4>2, <4>3
    <3>3. CASE S2!StoreAtEnd(f)
      <4>1. /\ S2!Holes = {} /\ child_no + 1 < MAX_CHILD /\ child_no' = child_no + 1
            /\ child' = [child EXCEPT ![child_no] = f]
        BY <3>3 DEF S2!StoreAtEnd
      <4>2. \A j \in Slots : j < child_no => child[j] # NoFd
        BY <1>1, <3>1, <4>1 DEF S2!Holes
      <4>3. child_no \in Slots
        BY <1>0 DEF Table
      <4>4. QED
        BY <4>1, <4>2, <4>3
    <3>4. QED
      BY <2>2, <3>2, <3>3
  <2>5. PICK k \in Slots :
           /\ child' = [child EXCEPT ![k] = f]
           /\ \/ /\ child[k] = NoFd /\ k < child_no /\ UNCHANGED child_no
                 /\ \A j \in Slots : j < child_no /\ child[j] = NoFd => k <= j
              \/ /\ k = child_no /\ child_no' = child_no + 1 /\ child_no + 1 < MAX_CHILD
                 /\ \A j \in Slots : j < child_no => child[j] # NoFd
    BY <2>4
  <2>6. Table' /\ f \notin OpenFds
    BY <1>0, <2>3, <2>5, TableTakes, OpenStep
  <2>7. f \notin mask
    BY <1>0, <2>1, <2>6, FdsFacts DEF Live
  <2>8. \A j \in Slots : child'[j] \in mask => child'[j] = child[j]
    BY <1>0, <2>5, <2>7 DEF Table
  <2>9. MarkedFrom(0)
    BY <1>0, <1>1, <2>1 DEF MarkedFrom
  <2>10. MarkedFrom(i)'
    BY <1>2, <2>1, <2>3, <2>6, <2>8, <2>9 DEF MarkedFrom, Slots
  <2>11. QED
    BY <1>0, <2>1, <2>3, <2>6, <2>10 DEF SelectInv, Fds, Soc
<1>8. ASSUME NEW k \in S2!Used, S2!Recv(k) PROVE Good
  <2>1. /\ S2!IsNext(k) /\ RecvLine(child[k]) /\ i' = k /\ UNCHANGED <<child, child_no, mask>>
    BY <1>8, Same2 DEF S2!Recv
  <2>2. /\ k \in Slots /\ k >= i /\ child[k] \in mask /\ pc = "scan" /\ k < child_no
        /\ k \in Nat /\ i \in Nat
    BY <1>0, <1>1, <2>1 DEF S2!IsNext
  <2>3. Live(child[k]) /\ child[k] \in Fds
    BY <1>0, <2>2 DEF MarkedFrom, Live, OpenFds
  <2>4. Receives(child[k]) /\ Kinds
    BY <2>1, <2>3 DEF Receives, Kinds
  <2>5. UNCHANGED fdConn /\ cur' = child[k] /\ pc' = "send"
    BY <2>1 DEF RecvLine, RecvFrom
  <2>6. Table'
    BY <1>0, <2>1, <2>5, TableKept
  <2>7. child[k] # NoFd
    BY <1>0, <2>3, TableFacts
  <2>8. \A j \in Slots : j >= k + 1 => cur' # child[j]
    BY <1>0, <1>1, <2>2, <2>5, <2>7, TableFacts
  <2>9. \A j \in Slots : j >= k + 1 /\ child'[j] \in mask' => Live(child[j])'
    <3>1. i \in Int /\ k + 1 \in Int /\ i <= k + 1 /\ MarkedFrom(i)
      BY <1>0, <2>2
    <3>2. \A j \in Slots : j >= k + 1 /\ child'[j] \in mask => child'[j] = child[j]
      BY <2>1
    <3>3. QED
      BY <1>2, <2>1, <2>4, <2>6, <2>8, <3>1, <3>2
  <2>10. MarkedFrom(i + 1)'
    BY <2>1, <2>9 DEF MarkedFrom, Slots
  <2>11. QED
    BY <1>0, <1>1, <2>1, <2>2, <2>4, <2>5, <2>6, <2>10 DEF SelectInv, Fds, Soc
<1>9. CASE S2!Reply
  <2>1. ReplySent /\ i' = i + 1 /\ UNCHANGED <<child, child_no, mask>>
    BY <1>9, Same2 DEF S2!Reply
  <2>2. Kinds /\ pc = "send" /\ pc' = "scan" /\ fdConn' = fdConn
    BY <2>1 DEF ReplySent, SendTo, Kinds
  <2>3. i' \in 0 .. MAX_CHILD
    BY <1>0, <2>1, <2>2
  <2>4. UNCHANGED <<child, child_no, fdConn, mask>> /\ pc' \in {"wait", "scan", "killed"}
    BY <2>1, <2>2
  <2>5. Table'
    BY <1>0, <2>4, TableKept
  <2>6. i \in Int /\ i + 1 \in Int /\ i + 1 <= i + 1
    BY <1>0
  <2>7. \A k \in Slots : k >= i + 1 /\ child'[k] \in mask' => Live(child[k])'
    BY <1>0, <1>2, <2>2, <2>4, <2>5, <2>6
  <2>8. MarkedFrom(i)'
    BY <2>1, <2>7 DEF MarkedFrom, Slots
  <2>9. QED
    BY <1>0, <2>2, <2>3, <2>4, <2>5, <2>8 DEF SelectInv, Fds, Soc
<1>10. ASSUME NEW k \in Slots, k < child_no, child[k] # NoFd, Drops(child[k]), pc' = "scan", MarkedFrom(k + 1),
              child' = [child EXCEPT ![k] = NoFd], i' = k + 1, UNCHANGED <<child_no, mask>>
       PROVE  Good
  <2>1. Kinds
    BY <1>0, <1>10, TableFacts DEF Kinds
  <2>2. Table'
    BY <1>0, <1>10, TableDrops
  <2>3. \A j \in Slots : j >= k + 1 => child'[j] = child[j]
    BY <1>0, <1>1, <1>10 DEF Table
  <2>4. MarkedFrom(i)'
    <3>1. k + 1 \in Int /\ k + 1 <= k + 1
      BY <1>1
    <3>2. \A j \in Slots : j >= k + 1 /\ child'[j] \in mask' => Live(child[j])'
      BY <1>2, <1>10, <2>1, <2>2, <2>3, <3>1
    <3>3. QED
      BY <1>10, <3>2 DEF MarkedFrom, Slots
  <2>5. QED
    BY <1>0, <1>1, <1>10, <2>1, <2>2, <2>4 DEF SelectInv, Fds, Soc
<1>11. ASSUME NEW k \in S2!Used, S2!HangUp(k) PROVE Good
  <2>1. /\ S2!IsNext(k) /\ AtEnd(fdConn[child[k]]) /\ CloseFd(child[k])
        /\ child' = [child EXCEPT ![k] = NoFd] /\ i' = k + 1
        /\ UNCHANGED <<child_no, mask, pc, cur, reply>>
    BY <1>1, <1>11, Same2 DEF S2!HangUp, S2!CloseChild, S2!threadVars
  <2>2. /\ k \in Slots /\ k >= i /\ child[k] \in mask /\ child[k] # NoFd /\ pc = "scan"
        /\ k < child_no /\ k \in Nat /\ i \in Nat
    BY <1>0, <1>1, <2>1 DEF S2!IsNext, S2!Marked
  <2>3. child[k] \in OpenFds
    BY <1>0, <2>2, TableFacts
  <2>4. Drops(child[k])
    BY <2>1, <2>2, <2>3, Closes DEF Pcs
  <2>5. MarkedFrom(k + 1)
    BY <1>0, <1>1, <2>2 DEF MarkedFrom
  <2>6. QED
    BY <1>10, <2>1, <2>2, <2>4, <2>5
<1>12. CASE S2!SendFails
  <2>1. /\ ReplyFails /\ CloseFd(child[i]) /\ child' = [child EXCEPT ![i] = NoFd] /\ i' = i + 1
        /\ UNCHANGED <<child_no, mask>>
    BY <1>1, <1>12, Same2 DEF S2!SendFails, S2!CloseChild
  <2>2. pc = "send" /\ pc' = "scan" /\ child[i] = cur /\ i \in Slots /\ i < child_no /\ MarkedFrom(i + 1)
    BY <1>0, <2>1 DEF ReplyFails, Slots
  <2>3. Drops(child[i])
    BY <2>1, <2>2, Closes DEF ReplyFails, Pcs
  <2>4. child[i] # NoFd
    BY <1>0, <2>3, TableFacts DEF Drops, OpenFds
  <2>5. QED
    BY <1>10, <2>1, <2>2, <2>3, <2>4
<1>13. ASSUME AClient \/ Unchanged, UNCHANGED <<kept, table, own2, own3, own4>> PROVE Good
  <2>1. Kinds /\ UNCHANGED <<fdConn, pc, cur, child, child_no, i, mask, shown>>
    BY <1>13 DEF Kinds, AClient, Unchanged, threadVars, table, own2
  <2>2. Table' /\ OpenFds' = OpenFds
    BY <1>0, <2>1, TableKept DEF OpenFds
  <2>3. UNCHANGED read
    BY <1>0, <1>13, ClientTypes DEF AClient, Unchanged, clientVars
  <2>4. pc = "accept" => \A f \in mask \ {Soc} : Live(f)'
    BY <1>0, <2>1, <2>2, <2>3, LiveStep DEF Live
  <2>5. ASSUME NEW m \in Int, MarkedFrom(m) PROVE MarkedFrom(m)'
    BY <1>2, <2>1, <2>2, <2>3, <2>5 DEF MarkedFrom, Slots
  <2>6. i \in Int /\ i + 1 \in Int
    BY <1>0
  <2>7. /\ pc = "scan" => MarkedFrom(i)'
        /\ pc = "send" => MarkedFrom(i + 1)'
    BY <1>0, <2>1, <2>5, <2>6
  <2>8. shown = Cardinality(OpenFds) \/ pc # "accept"
    BY DEF SelectInv
  <2>9. QED
    BY <1>0, <2>1, <2>2, <2>4, <2>7, <2>8 DEF SelectInv, Fds, Soc
<1>14. CASE S2!Server
  BY <1>4, <1>5, <1>6, <1>7, <1>8, <1>9, <1>11, <1>12, <1>14 DEF S2!Server
<1>15. QED
  BY <1>13, <1>14, StepsOf

---------------------------------------------------------------------------
(* server3.c                                                               *)

\* Numbering the elements of a finite set of naturals in their order reaches every
\* number up to the size of the set, and none twice.
LEMMA Ranks ==
    ASSUME NEW U, U \subseteq Nat, IsFiniteSet(U)
    PROVE  LET Rank(k) == Cardinality({j \in U : j <= k}) IN
           /\ Cardinality(U) \in Nat
           /\ \A n \in 1 .. Cardinality(U) : \E k \in U : Rank(k) = n
           /\ \A j, k \in U : Rank(j) = Rank(k) => j = k
           /\ \A k \in U : Rank(k) \in 1 .. Cardinality(U)
<1> DEFINE UpTo(k) == {j \in U : j <= k}
           Rank(k) == Cardinality(UpTo(k))
           m == Cardinality(U)
           rank == [k \in U |-> Rank(k)]
<1>1. m \in Nat
  BY FS_CardinalityType
<1>2. ASSUME NEW k \in U PROVE IsFiniteSet(UpTo(k)) /\ Rank(k) \in 1 .. m
  <2>1. IsFiniteSet(UpTo(k)) /\ Rank(k) <= m
    BY FS_Subset
  <2>2. Rank(k) \in Nat
    BY <2>1, FS_CardinalityType
  <2>3. k \in UpTo(k)
    OBVIOUS
  <2>4. Rank(k) # 0
    BY <2>1, <2>3, FS_EmptySet
  <2>5. QED
    BY <1>1, <2>1, <2>2, <2>4
<1>3. ASSUME NEW a \in U, NEW b \in U, Rank(a) = Rank(b), a < b PROVE FALSE
  <2>0. b <= b /\ ~(b <= a) /\ \A j \in U : j <= a => j <= b
    BY <1>3
  <2>1. UpTo(a) \subseteq UpTo(b) /\ b \in UpTo(b) /\ b \notin UpTo(a)
    BY <2>0, Zenon
  <2>2. PICK A, B : A = UpTo(a) /\ B = UpTo(b)
    OBVIOUS
  <2>3. A \subseteq B /\ IsFiniteSet(B) /\ Cardinality(A) = Cardinality(B)
    BY <1>2, <1>3, <2>1, <2>2
  <2>4. A = B
    BY <2>3, FS_Subset
  <2>5. QED
    BY <2>1, <2>2, <2>4
<1>4. ASSUME NEW a \in U, NEW b \in U, Rank(a) = Rank(b) PROVE a = b
  BY <1>3, <1>4
<1>5. IsFiniteSet(1 .. m) /\ Cardinality(1 .. m) = m
  BY <1>1, FS_Interval
<1>6. rank \in Injection(U, 1 .. m)
  <2>1. \A k \in U : rank[k] = Rank(k)
    OBVIOUS
  <2>2. rank \in [U -> 1 .. m]
    BY <1>2
  <2> HIDE DEF rank, Rank
  <2>3. \A a, b \in U : rank[a] = rank[b] => a = b
    BY <1>4, <2>1
  <2>4. QED
    BY <2>2, <2>3 DEF Injection, IsInjective
<1>7. rank \in Surjection(U, 1 .. m)
  BY <1>5, <1>6, FS_Injection
<1>8. \A n \in 1 .. m : \E k \in U : Rank(k) = n
  BY <1>7 DEF Surjection
<1>9. QED
  BY <1>1, <1>2, <1>4, <1>8

\* targets[] is filled with the descriptors that are open, each once.
LEMMA CompactedFacts ==
    ASSUME Table
    PROVE  LET s == S3!Compacted IN
           /\ \E n \in 0 .. child_no : s \in [1 .. n -> Fds]
           /\ \A j, k \in DOMAIN s : s[j] = s[k] => j = k
           /\ S3!ToSet(s) = OpenFds
<1> DEFINE U == {k \in Slots : child[k] # NoFd}
           Rank(k) == Cardinality({j \in U : j <= k})
           m == Cardinality(U)
           slot(n) == CHOOSE k \in U : Rank(k) = n
           s == [n \in 1 .. m |-> child[slot(n)]]
<1>1. S3!Used \subseteq Slots /\ S3!Used = 0 .. (child_no - 1) /\ S3!Empty = NoFd
  BY TableFacts DEF S3!Used, S3!Empty, NoFd
<1>2. S3!InUse = U
  BY <1>1, TableFacts DEF S3!InUse, S3!Holes
<1>3. S3!Compacted = s
  <2>1. S3!Cardinality(S3!InUse) = m
    BY <1>2, CardinalitySame
  <2>2. \A k : S3!Position(k) = Rank(k)
    BY <1>2, CardinalitySame DEF S3!Position
  <2> HIDE DEF U, Rank, m
  <2>3. ASSUME NEW n PROVE (CHOOSE k \in S3!InUse : S3!Position(k) = n) = slot(n)
    BY <1>2, <2>2
  <2> DEFINE at(n) == CHOOSE k \in S3!InUse : S3!Position(k) = n
  <2>4. S3!Compacted = [n \in 1 .. m |-> child[at(n)]]
    BY <2>1 DEF S3!Compacted
  <2>5. \A n : at(n) = slot(n)
    BY <2>3
  <2> HIDE DEF slot, at
  <2>6. QED
    BY <2>4, <2>5
<1>4. child_no \in Nat /\ MAX_CHILD \in Nat
  BY SocketAssumption DEF Table, Slots
<1>5. U \subseteq 0 .. (child_no - 1) /\ U \subseteq Nat
  BY TableFacts, FdsFacts
<1>6. IsFiniteSet(U) /\ m \in Nat /\ m <= child_no
  <2>1. IsFiniteSet(0 .. (child_no - 1)) /\ Cardinality(0 .. (child_no - 1)) = child_no
    BY <1>4, FS_Interval
  <2>2. IsFiniteSet(U) /\ m <= child_no
    BY <1>5, <2>1, FS_Subset
  <2>3. QED
    BY <2>2, FS_CardinalityType
<1>7. /\ \A k \in U : k \in Slots /\ child[k] \in OpenFds /\ child[k] \in Fds
      /\ \A j, k \in U : child[j] = child[k] => j = k
      /\ \A f \in OpenFds : \E k \in U : child[k] = f
  BY TableFacts
<1> HIDE DEF U
<1>8. /\ \A n \in 1 .. m : \E k \in U : Rank(k) = n
      /\ \A j, k \in U : Rank(j) = Rank(k) => j = k
      /\ \A k \in U : Rank(k) \in 1 .. m
  BY <1>5, <1>6, Ranks
<1> HIDE DEF Rank, m
<1>9. \A n \in 1 .. m : slot(n) \in U /\ Rank(slot(n)) = n
  BY <1>8
<1>10. \A k \in U : slot(Rank(k)) = k
  BY <1>8, <1>9
<1> HIDE DEF slot
<1>11. s \in [1 .. m -> Fds] /\ m \in 0 .. child_no
  BY <1>4, <1>6, <1>7, <1>9
<1>12. \A j, k \in DOMAIN s : s[j] = s[k] => j = k
  BY <1>7, <1>9
<1>13. {s[n] : n \in DOMAIN s} = OpenFds
  BY <1>7, <1>8, <1>9, <1>10
<1>14. QED
  BY <1>3, <1>11, <1>12, <1>13 DEF S3!ToSet

LEMMA PollStep ==
    ASSUME which = "poll", Shared, PollInv, [Next]_vars
    PROVE  Kinds /\ PollInv'
<1> DEFINE Good == Kinds /\ PollInv'
           Places == {"wait", "accept", "scan", "send", "killed"}
<1>0. /\ Types /\ Faithful /\ Table /\ pc \in Places
      /\ \E n \in 0 .. child_no : targets \in [1 .. n -> Fds]
      /\ \A j, k \in DOMAIN targets : targets[j] = targets[k] => j = k
      /\ revents \subseteq Fds \cup {Soc} /\ i \in 1 .. MAX_CHILD
      /\ pc = "accept" => \A f \in revents \ {Soc} : Live(f)
      /\ pc = "scan" => ReportedFrom(i)
      /\ pc = "send" => i \in DOMAIN targets /\ targets[i] = cur /\ ReportedFrom(i + 1)
      /\ MAX_CHILD \in Nat \ {0} /\ child_no \in Nat /\ child_no < MAX_CHILD
  <2>1. Types /\ Faithful
    BY DEF Shared
  <2>2. MAX_CHILD \in Nat \ {0}
    BY SocketAssumption
  <2>3. Table
    BY DEF PollInv
  <2>4. child_no \in Nat /\ child_no < MAX_CHILD
    BY <2>2, <2>3 DEF Table, Slots
  <2>5. QED
    BY <2>1, <2>2, <2>3, <2>4 DEF PollInv
<1>1. /\ S3!Empty = NoFd /\ S3!Used \subseteq Slots /\ S3!Used = 0 .. (child_no - 1)
      /\ \A k \in Slots : k \in Nat /\ k < MAX_CHILD
      /\ DOMAIN targets = 1 .. Len(targets) /\ Len(targets) \in Nat
      /\ \A k \in DOMAIN targets : /\ targets[k] \in Fds /\ targets[k] # Soc /\ targets[k] # NoFd
                                   /\ k \in Nat /\ k + 1 \in 1 .. MAX_CHILD
  <2>1. S3!Empty = NoFd /\ S3!Used = 0 .. (child_no - 1) /\ S3!Used \subseteq Slots
    BY <1>0, TableFacts DEF S3!Empty, NoFd, S3!Used
  <2>2. PICK n \in 0 .. child_no : targets \in [1 .. n -> Fds]
    BY <1>0
  <2>3. n \in Nat /\ n <= child_no /\ DOMAIN targets = 1 .. n
    BY <1>0, <2>2
  <2>4. targets \in Seq(Fds) /\ Len(targets) = n
    BY <2>2, <2>3
  <2>5. \A k \in 1 .. n : /\ targets[k] \in Fds /\ targets[k] # Soc /\ targets[k] # NoFd
                          /\ k \in Nat /\ k + 1 \in 1 .. MAX_CHILD
    BY <1>0, <2>2, <2>3, FdsFacts, TableFacts
  <2>6. QED
    BY <1>0, <2>1, <2>3, <2>4, <2>5, FdsFacts DEF Slots
\* What the pass is still to read stays live.
<1>2. ASSUME Kinds, UNCHANGED <<targets, revents>>, NEW m \in Int, NEW q \in Int, m <= q,
             ReportedFrom(m),
             \A k \in DOMAIN targets : k >= q /\ Live(targets[k]) => targets[k] \in OpenFds',
             pc' = "send" => UNCHANGED read \/ \A k \in DOMAIN targets : k >= q => cur' # targets[k]
      PROVE  \A k \in DOMAIN targets' : k >= q /\ targets'[k] \in revents' => Live(targets[k])'
  <2>1. SUFFICES ASSUME NEW k \in DOMAIN targets, k >= q, targets[k] \in revents
                 PROVE  Live(targets[k])'
    BY <1>2
  <2>2. PICK g : g = targets[k]
    OBVIOUS
  <2>3. g \in Fds /\ k \in Nat
    BY <1>1, <2>1, <2>2
  <2>4. Live(g)
    BY <1>2, <2>1, <2>2, <2>3 DEF ReportedFrom
  <2>5. g \in OpenFds'
    BY <1>2, <2>1, <2>2, <2>4
  <2>6. Live(g)'
    BY <1>2, <2>1, <2>2, <2>3, <2>4, <2>5, LiveStep
  <2>7. QED
    BY <1>2, <2>2, <2>6 DEF Live, Readable, HasLines
<1>3. ASSUME Kinds, Table', UNCHANGED <<targets, revents>>, child_no <= child_no', child_no' \in Nat,
             i' \in 1 .. MAX_CHILD, pc' \in Places \ {"accept"},
             pc' = "scan" => ReportedFrom(i)',
             pc' = "send" => i' \in DOMAIN targets /\ targets[i'] = cur' /\ ReportedFrom(i + 1)'
      PROVE  Good
  <2>1. \E n \in 0 .. child_no' : targets' \in [1 .. n -> Fds]
    <3>1. PICK n \in 0 .. child_no : targets \in [1 .. n -> Fds]
      BY <1>0
    <3>2. n \in 0 .. child_no'
      BY <1>0, <1>3, <3>1
    <3>3. QED
      BY <1>3, <3>1, <3>2
  <2>2. QED
    BY <1>0, <1>3, <2>1 DEF PollInv, Fds, Soc
\* The steps that leave the table alone.
<1>4. ASSUME Kinds, UNCHANGED <<child, child_no, fdConn, targets, revents>>,
             pc' \in {"wait", "scan", "killed"}, i' \in 1 .. MAX_CHILD,
             NEW m \in Int, pc' = "scan" => m <= i' /\ ReportedFrom(m)
      PROVE  Good
  <2>1. Table'
    BY <1>0, <1>4, TableKept
  <2>2. OpenFds' = OpenFds
    BY <1>4 DEF OpenFds
  <2>3. ASSUME pc' = "scan" PROVE ReportedFrom(i)'
    <3>1. PICK q \in Int : q = i'
      BY <1>0, <1>4
    <3>2. \A k \in DOMAIN targets' : k >= q /\ targets'[k] \in revents' => Live(targets[k])'
      BY <1>2, <1>4, <2>2, <2>3, <3>1 DEF Live
    <3>3. QED
      BY <3>1, <3>2 DEF ReportedFrom
  <2>4. QED
    BY <1>0, <1>3, <1>4, <2>1, <2>3
<1>5. CASE S3!Poll
  <2>1. /\ targets' = S3!Compacted /\ revents' = ReadyOf(S3!ToSet(S3!Compacted))
        /\ pc = "wait" /\ pc' = "accept"
        /\ UNCHANGED <<clientVars, fdConn, cur, reply, child, child_no, i>>
    BY <1>5, Same3 DEF S3!Poll, S3!clientVars, clientVars
  <2>2. OpenFds' = OpenFds /\ \A f : Live(f)' <=> Live(f)
    BY <2>1 DEF OpenFds, Live, Readable, HasLines, clientVars
  <2>3. /\ \E n \in 0 .. child_no : targets' \in [1 .. n -> Fds]
        /\ \A j, k \in DOMAIN targets' : targets'[j] = targets'[k] => j = k
        /\ revents' = ReadyOf(OpenFds)
    BY <1>0, <2>1, CompactedFacts
  <2>4. revents' \subseteq Fds \cup {Soc} /\ \A f \in revents' \ {Soc} : Live(f)
    BY <2>3, ReadyIsLive, FdsFacts, OpenFinite
  <2>5. Table'
    BY <1>0, <2>1, TableKept
  <2>6. QED
    BY <1>0, <2>1, <2>2, <2>3, <2>4, <2>5 DEF PollInv, Kinds, Looks, Pcs, Fds, Soc
<1>6. pc = "accept" => ReportedFrom(1)
  BY <1>0, <1>1 DEF ReportedFrom
<1>7. CASE S3!NothingToAccept \/ S3!AcceptFails \/ S3!SendKills \/ S3!PassEnds
  <2>1. /\ UNCHANGED <<clientVars, fdConn, cur, reply, child, child_no, targets, revents>>
        /\ \/ pc = "accept" /\ pc' = "scan" /\ i' = 1
           \/ pc' \in {"wait", "killed"} /\ i' = i
    <3>1. CASE S3!NothingToAccept \/ S3!AcceptFails
      BY <3>1 DEF S3!NothingToAccept, S3!AcceptFails, S3!AtListener, S3!ToScan, S3!clientVars, clientVars
    <3>2. CASE S3!SendKills
      BY <3>2, Same3 DEF S3!SendKills, S3!tableVars, ReplyKills
    <3>3. CASE S3!PassEnds
      BY <3>3 DEF S3!PassEnds, S3!tableVars, S3!clientVars, clientVars
    <3>4. QED
      BY <1>7, <3>1, <3>2, <3>3
  <2>2. Kinds
    BY <2>1 DEF Kinds, Looks, Pcs
  <2>3. i' \in 1 .. MAX_CHILD /\ (pc' = "scan" => 1 <= i' /\ ReportedFrom(1))
    BY <1>0, <1>6, <2>1
  <2>4. QED
    BY <1>0, <1>4, <2>1, <2>2, <2>3
<1>8. CASE S3!AcceptFull
  <2>1. /\ AcceptAndClose /\ UNCHANGED <<child, child_no, cur, reply, targets, revents>>
        /\ pc = "accept" /\ pc' = "scan" /\ i' = 1
    BY <1>8, Same3 DEF S3!AcceptFull, S3!AtListener, S3!ToScan
  <2>2. Kinds /\ fdConn' = fdConn
    BY <2>1 DEF Kinds, Refuses, AcceptAndClose, Pcs
  <2>3. i' \in 1 .. MAX_CHILD /\ (pc' = "scan" => 1 <= i' /\ ReportedFrom(1))
    BY <1>0, <1>6, <2>1
  <2>4. QED
    BY <1>0, <1>4, <2>1, <2>2, <2>3
<1>9. CASE S3!AcceptStore
  <2>1. pc = "accept" /\ pc' = "scan" /\ i' = 1 /\ UNCHANGED <<cur, reply, targets, revents>>
    BY <1>9 DEF S3!AcceptStore, S3!AtListener, S3!ToScan
  <2>2. PICK f \in Fds : AcceptAs(f) /\ S3!Store(f)
    BY <1>9, Same3 DEF S3!AcceptStore
  <2>3. Takes(f) /\ Kinds
    BY <2>1, <2>2 DEF Takes, Kinds, Pcs
  <2>4. \A j \in Slots : j < child_no <=> j \in S3!Used
    BY <1>0, <1>1
  <2>5. \E k \in Slots :
           /\ child' = [child EXCEPT ![k] = f]
           /\ \/ /\ child[k] = NoFd /\ k < child_no /\ UNCHANGED child_no
                 /\ \A j \in Slots : j < child_no /\ child[j] = NoFd => k <= j
              \/ /\ k = child_no /\ child_no' = child_no + 1 /\ child_no + 1 < MAX_CHILD
                 /\ \A j \in Slots : j < child_no => child[j] # NoFd
    <3>1. CASE \E k \in S3!Holes :
                  /\ \A j \in S3!Holes : k <= j
                  /\ child' = [child EXCEPT ![k] = f] /\ UNCHANGED child_no
      <4>1. PICK k \in S3!Holes : /\ \A j \in S3!Holes : k <= j
                                  /\ child' = [child EXCEPT ![k] = f] /\ UNCHANGED child_no
        BY <3>1
      <4>2. k \in Slots /\ child[k] = NoFd /\ k < child_no
        BY <1>1, <2>4, <4>1 DEF S3!Holes
      <4>3. \A j \in Slots : j < child_no /\ child[j] = NoFd => k <= j
        BY <1>1, <2>4, <4>1 DEF S3!Holes
      <4>4. QED
        BY <4>1, <4>2, <4>3
    <3>2. CASE /\ S3!Holes = {} /\ child_no + 1 < MAX_CHILD
               /\ child' = [child EXCEPT ![child_no] = f] /\ child_no' = child_no + 1
      <4>1. \A j \in Slots : j < child_no => child[j] # NoFd
        BY <1>1, <2>4, <3>2 DEF S3!Holes
      <4>2. child_no \in Slots
        BY <1>0 DEF Table
      <4>3. QED
        BY <3>2, <4>1, <4>2
    <3>3. QED
      BY <2>2, <3>1, <3>2 DEF S3!Store
  <2>6. PICK k \in Slots :
           /\ child' = [child EXCEPT ![k] = f]
           /\ \/ /\ child[k] = NoFd /\ k < child_no /\ UNCHANGED child_no
                 /\ \A j \in Slots : j < child_no /\ child[j] = NoFd => k <= j
              \/ /\ k = child_no /\ child_no' = child_no + 1 /\ child_no + 1 < MAX_CHILD
                 /\ \A j \in Slots : j < child_no => child[j] # NoFd
    BY <2>5
  <2>7. Table' /\ OpenFds \subseteq OpenFds'
    BY <1>0, <2>3, <2>6, TableTakes, OpenStep
  <2>8. \A j \in DOMAIN targets' : j >= 1 /\ targets'[j] \in revents' => Live(targets[j])'
    <3>1. ReportedFrom(1) /\ pc' # "send" /\ 1 <= 1
      BY <1>6, <2>1
    <3>2. \A j \in DOMAIN targets : j >= 1 /\ Live(targets[j]) => targets[j] \in OpenFds'
      BY <2>7 DEF Live
    <3>3. QED
      BY <1>2, <2>1, <2>3, <3>1, <3>2
  <2>9. ReportedFrom(i)'
    BY <2>1, <2>8 DEF ReportedFrom
  <2>10. child_no <= child_no' /\ child_no' \in Nat
    BY <1>0, <2>6
  <2>11. QED
    BY <1>0, <1>3, <2>1, <2>3, <2>7, <2>9, <2>10
<1>10. ASSUME NEW k \in 1 .. MAX_CHILD, S3!IsNext(k)
       PROVE  /\ k \in DOMAIN targets /\ k >= i /\ targets[k] \in revents /\ pc = "scan"
              /\ k \in Nat /\ i \in Nat /\ i <= k + 1 /\ k + 1 \in 1 .. MAX_CHILD
              /\ ReportedFrom(i) /\ Live(targets[k]) /\ targets[k] \in Fds
  <2>1. k \in i .. Len(targets) /\ targets[k] \in revents /\ pc = "scan"
    BY <1>10 DEF S3!IsNext
  <2>2. k \in DOMAIN targets /\ k >= i /\ k \in Nat /\ i \in Nat
    BY <1>0, <1>1, <2>1
  <2>3. QED
    BY <1>0, <1>1, <2>1, <2>2 DEF ReportedFrom
<1>11. ASSUME NEW k \in 1 .. MAX_CHILD, S3!Recv(k) PROVE Good
  <2>1. /\ S3!IsNext(k) /\ RecvLine(targets[k]) /\ i' = k
        /\ UNCHANGED <<child, child_no, targets, revents>>
    BY <1>11, Same3 DEF S3!Recv
  <2>2. /\ k \in DOMAIN targets /\ k \in Nat /\ i \in Nat /\ i <= k + 1
        /\ ReportedFrom(i) /\ Live(targets[k]) /\ targets[k] \in Fds
    BY <1>10, <2>1
  <2>3. Receives(targets[k]) /\ Kinds
    BY <2>1, <2>2 DEF Receives, Kinds
  <2>4. UNCHANGED fdConn /\ cur' = targets[k] /\ pc' = "send"
    BY <2>1 DEF RecvLine, RecvFrom
  <2>5. Table' /\ OpenFds' = OpenFds
    BY <1>0, <2>1, <2>4, TableKept DEF OpenFds
  <2>6. \A j \in DOMAIN targets : j >= k + 1 => cur' # targets[j]
    BY <1>0, <1>1, <2>2, <2>4
  <2>7. i \in Int /\ k + 1 \in Int
    BY <2>2
  <2>8. \A j \in DOMAIN targets' : j >= k + 1 /\ targets'[j] \in revents' => Live(targets[j])'
    BY <1>2, <2>1, <2>2, <2>3, <2>5, <2>6, <2>7 DEF Live
  <2>9. ReportedFrom(i + 1)'
    BY <2>1, <2>8 DEF ReportedFrom
  <2>10. QED
    BY <1>0, <1>3, <2>1, <2>2, <2>3, <2>4, <2>5, <2>9
<1>12. CASE S3!Reply
  <2>1. ReplySent /\ i' = i + 1 /\ UNCHANGED <<child, child_no, targets, revents>>
    BY <1>12, Same3 DEF S3!Reply
  <2>2. Kinds /\ pc = "send" /\ pc' = "scan" /\ fdConn' = fdConn
    BY <2>1 DEF ReplySent, SendTo, Kinds
  <2>3. i' \in 1 .. MAX_CHILD /\ i + 1 \in Int /\ i + 1 <= i' /\ ReportedFrom(i + 1)
    BY <1>0, <1>1, <2>1, <2>2
  <2>4. QED
    BY <1>0, <1>4, <2>1, <2>2, <2>3
<1>13. ASSUME NEW k \in DOMAIN targets, Drops(targets[k]), pc' = "scan", ReportedFrom(k + 1),
              S3!ClearChild(k), i' = k + 1, UNCHANGED <<child_no, targets, revents>>
       PROVE  Good
  <2>1. PICK j \in Slots : child[j] = targets[k] /\ child' = [child EXCEPT ![j] = NoFd]
    BY <1>1, <1>13 DEF S3!ClearChild
  <2>2. targets[k] \in Fds /\ targets[k] # NoFd /\ k + 1 \in 1 .. MAX_CHILD /\ k + 1 \in Int
    BY <1>1
  <2>3. Kinds
    BY <1>13, <2>2 DEF Kinds
  <2>4. Table'
    BY <1>0, <1>13, <2>1, <2>2, TableDrops
  <2>5. OpenFds' = OpenFds \ {targets[k]}
    BY <1>0, <1>13, <2>2, OpenStep
  <2>6. \A n \in DOMAIN targets : n >= k + 1 => targets[n] # targets[k]
    BY <1>0, <1>1
  <2>7. \A n \in DOMAIN targets' : n >= k + 1 /\ targets'[n] \in revents' => Live(targets[n])'
    <3>1. pc' # "send" /\ k + 1 <= k + 1
      BY <1>13, <2>2
    <3>2. \A n \in DOMAIN targets : n >= k + 1 /\ Live(targets[n]) => targets[n] \in OpenFds'
      BY <2>5, <2>6 DEF Live
    <3>3. QED
      BY <1>2, <1>13, <2>2, <2>3, <3>1, <3>2
  <2>8. ReportedFrom(i)'
    BY <1>13, <2>7 DEF ReportedFrom
  <2>9. QED
    BY <1>0, <1>3, <1>13, <2>2, <2>3, <2>4, <2>8
<1>14. ASSUME NEW k \in 1 .. MAX_CHILD, S3!HangUp(k) PROVE Good
  <2>1. /\ S3!IsNext(k) /\ AtEnd(fdConn[targets[k]]) /\ CloseFd(targets[k]) /\ S3!ClearChild(k)
        /\ i' = k + 1 /\ UNCHANGED <<child_no, targets, revents, pc, cur, reply>>
    BY <1>14, Same3 DEF S3!HangUp, S3!Drop, S3!threadVars
  <2>2. /\ k \in DOMAIN targets /\ pc = "scan" /\ Live(targets[k]) /\ ReportedFrom(i)
        /\ i <= k + 1 /\ i \in Nat /\ k \in Nat
    BY <1>10, <2>1
  <2>3. Drops(targets[k])
    BY <2>1, <2>2, Closes DEF Pcs, Live
  <2>4. ReportedFrom(k + 1)
    BY <1>1, <2>2 DEF ReportedFrom
  <2>5. QED
    BY <1>13, <2>1, <2>2, <2>3, <2>4
<1>15. CASE S3!SendFails
  <2>1. /\ ReplyFails /\ CloseFd(targets[i]) /\ S3!ClearChild(i) /\ i' = i + 1
        /\ UNCHANGED <<child_no, targets, revents>>
    BY <1>15, Same3 DEF S3!SendFails, S3!Drop
  <2>2. /\ pc = "send" /\ pc' = "scan" /\ i \in DOMAIN targets /\ targets[i] = cur
        /\ ReportedFrom(i + 1)
    BY <1>0, <2>1 DEF ReplyFails
  <2>3. Drops(targets[i])
    BY <2>1, <2>2, Closes DEF ReplyFails, Pcs
  <2>4. QED
    BY <1>13, <2>1, <2>2, <2>3
<1>16. ASSUME AClient \/ Unchanged, UNCHANGED <<kept, table, own2, own3, own4>> PROVE Good
  <2>1. Kinds /\ UNCHANGED <<fdConn, pc, cur, child, child_no, i, targets, revents>>
    BY <1>16 DEF Kinds, AClient, Unchanged, threadVars, table, own3
  <2>2. Table' /\ OpenFds' = OpenFds
    BY <1>0, <2>1, TableKept DEF OpenFds
  <2>3. UNCHANGED read
    BY <1>0, <1>16, ClientTypes DEF AClient, Unchanged, clientVars
  <2>4. pc = "accept" => \A f \in revents \ {Soc} : Live(f)'
    BY <1>0, <2>1, <2>2, <2>3, LiveStep DEF Live
  <2>5. ASSUME NEW m \in Int, ReportedFrom(m) PROVE ReportedFrom(m)'
    <3>1. m <= m
      OBVIOUS
    <3>2. \A k \in DOMAIN targets' : k >= m /\ targets'[k] \in revents' => Live(targets[k])'
      BY <1>2, <2>1, <2>2, <2>3, <2>5, <3>1 DEF Live
    <3>3. QED
      BY <3>2 DEF ReportedFrom
  <2>6. i \in Int /\ i + 1 \in Int
    BY <1>0
  <2>7. /\ pc = "scan" => ReportedFrom(i)'
        /\ pc = "send" => ReportedFrom(i + 1)'
    BY <1>0, <2>1, <2>5, <2>6
  <2>8. QED
    BY <1>0, <2>1, <2>2, <2>4, <2>7 DEF PollInv, Fds, Soc
<1>17. CASE S3!Server
  BY <1>5, <1>7, <1>8, <1>9, <1>11, <1>12, <1>14, <1>15, <1>17 DEF S3!Server
<1>18. QED
  BY <1>16, <1>17, StepsOf

---------------------------------------------------------------------------
(* The invariant of the four servers of one thread                         *)

LEMMA InitShared == OneThreadInit => Shared /\ OpenFds = {} /\ pc = "wait"
<1> SUFFICES ASSUME OneThreadInit PROVE Shared /\ OpenFds = {} /\ pc = "wait"
  OBVIOUS
<1>1. /\ phase = [c \in Conns |-> "new"] /\ sent = [c \in Conns |-> 0] /\ read = [c \in Conns |-> 0]
      /\ out = [c \in Conns |-> << >>] /\ got = [c \in Conns |-> << >>] /\ backlog = << >>
      /\ fdConn = [f \in Fds |-> NoConn] /\ pc = "wait" /\ cur = Soc /\ reply = NoLine
  BY DEF OneThreadInit, SocketInit, ClientInit
<1>2. Types
  <2>1. 0 \in 0 .. MaxLines /\ 0 <= 0
    BY ClientAssumption
  <2>2. << >> \in Seq(Replies) /\ << >> \in Seq(Conns)
    OBVIOUS
  <2>3. phase \in [Conns -> Phases] /\ sent \in Counts /\ read \in Counts
    BY <1>1, <2>1 DEF Counts, Phases
  <2>4. out \in Streams /\ got \in Streams /\ \A c \in Conns : read[c] <= sent[c]
    BY <1>1, <2>1, <2>2 DEF Streams
  <2>5. QED
    BY <1>1, <2>2, <2>3, <2>4, NoLineIsReply DEF Types, Pcs
<1>3. DOMAIN backlog = {} /\ OpenFds = {}
  BY <1>1 DEF OpenFds
<1>4. OnePlace
  BY <1>1, <1>3, ClientAssumption DEF OnePlace
<1>5. Faithful
  <2>1. ASSUME NEW c \in Conns PROVE Sent(c) = << >> /\ LastReply(c) = 0
    <3>1. Sent(c) = << >>
      BY <1>1 DEF Sent
    <3>2. QED
      BY <3>1 DEF LastReply
  <2>2. read = [c \in Conns |-> 0]
    BY <1>1
  <2>3. ASSUME NEW c \in Conns PROVE read[c] = 0
    BY <2>2, Zenon
  <2>4. ASSUME NEW c \in Conns PROVE LastReply(c) <= read[c]
    BY <2>1, <2>3
  <2>5. QED
    BY <1>1, <1>3, <2>1, <2>4 DEF Faithful
<1>6. QED
  BY <1>1, <1>2, <1>3, <1>4, <1>5 DEF Shared

LEMMA InitIInv == Init => IInv
<1> SUFFICES ASSUME Init PROVE IInv
  OBVIOUS
<1>1. MAX_CHILD \in Nat \ {0}
  BY SocketAssumption
<1>2. ASSUME OpenFds = {}, child = [k \in Slots |-> -1], child_no = 0 PROVE Table
  BY <1>1, <1>2 DEF Table, NoFd, Slots
<1>3. CASE which = "select"
  <2>1. OneThreadInit /\ child = [k \in Slots |-> -1] /\ child_no = 0 /\ mask = {} /\ i = 0
    BY <1>3, Same2 DEF Init, S2!Init, S2!Slots, S2!Empty, Slots
  <2>2. SelectInv
    BY <1>1, <1>2, <2>1, InitShared DEF SelectInv
  <2>3. QED
    BY <1>3, <2>1, <2>2, InitShared DEF IInv, Init
<1>4. CASE which = "poll"
  <2>1. /\ OneThreadInit /\ child = [k \in Slots |-> -1] /\ child_no = 0 /\ targets = << >>
        /\ revents = {} /\ i = 1
    BY <1>4, Same3 DEF Init, S3!Init, S3!Slots, S3!Empty, Slots
  <2>2. 0 \in 0 .. child_no /\ targets \in [1 .. 0 -> Fds] /\ DOMAIN targets = {}
    BY <2>1
  <2>3. PollInv
    BY <1>1, <1>2, <2>1, <2>2, InitShared DEF PollInv
  <2>4. QED
    BY <1>4, <2>1, <2>3, InitShared DEF IInv, Init
<1>5. CASE which = "epoll"
  <2>1. OneThreadInit /\ events = {} /\ count = 0
    BY <1>5, Same4 DEF Init, S4!Init
  <2>2. Cardinality({}) = 0
    BY FS_EmptySet
  <2>3. EpollInv
    BY <1>1, <2>1, <2>2, InitShared DEF EpollInv, BatchLive
  <2>4. QED
    BY <1>5, <2>1, <2>3, InitShared DEF IInv, Init
<1>6. CASE which = "libevent"
  <2>1. OneThreadInit /\ events = {} /\ registered = {}
    BY <1>6, SameL DEF Init, SL!Init
  <2>2. LibeventInv
    BY <2>1, InitShared DEF LibeventInv, BatchLive
  <2>3. QED
    BY <1>6, <2>1, <2>2, InitShared DEF IInv, Init
<1>7. QED
  BY <1>3, <1>4, <1>5, <1>6, ServersAssumption DEF IInv, Init

LEMMA WhichStays == [Next]_vars => which' = which
<1>1. ASSUME Next PROVE which' = which
  BY <1>1 DEF Next, Server, Select, Poll, Epoll, Libevent, Receiver, Sender, Wakeup, OfQueue,
              ClientStep, kept
<1>2. QED
  BY <1>1 DEF vars, kept

LEMMA StepIInv ==
    IInv /\ [Next]_vars => /\ IInv'
                           /\ which # "queue" => Kinds \/ (Ends /\ Interrupted)
<1> SUFFICES ASSUME IInv, [Next]_vars
             PROVE  IInv' /\ (which # "queue" => Kinds \/ (Ends /\ Interrupted))
  OBVIOUS
<1>0. which \in Servers /\ which' = which /\ (which # "queue" => Shared)
  BY WhichStays DEF IInv
<1>1. CASE which = "select"
  <2>1. Kinds /\ SelectInv'
    BY <1>0, <1>1, SelectStep DEF IInv
  <2>2. QED
    BY <1>0, <1>1, <2>1, SharedStep DEF IInv
<1>2. CASE which = "poll"
  <2>1. Kinds /\ PollInv'
    BY <1>0, <1>2, PollStep DEF IInv
  <2>2. QED
    BY <1>0, <1>2, <2>1, SharedStep DEF IInv
<1>3. CASE which = "epoll"
  <2>1. Kinds /\ EpollInv'
    BY <1>0, <1>3, EpollStep DEF IInv
  <2>2. QED
    BY <1>0, <1>3, <2>1, SharedStep DEF IInv
<1>4. CASE which = "libevent"
  <2>1. (Kinds \/ (Ends /\ Interrupted)) /\ LibeventInv'
    BY <1>0, <1>4, LibeventStep DEF IInv
  <2>2. QED
    BY <1>0, <1>4, <2>1, SharedStep DEF IInv
<1>5. QED
  BY <1>0, <1>1, <1>2, <1>3, <1>4, ServersAssumption DEF IInv

\* The invariant of the four servers that do everything in one thread.
THEOREM InductiveInvariant == Spec => []IInv
  BY InitIInv, StepIInv, PTL DEF Spec

---------------------------------------------------------------------------
(* server9.c                                                               *)

SP == INSTANCE Server9Proofs

\* The program as MCMultiplexers has it is the one Server9Proofs is about.
LEMMA QueueSame ==
    /\ S9!Init <=> SP!Init
    /\ S9!Next <=> SP!Next
    /\ S9!TypeOK <=> SP!TypeOK
    /\ S9!CountIsOpen <=> SP!CountIsOpen
    /\ S9!EventsAreLive <=> SP!EventsAreLive
<1> USE DEF S9!clientVars, S9!serverVars, S9!queueVars, S9!threadVars, S9!Fds, S9!Soc, S9!OpenFds,
            S9!FreeFds, S9!Senders, S9!Slots, S9!Replies, S9!Phases, S9!NoLine
<1> USE DEF SP!clientVars, SP!serverVars, SP!queueVars, SP!threadVars, SP!Fds, SP!Soc, SP!OpenFds,
            SP!FreeFds, SP!Senders, SP!Slots, SP!Replies, SP!Phases, SP!NoLine
<1>1. S9!Init <=> SP!Init
  BY DEF S9!Init, SP!Init, S9!SocketInit, SP!SocketInit, S9!ClientInit, SP!ClientInit
<1>2. /\ \A S : S9!ReadyOf(S) = SP!ReadyOf(S)
      /\ \A c : /\ S9!AtEnd(c) <=> SP!AtEnd(c)
                /\ S9!Broken(c) <=> SP!Broken(c)
                /\ S9!HangUpOn(c) <=> SP!HangUpOn(c)
                /\ S9!Readable(c) <=> SP!Readable(c)
  BY DEF S9!ReadyOf, SP!ReadyOf, S9!AtEnd, SP!AtEnd, S9!HasLines, SP!HasLines, S9!Readable,
         SP!Readable, S9!Broken, SP!Broken, S9!HangUpOn, SP!HangUpOn
<1>3. /\ \A f : /\ S9!AcceptAs(f) <=> SP!AcceptAs(f)
                /\ S9!CloseFd(f) <=> SP!CloseFd(f)
                /\ S9!RecvFrom(f) <=> SP!RecvFrom(f)
                /\ S9!FirstLine(f) = SP!FirstLine(f)
                /\ \A l : S9!SendTo(f, l) <=> SP!SendTo(f, l)
      /\ S9!AcceptAndClose <=> SP!AcceptAndClose
  BY <1>2 DEF S9!AcceptAs, SP!AcceptAs, S9!CloseFd, SP!CloseFd, S9!RecvFrom, SP!RecvFrom,
              S9!TakeLines, SP!TakeLines, S9!FirstLine, SP!FirstLine, S9!SendTo, SP!SendTo,
              S9!Deliver, SP!Deliver, S9!AcceptAndClose, SP!AcceptAndClose
<1>4. S9!AcceptLoop <=> SP!AcceptLoop
  <2> USE DEF S9!AtListener, SP!AtListener, S9!Full, SP!Full, S9!NextEvent, SP!NextEvent
  <2>1. S9!EpollWait <=> SP!EpollWait
    BY <1>2 DEF S9!EpollWait, SP!EpollWait
  <2>2. /\ S9!AcceptFails <=> SP!AcceptFails
        /\ S9!AcceptFull <=> SP!AcceptFull
        /\ S9!AcceptAdd <=> SP!AcceptAdd
        /\ S9!AcceptAddFails <=> SP!AcceptAddFails
    BY <1>3 DEF S9!AcceptFails, SP!AcceptFails, S9!AcceptFull, SP!AcceptFull, S9!AcceptAdd,
                SP!AcceptAdd, S9!AcceptAddFails, SP!AcceptAddFails
  <2>3. \A f : /\ S9!MarkSlot(f) <=> SP!MarkSlot(f)
               /\ S9!Recv(f) <=> SP!Recv(f)
               /\ S9!HangUp(f) <=> SP!HangUp(f)
    BY <1>2, <1>3 DEF S9!MarkSlot, SP!MarkSlot, S9!Recv, SP!Recv, S9!HangUp, SP!HangUp,
                      S9!EndOfData, SP!EndOfData, S9!QueueOf, SP!QueueOf
  <2>4. S9!Push <=> SP!Push
    BY DEF S9!Push, SP!Push, S9!Signal, SP!Signal, S9!QUEUE_NEXT, SP!QUEUE_NEXT,
           S9!QueueOf, SP!QueueOf
  <2>5. QED
    BY <2>1, <2>2, <2>3, <2>4 DEF S9!AcceptLoop, SP!AcceptLoop
<1>5. \A q : (S9!SendThread(q) <=> SP!SendThread(q)) /\ (S9!SpuriousWakeup(q) <=> SP!SpuriousWakeup(q))
  <2> USE DEF S9!Alive, SP!Alive, S9!AtSend, SP!AtSend, S9!Addressee, SP!Addressee,
              S9!ReplyFd, SP!ReplyFd
  <2> TAKE q
  <2>1. /\ S9!TakeRequest(q) <=> SP!TakeRequest(q)
        /\ S9!WaitForRequest(q) <=> SP!WaitForRequest(q)
        /\ S9!SpuriousWakeup(q) <=> SP!SpuriousWakeup(q)
        /\ S9!BuildReply(q) <=> SP!BuildReply(q)
    BY DEF S9!TakeRequest, SP!TakeRequest, S9!WaitForRequest, SP!WaitForRequest,
           S9!SpuriousWakeup, SP!SpuriousWakeup, S9!BuildReply, SP!BuildReply,
           S9!QUEUE_NEXT, SP!QUEUE_NEXT
  <2>2. S9!SendReply(q) <=> SP!SendReply(q)
    BY <1>3 DEF S9!SendReply, SP!SendReply
  <2>3. (S9!SendFails(q) <=> SP!SendFails(q)) /\ (S9!SendKills(q) <=> SP!SendKills(q))
    BY <1>2 DEF S9!SendFails, SP!SendFails, S9!SendKills, SP!SendKills
  <2>4. QED
    BY <2>1, <2>2, <2>3 DEF S9!SendThread, SP!SendThread
<1>6. \A c : S9!Client(c) <=> SP!Client(c)
  BY DEF S9!Client, SP!Client, S9!Connect, SP!Connect, S9!SendLine, SP!SendLine,
         S9!ReadReply, SP!ReadReply, S9!CloseConn, SP!CloseConn, S9!Answered, SP!Answered
<1>7. S9!Next <=> SP!Next
  BY <1>4, <1>5, <1>6 DEF S9!Next, SP!Next, S9!ClientStep, SP!ClientStep
<1>8. S9!TypeOK <=> SP!TypeOK
  BY DEF S9!TypeOK, SP!TypeOK
<1>9. S9!CountIsOpen <=> SP!CountIsOpen
  BY DEF S9!CountIsOpen, SP!CountIsOpen, S9!Cardinality, SP!Cardinality
<1>10. S9!EventsAreLive <=> SP!EventsAreLive
  BY <1>2 DEF S9!EventsAreLive, SP!EventsAreLive
<1>11. QED
  BY <1>1, <1>7, <1>8, <1>9, <1>10

\* The invariant of server9.c, of the program as it is chosen here.
QueueInv == which = "queue" => SP!IInv

LEMMA QueueStep ==
    ASSUME which = "queue", [Next]_vars
    PROVE  [S9!Next]_(S9!vars)
<1>1. CASE Receiver
  BY <1>1 DEF Receiver, S9!Next
<1>2. ASSUME NEW q \in S9!Senders, Sender(q) \/ Wakeup(q) PROVE S9!Next
  BY <1>2 DEF Sender, Wakeup, S9!Next
<1>3. CASE ClientStep
  <2>1. \A c : Client(c) <=> S9!Client(c)
    BY DEF Client, S9!Client, Connect, S9!Connect, SendLine, S9!SendLine, ReadReply,
           S9!ReadReply, CloseConn, S9!CloseConn, Answered, S9!Answered
  <2>2. S9!ClientStep
    BY <1>3, <2>1 DEF ClientStep, S9!ClientStep, S9!serverVars, S9!queueVars, S9!threadVars,
                      threadVars, kept, own4, own9
  <2>3. QED
    BY <2>2 DEF S9!Next
<1>4. CASE UNCHANGED vars
  BY <1>4 DEF vars, S9!vars, clientVars, S9!clientVars, threadVars, S9!threadVars, kept, own4,
              own9, S9!serverVars, S9!queueVars
<1>5. ~Server
  BY DEF Server, Select, Poll, Epoll, Libevent
<1>6. QED
  BY <1>1, <1>2, <1>3, <1>4, <1>5 DEF Next

LEMMA QueueHolds == Spec => []QueueInv
<1>1. Init => QueueInv
  BY QueueSame, SP!InitIInv, ClientAssumption, SocketAssumption, ServerAssumption DEF Init, QueueInv
<1>2. QueueInv /\ [Next]_vars => QueueInv'
  <2> SUFFICES ASSUME QueueInv, [Next]_vars, which' = "queue" PROVE SP!IInv'
    BY DEF QueueInv
  <2>1. which = "queue" /\ SP!IInv
    BY WhichStays DEF QueueInv
  <2>2. [SP!Next]_(SP!vars)
    BY <2>1, QueueStep, QueueSame
       DEF S9!vars, SP!vars, S9!clientVars, SP!clientVars, S9!serverVars, SP!serverVars,
           S9!queueVars, SP!queueVars, S9!threadVars, SP!threadVars
  <2>3. QED
    BY <2>1, <2>2, SP!StepIInv, ClientAssumption, SocketAssumption, ServerAssumption
<1>3. QED
  BY <1>1, <1>2, PTL DEF Spec

---------------------------------------------------------------------------
(* What the invariants say                                                 *)

LEMMA SharedTypeOK == Shared => ThreadTypeOK
  BY DEF Shared, Types, ThreadTypeOK, Pcs

\* What each server believes about its descriptors is what the kernel has open, its
\* arrays and tables suffice, and server2.c prints the number of its children: slots
\* and descriptors are handed out lowest first, so that slot k of child[] can hold no
\* descriptor but the k-th.
THEOREM BooksCorrect == Spec => []BooksAgree
<1>1. IInv /\ QueueInv => BooksAgree
  <2> SUFFICES ASSUME IInv, QueueInv PROVE BooksAgree
    OBVIOUS
  <2>1. ASSUME which = "select" PROVE S2!TypeOK /\ S2!TableIsOpen /\ S2!ShownIsChildren
    <3>1. Table /\ ThreadTypeOK /\ SelectInv
      BY <2>1, SharedTypeOK DEF IInv, SelectInv
    <3>2. S2!Slots = Slots /\ S2!Empty = NoFd /\ S2!Used = 0 .. (child_no - 1)
      BY DEF S2!Slots, Slots, S2!Empty, NoFd, S2!Used
    <3>3. S2!TypeOK
      BY <3>1, <3>2, Same2 DEF S2!TypeOK, SelectInv, Table
    <3>4. S2!Children = OpenFds
      BY <3>1, <3>2, TableFacts DEF S2!Children
    <3>5. S2!TableIsOpen
      BY <3>1, <3>2, <3>4, Same2, TableFacts DEF S2!TableIsOpen
    <3>6. S2!ShownIsChildren
      BY <3>1, <3>4, CardinalitySame DEF S2!ShownIsChildren, SelectInv
    <3>7. QED
      BY <3>3, <3>5, <3>6
  <2>2. ASSUME which = "poll" PROVE S3!TypeOK /\ S3!TableIsOpen
    <3>1. Table /\ ThreadTypeOK /\ PollInv
      BY <2>2, SharedTypeOK DEF IInv, PollInv
    <3>2. S3!Slots = Slots /\ S3!Empty = NoFd /\ S3!Used = 0 .. (child_no - 1)
      BY DEF S3!Slots, Slots, S3!Empty, NoFd, S3!Used
    <3>3. S3!ToSet(targets) \subseteq Fds
      BY <3>1 DEF PollInv, S3!ToSet
    <3>4. S3!TypeOK
      BY <3>1, <3>2, <3>3, Same3 DEF S3!TypeOK, PollInv, Table
    <3>5. S3!InUse = {k \in Slots : child[k] # NoFd}
      BY <3>1, <3>2, TableFacts DEF S3!InUse, S3!Holes
    <3>6. {child[k] : k \in S3!InUse} = OpenFds
      BY <3>1, <3>5, TableFacts
    <3>7. S3!TableIsOpen
      BY <3>1, <3>5, <3>6, Same3, TableFacts DEF S3!TableIsOpen
    <3>8. QED
      BY <3>4, <3>7
  <2>3. ASSUME which = "epoll" PROVE S4!TypeOK /\ S4!CountIsOpen /\ S4!BatchFits
    <3>1. ThreadTypeOK /\ EpollInv /\ MAX_CHILD \in Nat \ {0}
      BY <2>3, SharedTypeOK, SocketAssumption DEF IInv
    <3>2. S4!Cardinality(OpenFds) = Cardinality(OpenFds)
      BY DEF Cardinality, S4!Cardinality
    <3>3. count = Cardinality(OpenFds) /\ count \in 0 .. (MAX_CHILD - 1) /\ 1 + count <= MAX_CHILD
      BY <3>1 DEF EpollInv
    <3>4. QED
      BY <3>1, <3>2, <3>3, Same4 DEF S4!TypeOK, S4!CountIsOpen, S4!BatchFits, EpollInv, BatchLive
  <2>4. ASSUME which = "libevent" PROVE SL!TypeOK /\ SL!EventsAreOpen
    <3>1. ThreadTypeOK /\ LibeventInv
      BY <2>4, SharedTypeOK DEF IInv
    <3>2. QED
      BY <3>1, SameL, OpenFinite DEF SL!TypeOK, SL!EventsAreOpen, LibeventInv, BatchLive
  <2>5. ASSUME which = "queue" PROVE S9!TypeOK /\ S9!CountIsOpen
    BY <2>5, QueueSame DEF QueueInv, SP!IInv
  <2>6. QED
    BY <2>1, <2>2, <2>3, <2>4, <2>5 DEF BooksAgree, TypeOK
<1>2. QED
  BY InductiveInvariant, QueueHolds, <1>1, PTL

\* No recv() of a pass blocks: what the mask, targets[] or the batch of events still
\* holds is open and readable, whatever was closed and accepted since it was filled.
THEOREM NeverBlocksCorrect == Spec => []NeverBlocksOnRecv
<1>1. IInv /\ QueueInv => NeverBlocksOnRecv
  <2> SUFFICES ASSUME IInv, QueueInv PROVE NeverBlocksOnRecv
    OBVIOUS
  <2>1. ASSUME which = "select" PROVE S2!ScanNeverBlocks
    <3>1. Table /\ (pc = "scan" => MarkedFrom(i))
      BY <2>1 DEF IInv, SelectInv
    <3>2. S2!Empty = NoFd /\ S2!Used \subseteq Slots
      BY <3>1, TableFacts DEF S2!Empty, NoFd, S2!Used
    <3>3. ASSUME pc = "scan", NEW k \in S2!Used, k >= i, S2!Marked(k) PROVE Live(child[k])
      BY <3>1, <3>2, <3>3 DEF MarkedFrom, S2!Marked
    <3>4. QED
      BY <3>3, Same2 DEF S2!ScanNeverBlocks, NeverBlocks, Live
  <2>2. ASSUME which = "poll" PROVE S3!ScanNeverBlocks
    <3>1. pc = "scan" => ReportedFrom(i)
      BY <2>2 DEF IInv, PollInv
    <3>2. DOMAIN targets = 1 .. Len(targets) /\ Len(targets) \in Nat /\ i \in Nat \ {0}
      <4>1. i \in Nat \ {0} /\ child_no \in Nat
        BY <2>2, SocketAssumption DEF IInv, PollInv, Table, Slots
      <4>2. PICK n \in 0 .. child_no : targets \in [1 .. n -> Fds]
        BY <2>2 DEF IInv, PollInv
      <4>3. n \in Nat
        BY <4>1, <4>2
      <4>4. Len(targets) = n
        BY <4>2, <4>3
      <4>5. QED
        BY <4>1, <4>2, <4>3, <4>4
    <3>3. ASSUME pc = "scan", NEW k \in i .. Len(targets), targets[k] \in revents
          PROVE  Live(targets[k])
      BY <3>1, <3>2, <3>3 DEF ReportedFrom
    <3>4. QED
      BY <3>3, Same3 DEF S3!ScanNeverBlocks, NeverBlocks, Live
  <2>3. ASSUME which = "epoll" PROVE S4!EventsAreLive
    BY <2>3, Same4 DEF IInv, EpollInv, BatchLive, S4!EventsAreLive, NeverBlocks, Live
  <2>4. ASSUME which = "libevent" PROVE SL!EventsAreLive
    BY <2>4, SameL DEF IInv, LibeventInv, BatchLive, SL!EventsAreLive, NeverBlocks, Live
  <2>5. ASSUME which = "queue" PROVE S9!EventsAreLive
    BY <2>5, QueueSame DEF QueueInv, SP!IInv
  <2>6. QED
    BY <2>1, <2>2, <2>3, <2>4, <2>5 DEF NeverBlocksOnRecv
<1>2. QED
  BY InductiveInvariant, QueueHolds, <1>1, PTL

---------------------------------------------------------------------------
(* Who is turned away                                                      *)

\* A server of one thread hangs up on a client only by closing what it has just accepted.
LEMMA TurnedAway ==
    ASSUME Shared, Kinds, NEW c \in Conns, phase[c] = "up", phase'[c] = "hungup"
    PROVE  AcceptAndClose
<1>1. phase \in [Conns -> Phases]
  BY DEF Shared, Types
<1>2. phase' # phase
  OBVIOUS
<1>3. CASE Looks \/ Unchanged \/ ReplySent
  BY <1>2, <1>3 DEF Looks, Unchanged, ReplySent, SendTo, clientVars
<1>4. CASE AClient
  BY <1>1, <1>4 DEF AClient, Client, Connect, SendLine, ReadReply, CloseConn
<1>5. ASSUME NEW f \in Fds, Takes(f) \/ Receives(f) \/ Drops(f) PROVE FALSE
  BY <1>2, <1>5, DropKeepsClients DEF Takes, AcceptAs, Receives, RecvLine, RecvFrom, Shared
<1>6. QED
  BY <1>3, <1>4, <1>5 DEF Kinds, Refuses

\* Then the queue has become shorter, and no descriptor has been given out.
LEMMA HeadLeaves ==
    ASSUME Shared, AcceptAndClose
    PROVE  backlog' # backlog /\ UNCHANGED fdConn /\ \A f \in Fds : ~AcceptAs(f)
<1>1. backlog # << >> /\ backlog' = Tail(backlog) /\ UNCHANGED fdConn /\ backlog \in Seq(Conns)
  BY DEF AcceptAndClose, Shared, Types
<1>2. Len(backlog) \in Nat \ {0} /\ Len(Tail(backlog)) = Len(backlog) - 1
  BY <1>1, EmptySeq, HeadTailProperties, LenProperties
<1>3. backlog' # backlog
  <2> SUFFICES ASSUME Tail(backlog) = backlog PROVE FALSE
    BY <1>1
  <2>1. Len(backlog) = Len(backlog) - 1
    BY <1>2, Zenon
  <2>2. QED
    BY <1>2, <2>1
<1>4. ASSUME NEW f \in Fds, AcceptAs(f) PROVE FALSE
  BY <1>1, <1>4, OpenStep, QueueHead DEF AcceptAs, FreeFds, OpenFds, Shared, Types
<1>5. QED
  BY <1>1, <1>3, <1>4

\* A server of one thread that turns a client away is full, or ends.
LEMMA OneThreadTurnsAway ==
    ASSUME IInv, [Next]_vars, which # "queue",
           NEW c \in Conns, phase[c] = "up", phase'[c] = "hungup"
    PROVE  Cardinality(OpenFds) = MAX_CHILD - 1 \/ pc' = "return"
<1> DEFINE Full == Cardinality(OpenFds) = MAX_CHILD - 1
<1>0. Shared /\ phase \in [Conns -> Phases]
  BY DEF IInv, Shared, Types
<1>1. ASSUME backlog' # backlog, UNCHANGED fdConn, \A f \in Fds : ~AcceptAs(f)
      PROVE  Full \/ pc' = "return"
  <2>1. ~Unchanged
    BY <1>1 DEF Unchanged, clientVars
  <2>2. CASE AClient
    BY <1>0, <2>2 DEF AClient, Client, Connect, SendLine, ReadReply, CloseConn
  <2>3. CASE which = "select" /\ S2!Server
    <3>1. Table
      BY <2>3 DEF IInv, SelectInv
    <3>2. S2!AcceptFull
      BY <1>1, <2>3, Same2
         DEF S2!Server, S2!Select, S2!NothingToAccept, S2!AcceptFails, S2!AcceptStore, S2!Recv,
             S2!HangUp, S2!CloseChild, S2!Reply, S2!SendFails, S2!SendKills, S2!PassEnds,
             S2!clientVars, clientVars, RecvLine, RecvFrom, CloseFd, ReplySent, SendTo, ReplyKills
    <3>3. S2!Holes = {} /\ child_no + 1 >= MAX_CHILD
      BY <3>2 DEF S2!AcceptFull
    <3>4. \A k \in Slots : k < child_no => child[k] # NoFd
      BY <3>1, <3>3 DEF S2!Holes, S2!Used, S2!Empty, NoFd, Table, Slots
    <3>5. QED
      BY <3>1, <3>3, <3>4, TableFull
  <2>4. CASE which = "poll" /\ S3!Server
    <3>1. Table
      BY <2>4 DEF IInv, PollInv
    <3>2. S3!AcceptFull
      BY <1>1, <2>4, Same3
         DEF S3!Server, S3!Poll, S3!NothingToAccept, S3!AcceptFails, S3!AcceptStore, S3!Recv,
             S3!HangUp, S3!Drop, S3!Reply, S3!SendFails, S3!SendKills, S3!PassEnds,
             S3!clientVars, clientVars, RecvLine, RecvFrom, CloseFd, ReplySent, SendTo, ReplyKills
    <3>3. S3!Holes = {} /\ child_no + 1 >= MAX_CHILD
      BY <3>2 DEF S3!AcceptFull
    <3>4. \A k \in Slots : k < child_no => child[k] # NoFd
      BY <3>1, <3>3 DEF S3!Holes, S3!Used, S3!Empty, NoFd, Table, Slots
    <3>5. QED
      BY <3>1, <3>3, <3>4, TableFull
  <2>5. CASE which = "epoll" /\ S4!Server
    <3>1. count = Cardinality(OpenFds) /\ count \in 0 .. (MAX_CHILD - 1) /\ MAX_CHILD \in Nat
      BY <2>5, SocketAssumption DEF IInv, EpollInv
    <3>2. S4!AcceptFull \/ S4!AcceptAddFails
      BY <1>1, <2>5, Same4
         DEF S4!Server, S4!EpollWait, S4!AcceptFails, S4!AcceptAdd, S4!Recv, S4!HangUp, S4!Drop,
             S4!Reply, S4!SendFails, S4!SendKills, S4!BatchEnds,
             S4!clientVars, clientVars, RecvLine, RecvFrom, CloseFd, ReplySent, SendTo, ReplyKills
    <3>3. QED
      BY <3>1, <3>2 DEF S4!AcceptFull, S4!AcceptAddFails, S4!Full
  <2>6. CASE which = "libevent" /\ SL!Server
    BY <1>1, <2>6, SameL
       DEF SL!Server, SL!Dispatch, SL!AcceptFails, SL!AcceptEvent, SL!AcceptLost, SL!AcceptCrashes,
           SL!Recv, SL!HangUp, SL!Drop, SL!Reply, SL!SendFails, SL!SendKills, SL!ActiveEnd,
           SL!sig_int_handler,
           SL!clientVars, clientVars, RecvLine, RecvFrom, CloseFd, ReplySent, SendTo, ReplyKills
  <2>7. QED
    BY <2>1, <2>2, <2>3, <2>4, <2>5, <2>6, StepsOf
<1>2. CASE Kinds
  <2>1. AcceptAndClose
    BY <1>0, <1>2, TurnedAway
  <2>2. QED
    BY <1>0, <1>1, <2>1, HeadLeaves
<1>3. CASE Ends
  BY <1>3 DEF Ends
<1>4. QED
  BY <1>2, <1>3, StepIInv

\* accept_loop() of server9.c.
LEMMA QueueTurnsAway ==
    ASSUME QueueInv, [Next]_vars, which = "queue",
           NEW c \in Conns, phase[c] = "up", phase'[c] = "hungup"
    PROVE  Cardinality(OpenFds) = MAX_CHILD - 1 \/ pc' = "join"
<1>1. S9!TypeOK /\ S9!CountIsOpen
  BY QueueSame DEF QueueInv, SP!IInv
<1>2. S9!Next \/ UNCHANGED S9!vars
  BY QueueStep
<1>3. phase \in [Conns -> {"new", "up", "closed", "hungup"}] /\ phase' # phase
  BY <1>1 DEF S9!TypeOK, S9!Phases
<1>4. MAX_CHILD \in Nat /\ count \in 0 .. (MAX_CHILD - 1) /\ count = Cardinality(OpenFds)
  BY <1>1, SocketAssumption
     DEF S9!TypeOK, S9!CountIsOpen, S9!Cardinality, Cardinality, S9!OpenFds, OpenFds, S9!Fds, Fds
<1>5. CASE S9!AcceptFull
  BY <1>4, <1>5 DEF S9!AcceptFull, S9!Full
<1>6. CASE S9!AcceptAddFails
  BY <1>6 DEF S9!AcceptAddFails
<1>7. CASE \/ S9!EpollWait \/ S9!AcceptFails \/ S9!AcceptAdd \/ S9!Push
           \/ \E f \in S9!Fds : S9!MarkSlot(f) \/ S9!Recv(f)
  BY <1>3, <1>7 DEF S9!EpollWait, S9!AcceptFails, S9!AcceptAdd, S9!Push, S9!MarkSlot, S9!Recv,
                    S9!AcceptAs, S9!RecvFrom, S9!clientVars
<1>8. ASSUME NEW f \in S9!Fds, S9!HangUp(f) PROVE FALSE
  BY <1>3, <1>8 DEF S9!HangUp, S9!AtEnd, S9!CloseFd, S9!HangUpOn
<1>9. ASSUME NEW q \in S9!Senders, S9!SendThread(q) \/ S9!SpuriousWakeup(q) PROVE FALSE
  BY <1>3, <1>9
     DEF S9!SendThread, S9!SpuriousWakeup, S9!TakeRequest, S9!WaitForRequest, S9!BuildReply,
         S9!SendReply, S9!SendFails, S9!SendKills, S9!SendTo, S9!clientVars
<1>10. ASSUME NEW d \in Conns, S9!Client(d) PROVE FALSE
  BY <1>3, <1>10
     DEF S9!Client, S9!Connect, S9!SendLine, S9!ReadReply, S9!CloseConn
<1>11. ~UNCHANGED S9!vars
  BY <1>3 DEF S9!vars, S9!clientVars
<1>12. QED
  BY <1>2, <1>5, <1>6, <1>7, <1>8, <1>9, <1>10, <1>11 DEF S9!Next, S9!AcceptLoop, S9!ClientStep

\* A server turns a connection away only when it holds all it has room for, whatever
\* holes its table has; but for its end after EPOLL_CTL_ADD failed or SIGINT came.
THEOREM TurnsAwayCorrect == Spec => TurnsAwayOnlyWhenFull
<1>1. IInv /\ QueueInv /\ [Next]_vars => [pc' \notin {"return", "join"} => OnlyFullTurnsAway]_vars
  <2> SUFFICES ASSUME IInv, QueueInv, [Next]_vars, pc' \notin {"return", "join"},
                      NEW c \in Conns, phase[c] = "up", phase'[c] = "hungup"
               PROVE  Cardinality(OpenFds) = MAX_CHILD - 1
    BY DEF OnlyFullTurnsAway
  <2>1. CASE which = "queue"
    BY <2>1, QueueTurnsAway
  <2>2. CASE which # "queue"
    BY <2>2, OneThreadTurnsAway
  <2>3. QED
    BY <2>1, <2>2
<1>2. QED
  BY InductiveInvariant, QueueHolds, <1>1, PTL DEF Spec, TurnsAwayOnlyWhenFull

---------------------------------------------------------------------------
(* The echo service                                                        *)

\* A step that leaves the lines, the answers and the connections as they are.
LEMMA StutterStep ==
    ASSUME UNCHANGED <<phase, sent>>, \A c \in Conns : Sent(c)' = Sent(c)
    PROVE  UNCHANGED Service!evars
<1>1. [c \in Conns |-> Sent(c)]' = [c \in Conns |-> Sent(c)]
  OBVIOUS
<1>2. QED
  BY <1>1 DEF Service!evars

\* What a client does is what a client of the service does.
LEMMA ClientIsClient ==
    ASSUME Types, NEW c \in Conns, Client(c)
    PROVE  Service!Open(c) \/ Service!Ask(c) \/ Service!Leave(c) \/ UNCHANGED Service!evars
<1>1. CASE ReadReply(c)
  <2>1. \A d \in Conns : Sent(d)' = Sent(d)
    BY <1>1, SentRead
  <2>2. QED
    BY <1>1, <2>1, StutterStep DEF ReadReply
<1>2. CASE Connect(c) \/ SendLine(c) \/ CloseConn(c)
  <2>1. UNCHANGED <<out, got>>
    BY <1>2 DEF Connect, SendLine, CloseConn
  <2>2. [d \in Conns |-> Sent(d)]' = [d \in Conns |-> Sent(d)]
    BY <2>1 DEF Sent
  <2>3. QED
    BY <1>2, <2>2 DEF Connect, SendLine, CloseConn, Service!Open, Service!Ask, Service!Leave
<1>3. QED
  BY <1>1, <1>2 DEF Client

\* What send() puts into a connection is an answer of the service.
LEMMA AnswerStep ==
    ASSUME Shared, ReplySent
    PROVE  \E c \in Conns : Service!Answer(c) \/ UNCHANGED Service!evars
<1>0. PICK c : c = fdConn[cur]
  OBVIOUS
<1>1. /\ Types /\ cur \in OpenFds /\ reply \in Replies
      /\ reply = [conn |-> c, n |-> reply.n, ok |-> TRUE]
      /\ reply.n \in Nat /\ LastReply(c) < reply.n /\ reply.n <= read[c]
  BY <1>0 DEF Shared, Faithful, Types, ReplySent
<1>2. /\ c \in Conns /\ UNCHANGED <<phase, sent, got>>
      /\ \/ phase[c] = "up" /\ out' = [out EXCEPT ![c] = Append(@, reply)]
         \/ UNCHANGED out
  BY <1>0, <1>1, Sending
<1>3. CASE UNCHANGED out
  BY <1>2, <1>3, StutterStep DEF Sent
<1>4. CASE phase[c] = "up" /\ out' = [out EXCEPT ![c] = Append(@, reply)]
  <2>1. /\ Sent(c)' = Append(Sent(c), reply)
        /\ \A d \in Conns : d # c => Sent(d)' = Sent(d)
    BY <1>1, <1>2, <1>4, SentAppend
  <2>2. LastReply(c) \in Nat /\ read[c] \in Nat /\ sent[c] \in Nat /\ read[c] <= sent[c]
    BY <1>1, <1>2, SentTypes, CountFacts DEF Types
  <2> DEFINE n == reply.n
             answers == [d \in Conns |-> Sent(d)]
  <2>3. n \in (LastReply(c) + 1) .. sent[c]
    BY <1>1, <2>2
  <2>4. answers[c] = Sent(c) /\ Service!LastAnswered(c) = LastReply(c)
    BY <1>2 DEF Service!LastAnswered, LastReply
  <2>5. reply = Service!Echo(c, n)
    BY <1>1 DEF Service!Echo
  <2>6. answers' = [answers EXCEPT ![c] = Append(@, Service!Echo(c, n))]
    BY <1>2, <2>1, <2>5
  <2>7. QED
    BY <1>2, <1>4, <2>3, <2>4, <2>6 DEF Service!Answer
<1>5. QED
  BY <1>2, <1>3, <1>4

\* A step of a server of one thread is one of the service, or is not seen in it.
LEMMA OneThreadServes ==
    ASSUME IInv, [Next]_vars, which # "queue", ~Interrupted
    PROVE  Service!ENext \/ UNCHANGED Service!evars
<1>0. Shared /\ Types /\ Kinds
  BY StepIInv DEF IInv, Shared
<1>1. CASE Looks \/ Unchanged
  BY <1>1, StutterStep DEF Looks, Unchanged, clientVars, Sent
<1>2. CASE Refuses
  <2>1. backlog # << >> /\ HangUpOn(Head(backlog)) /\ UNCHANGED <<sent, out, got>>
    BY <1>2 DEF Refuses, AcceptAndClose
  <2>2. PICK c \in Conns : c = Head(backlog) /\ Sent(c) = << >>
    <3>1. backlog' = Tail(backlog) /\ backlog \in Seq(Conns)
      BY <1>0, <1>2 DEF Refuses, AcceptAndClose, Types
    <3>2. QED
      BY <1>0, <2>1, <3>1, QueueHead DEF Shared, Faithful
  <2>3. phase' = [phase EXCEPT ![c] = IF @ = "up" THEN "hungup" ELSE @]
    BY <2>1, <2>2 DEF HangUpOn
  <2>4. \A d \in Conns : Sent(d)' = Sent(d)
    BY <2>1 DEF Sent
  <2>5. [d \in Conns |-> Sent(d)]' = [d \in Conns |-> Sent(d)]
    BY <2>4
  <2>6. CASE phase[c] = "up"
    BY <2>1, <2>2, <2>3, <2>5, <2>6 DEF Service!ENext, Service!TurnAway
  <2>7. CASE phase[c] # "up"
    <3>1. phase' = phase
      BY <1>0, <2>3, <2>7 DEF Types
    <3>2. QED
      BY <2>1, <2>4, <3>1, StutterStep
  <2>8. QED
    BY <2>6, <2>7
<1>3. CASE ReplySent
  BY <1>0, <1>3, AnswerStep DEF Service!ENext
<1>4. CASE AClient
  <2>1. PICK c \in Conns : Client(c)
    BY <1>4 DEF AClient
  <2>2. QED
    BY <1>0, <2>1, ClientIsClient DEF Service!ENext
<1>5. ASSUME NEW f \in Fds, Takes(f) \/ Receives(f) \/ Drops(f)
      PROVE  UNCHANGED Service!evars
  <2>1. UNCHANGED <<phase, sent, out, got>>
    BY <1>0, <1>5, DropKeepsClients DEF Takes, AcceptAs, Receives, RecvLine, RecvFrom
  <2>2. QED
    BY <2>1, StutterStep DEF Sent
<1>6. QED
  BY <1>0, <1>1, <1>2, <1>3, <1>4, <1>5 DEF Kinds

\* server9.c with clients that wait for their replies and rings with room for their
\* lines: what its rings hold, and that it implements the service.
QueueFits == EarlyClosers = {} /\ (MAX_CHILD - 1) * Window < MAXQUEUESZ
QueueServes == which = "queue" => SP!RingInv /\ SP!ServedInv

LEMMA ServiceSame ==
    /\ SP!Service!EInit => Service!EInit
    /\ (SP!Service!ENext \/ UNCHANGED SP!Service!evars) => (Service!ENext \/ UNCHANGED Service!evars)
<1>1. \A c : SP!Sent(c) = Sent(c) /\ SP!Sent(c)' = Sent(c)'
  BY DEF SP!Sent, Sent
<1>2. [c \in Conns |-> SP!Sent(c)] = [c \in Conns |-> Sent(c)]
  BY <1>1
<1>3. [c \in Conns |-> SP!Sent(c)]' = [c \in Conns |-> Sent(c)]'
  BY <1>1
<1>4. SP!Service!EInit => Service!EInit
  BY <1>2 DEF SP!Service!EInit, Service!EInit
<1>5. UNCHANGED SP!Service!evars => UNCHANGED Service!evars
  BY <1>2, <1>3 DEF SP!Service!evars, Service!evars
<1>6. ASSUME NEW c \in Conns, SP!Service!Answer(c) PROVE Service!Answer(c)
  BY <1>2, <1>3, <1>6
     DEF SP!Service!Answer, Service!Answer, SP!Service!LastAnswered, Service!LastAnswered,
         SP!Service!Echo, Service!Echo
<1>7. ASSUME NEW c \in Conns,
             SP!Service!Open(c) \/ SP!Service!Ask(c) \/ SP!Service!Leave(c) \/ SP!Service!TurnAway(c)
      PROVE  Service!Open(c) \/ Service!Ask(c) \/ Service!Leave(c) \/ Service!TurnAway(c)
  BY <1>2, <1>3, <1>7
     DEF SP!Service!Open, Service!Open, SP!Service!Ask, Service!Ask, SP!Service!Leave,
         Service!Leave, SP!Service!TurnAway, Service!TurnAway
<1>8. QED
  BY <1>4, <1>5, <1>6, <1>7 DEF SP!Service!ENext, Service!ENext

LEMMA QueueServesInit ==
    ASSUME Init, QueueFits, which = "queue" PROVE QueueServes /\ Service!EInit
<1>1. SP!Init
  BY QueueSame DEF Init
<1>2. SP!RingInv
  BY <1>1, SP!InitRing, ClientAssumption, SocketAssumption, ServerAssumption
<1>3. SP!ServedInv /\ SP!Service!EInit
  BY <1>1, SP!InitServed, ClientAssumption, SocketAssumption, ServerAssumption
<1>4. QED
  BY <1>2, <1>3, ServiceSame DEF QueueServes

LEMMA QueueServesStep ==
    ASSUME QueueFits, QueueInv, QueueServes, [Next]_vars
    PROVE  QueueServes' /\ (which = "queue" => [Service!ENext]_(Service!evars))
<1>1. SUFFICES ASSUME which = "queue"
               PROVE  QueueServes' /\ (Service!ENext \/ UNCHANGED Service!evars)
  BY WhichStays DEF QueueServes
<1>2. /\ SP!IInv /\ SP!RingInv /\ SP!ServedInv /\ SP!Unserved /\ SP!Built /\ SP!WindowFits
  BY <1>1 DEF QueueInv, QueueServes, QueueFits, SP!ServedInv, SP!WindowFits
<1>3. [SP!Next]_(SP!vars)
  BY <1>1, QueueStep, QueueSame
     DEF S9!vars, SP!vars, S9!clientVars, SP!clientVars, S9!serverVars, SP!serverVars,
         S9!queueVars, SP!queueVars, S9!threadVars, SP!threadVars
<1>4. SP!RingInv'
  BY <1>2, <1>3, SP!RingInvStep, ClientAssumption, SocketAssumption, ServerAssumption
<1>5. SP!ServedInv'
  <2>1. SP!Unserved'
    BY <1>2, <1>3, SP!UnservedStep, ClientAssumption, SocketAssumption, ServerAssumption
  <2>2. SP!Built'
    BY <1>2, <1>3, SP!BuiltStep, ClientAssumption, SocketAssumption, ServerAssumption
  <2>3. QED
    BY <2>1, <2>2 DEF SP!ServedInv
<1>6. SP!Service!ENext \/ UNCHANGED SP!Service!evars
  BY <1>2, <1>3, SP!ServiceStep, ClientAssumption, SocketAssumption, ServerAssumption
<1>7. QED
  BY <1>4, <1>5, <1>6, ServiceSame DEF QueueServes

\* The servers of one receiving thread answer as the echo service does, while nobody
\* interrupts server-libevent.c and server9.c has room in its rings for the lines of
\* clients that wait for their replies: lines of the client that sent them, at most once,
\* in the order of sending, and they hang up on nobody they have answered.
THEOREM EchoCorrect ==
    ASSUME ~Interrupted,
           "queue" \in Servers => EarlyClosers = {} /\ (MAX_CHILD - 1) * Window < MAXQUEUESZ
    PROVE  Spec => EchoRefined
<1>0. "queue" \in Servers => QueueFits
  BY DEF QueueFits
<1>1. Init => Service!EInit /\ QueueServes
  <2> SUFFICES ASSUME Init PROVE Service!EInit /\ QueueServes
    OBVIOUS
  <2>1. CASE which = "queue"
    BY <1>0, <2>1, QueueServesInit DEF Init
  <2>2. CASE which # "queue"
    <3>1. OneThreadInit
      BY <2>2, ServersAssumption, Same2, Same3, Same4, SameL
         DEF Init, S2!Init, S3!Init, S4!Init, SL!Init
    <3>2. /\ phase = [c \in Conns |-> "new"] /\ sent = [c \in Conns |-> 0]
          /\ out = [c \in Conns |-> << >>] /\ got = [c \in Conns |-> << >>]
      BY <3>1 DEF OneThreadInit, SocketInit, ClientInit
    <3>3. ASSUME NEW c \in Conns PROVE Sent(c) = << >>
      BY <3>2 DEF Sent
    <3>4. QED
      BY <2>2, <3>2, <3>3 DEF Service!EInit, QueueServes
  <2>3. QED
    BY <2>1, <2>2
<1>2. IInv /\ QueueInv /\ QueueServes /\ [Next]_vars
          => QueueServes' /\ [Service!ENext]_(Service!evars)
  <2> SUFFICES ASSUME IInv, QueueInv, QueueServes, [Next]_vars
               PROVE  QueueServes' /\ (Service!ENext \/ UNCHANGED Service!evars)
    OBVIOUS
  <2>1. CASE which = "queue"
    BY <1>0, <2>1, QueueServesStep DEF IInv
  <2>2. CASE which # "queue"
    BY <2>2, OneThreadServes, WhichStays DEF QueueServes
  <2>3. QED
    BY <2>1, <2>2
<1>3. QED
  BY <1>1, <1>2, InductiveInvariant, QueueHolds, PTL DEF Spec, EchoRefined, Service!ESpec
=============================================================================
