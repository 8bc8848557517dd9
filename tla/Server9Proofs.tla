--------------------------- MODULE Server9Proofs ---------------------------
(***************************************************************************)
(* Proofs about chapter05/server9.c, for any number of connections, of     *)
(* sending threads and of slots in a ring.                                 *)
(***************************************************************************)
EXTENDS Server9, FiniteSetTheorems, SequenceTheorems, TLAPS

\* A connection is in one place only: new, waiting in the listening socket's queue
\* at one position, or open on one descriptor.
OnePlace ==
    /\ \A f, g \in Fds : fdConn[f] # NoConn /\ fdConn[f] = fdConn[g] => f = g
    /\ \A f \in Fds : \A i \in DOMAIN backlog : backlog[i] # fdConn[f]
    /\ \A i, j \in DOMAIN backlog : backlog[i] = backlog[j] => i = j
    /\ \A c \in Conns : phase[c] = "new" =>
           /\ \A f \in Fds : fdConn[f] # c
           /\ \A i \in DOMAIN backlog : backlog[i] # c

\* cur is set exactly while something is received or waits to be queued, and its event
\* is still there.
CurIsPushed ==
    /\ pc \in {"recv", "push"} => cur \in events \ {Soc}
    /\ pc \in {"epoll_wait", "scan", "join"} => cur = Soc

\* What is received goes into a slot that has its descriptor already.
SlotIsMarked == pc = "recv" => data[QueueOf(cur)][last[QueueOf(cur)]].acc = cur

\* The inductive invariant.
IInv ==
    /\ TypeOK
    /\ OnePlace
    /\ CurIsPushed
    /\ SlotIsMarked
    /\ EventsAreLive
    /\ CountIsOpen
    /\ NoLostWakeup

LEMMA FdsFacts ==
    /\ IsFiniteSet(Fds)
    /\ \A f \in Fds : f \in Nat /\ f # Soc
    /\ \A f \in Fds \cup {Soc} : QueueOf(f) \in Senders
<1>1. FirstFd \in Nat /\ FirstFd + MAX_CHILD - 1 \in Int
  BY ServerAssumption, SocketAssumption
<1>2. IsFiniteSet(Fds)
  BY <1>1, FS_Interval DEF Fds
<1>3. \A f \in Fds : f \in Nat /\ f # Soc
  BY ServerAssumption, SocketAssumption DEF Fds, Soc
<1>4. \A f \in Nat : f % MAXSENDER \in 0 .. (MAXSENDER - 1)
  BY ServerAssumption, SocketAssumption
<1>5. QED
  BY <1>2, <1>3, <1>4 DEF QueueOf, Senders, Soc

LEMMA NextSlot == \A i \in Slots : QUEUE_NEXT(i) \in Slots
  BY ServerAssumption, SocketAssumption DEF Slots, QUEUE_NEXT

\* The descriptor accept_loop() receives from.
LEMMA CurFacts ==
    ASSUME IInv, pc \in {"recv", "push"}
    PROVE  /\ cur \in Fds /\ cur # Soc /\ cur \in events /\ cur \in OpenFds
           /\ fdConn[cur] \in Conns /\ QueueOf(cur) \in Senders
  BY FdsFacts DEF IInv, TypeOK, CurIsPushed, EventsAreLive, OpenFds

\* The one slot that is written around a recv(): the descriptor before, the line after.
LEMMA SlotWritten ==
    ASSUME TypeOK, NEW f \in Fds, MarkSlot(f) \/ Recv(f) \/ HangUp(f)
    PROVE  LET p == QueueOf(f)
               d == data[p][last[p]]
           IN  /\ p \in Senders /\ last[p] \in Slots /\ UNCHANGED <<front, last, tpc, ti>>
               /\ \E a, l :
                      /\ data' = [data EXCEPT ![p][last[p]] = [acc |-> a, line |-> l]]
                      /\ \/ MarkSlot(f) /\ a = f /\ l = d.line
                         \/ Recv(f) /\ a = d.acc /\ l = FirstLine(f)
                         \/ HangUp(f) /\ a = d.acc /\ l \in {d.line, NoLine}
<1> DEFINE p == QueueOf(f)
           d == data[p][last[p]]
<1>1. p \in Senders /\ last[p] \in Slots
  BY FdsFacts DEF TypeOK
<1>2. d = [acc |-> d.acc, line |-> d.line]
  BY <1>1 DEF TypeOK
<1>3. CASE MarkSlot(f)
  <2>1. data' = [data EXCEPT ![p][last[p]] = [acc |-> f, line |-> d.line]]
    <3>1. data' = [data EXCEPT ![p][last[p]] = [d EXCEPT !.acc = f]]
      BY <1>3 DEF MarkSlot
    <3>2. [d EXCEPT !.acc = f] = [acc |-> f, line |-> d.line]
      BY <1>2
    <3> QED  BY <3>1, <3>2
  <2> QED  BY <1>1, <1>3, <2>1 DEF MarkSlot, threadVars
<1>4. ASSUME NEW l, data' = [data EXCEPT ![p][last[p]].line = l]
      PROVE  data' = [data EXCEPT ![p][last[p]] = [acc |-> d.acc, line |-> l]]
  <2>1. data' = [data EXCEPT ![p][last[p]] = [d EXCEPT !.line = l]]
    BY <1>4
  <2>2. [d EXCEPT !.line = l] = [acc |-> d.acc, line |-> l]
    BY <1>2
  <2> QED  BY <2>1, <2>2
<1>5. CASE Recv(f)
  <2>1. data' = [data EXCEPT ![p][last[p]].line = FirstLine(f)]
    BY <1>5 DEF Recv
  <2> QED  BY <1>1, <1>4, <1>5, <2>1 DEF Recv, threadVars
<1>6. CASE HangUp(f)
  <2>1. PICK l \in {d.line, NoLine} : data' = [data EXCEPT ![p][last[p]].line = l]
    BY <1>6 DEF HangUp, EndOfData
  <2> QED  BY <1>1, <1>4, <1>6, <2>1 DEF HangUp, threadVars
<1> QED  BY <1>3, <1>5, <1>6

LEMMA InitIInv == Init => IInv
<1> SUFFICES ASSUME Init PROVE IInv
  OBVIOUS
<1> USE DEF Init, ClientInit, SocketInit
<1>1. TypeOK
  <2>1. NoLine \in Replies
    BY ClientAssumption DEF Replies, NoLine
  <2>2. 0 \in Slots /\ 0 \in 0 .. MaxLines /\ 0 \in 0 .. (MAX_CHILD - 1)
    BY ServerAssumption, SocketAssumption, ClientAssumption DEF Slots
  <2>3. QED
    BY <2>1, <2>2 DEF TypeOK, Phases
<1>2. OpenFds = {}
  BY DEF OpenFds
<1>3. CountIsOpen
  BY <1>2, FS_EmptySet DEF CountIsOpen
<1>4. QED
  BY <1>1, <1>2, <1>3, ClientAssumption DEF IInv, OnePlace, CurIsPushed, SlotIsMarked, EventsAreLive, NoLostWakeup

---------------------------------------------------------------------------
(* Types                                                                   *)

LEMMA TypeStep == IInv /\ [Next]_vars => TypeOK'
<1> SUFFICES ASSUME IInv, [Next]_vars PROVE TypeOK'
  OBVIOUS
<1> USE DEF IInv, TypeOK, Phases
<1>1. ASSUME EpollWait PROVE TypeOK'
  <2>1. ReadyOf(OpenFds) \in SUBSET (Fds \cup {Soc})
    BY DEF ReadyOf, OpenFds
  <2>2. QED
    BY <1>1, <2>1 DEF EpollWait, clientVars, queueVars, threadVars
<1>2. ASSUME AcceptFails PROVE TypeOK'
  BY <1>2 DEF AcceptFails, NextEvent, clientVars, queueVars, threadVars
<1>3. ASSUME AcceptFull PROVE TypeOK'
  <2>1. Tail(backlog) \in Seq(Conns) /\ Head(backlog) \in Conns
    BY <1>3 DEF AcceptFull, AtListener, AcceptAndClose, HangUpOn
  <2>2. QED
    BY <1>3, <2>1 DEF AcceptFull, AtListener, HangUpOn, NextEvent, queueVars, threadVars, AcceptAndClose
<1>4. ASSUME AcceptAdd PROVE TypeOK'
  <2>1. Tail(backlog) \in Seq(Conns) /\ Head(backlog) \in Conns
    BY <1>4 DEF AcceptAdd, AtListener, AcceptAs
  <2>2. fdConn' \in [Fds -> Conns \cup {NoConn}]
    BY <1>4, <2>1 DEF AcceptAdd, FreeFds, AcceptAs
  <2>3. count' \in 0 .. (MAX_CHILD - 1)
    BY <1>4, ServerAssumption, SocketAssumption DEF AcceptAdd, Full, AcceptAs
  <2>4. QED
    BY <1>4, <2>1, <2>2, <2>3 DEF AcceptAdd, AtListener, NextEvent, queueVars, threadVars, AcceptAs
<1>5. ASSUME AcceptAddFails PROVE TypeOK'
  <2>1. Tail(backlog) \in Seq(Conns) /\ Head(backlog) \in Conns
    BY <1>5 DEF AcceptAddFails, AtListener, AcceptAndClose, HangUpOn
  <2>2. QED
    BY <1>5, <2>1 DEF AcceptAddFails, AtListener, HangUpOn, queueVars, threadVars, AcceptAndClose
<1>s. ASSUME NEW f \in Fds, MarkSlot(f) \/ Recv(f) \/ HangUp(f),
             Recv(f) => FirstLine(f) \in Replies
      PROVE  data' \in [Senders -> [Slots -> [acc : Fds \cup {0}, line : Replies]]]
  <2> DEFINE p == QueueOf(f)
  <2>1. NoLine \in Replies
    BY ClientAssumption DEF Replies, NoLine
  <2>2. PICK a, l : /\ data' = [data EXCEPT ![p][last[p]] = [acc |-> a, line |-> l]]
                    /\ a \in {f, data[p][last[p]].acc} /\ l \in {data[p][last[p]].line, NoLine, FirstLine(f)}
                    /\ l = FirstLine(f) => Recv(f) \/ l \in {data[p][last[p]].line, NoLine}
    BY <1>s, SlotWritten
  <2>3. p \in Senders /\ last[p] \in Slots
    BY <1>s, SlotWritten
  <2>4. a \in Fds \cup {0} /\ l \in Replies
    BY <1>s, <2>1, <2>2, <2>3
  <2> QED  BY <2>2, <2>3, <2>4
<1>m. ASSUME NEW f \in Fds, MarkSlot(f) PROVE TypeOK'
  <2>1. data' \in [Senders -> [Slots -> [acc : Fds \cup {0}, line : Replies]]]
    <3>1. ~Recv(f)
      BY <1>m DEF MarkSlot, Recv
    <3> QED  BY <1>m, <1>s, <3>1
  <2> QED  BY <1>m, <2>1 DEF MarkSlot, clientVars, threadVars
<1>6. ASSUME NEW f \in Fds, Recv(f) PROVE TypeOK'
  <2> DEFINE c == fdConn[f]
  <2>1. c \in Conns
    BY <1>6, CurFacts DEF Recv
  <2>2. PICK k \in 1 .. MaxLines : TakeLines(c, k)
    BY <1>6 DEF Recv, RecvFrom
  <2>3. read' \in [Conns -> 0 .. MaxLines] /\ read[c] + 1 \in 0 .. MaxLines
    BY <2>1, <2>2, ClientAssumption DEF TakeLines
  <2>4. FirstLine(f) \in Replies
    BY <2>1, <2>3 DEF Replies, FirstLine
  <2>5. data' \in [Senders -> [Slots -> [acc : Fds \cup {0}, line : Replies]]]
    BY <1>6, <1>s, <2>4
  <2>6. QED
    BY <1>6, <2>3, <2>5 DEF Recv, threadVars, RecvFrom
<1>7. ASSUME NEW f \in Fds, HangUp(f) PROVE TypeOK'
  <2>1. ~Recv(f)
    BY <1>7, CurFacts DEF HangUp, NextEvent, Recv
  <2>3. data' \in [Senders -> [Slots -> [acc : Fds \cup {0}, line : Replies]]]
    BY <1>7, <1>s, <2>1
  <2>4. OpenFds # {} /\ IsFiniteSet(OpenFds)
    BY <1>7, CurFacts, FdsFacts, FS_Subset DEF HangUp, OpenFds
  <2>5. count # 0
    BY <2>4, FS_EmptySet DEF CountIsOpen
  <2>6. count' \in 0 .. (MAX_CHILD - 1)
    BY <1>7, <2>5, ServerAssumption, SocketAssumption DEF HangUp
  <2>7. QED
    BY <1>7, <2>3, <2>6 DEF HangUp, NextEvent, clientVars, threadVars, CloseFd, HangUpOn
<1>8. ASSUME Push PROVE TypeOK'
  <2>1. QueueOf(cur) \in Senders
    BY FdsFacts
  <2>2. last' \in [Senders -> Slots]
    BY <1>8, <2>1, NextSlot DEF Push
  <2>3. tpc' \in [Senders -> {"lock", "wait", "reply", "send"}]
    BY <1>8, <2>1 DEF Push, Signal
  <2>4. QED
    BY <1>8, <2>2, <2>3 DEF Push, NextEvent, clientVars
<1>9. ASSUME NEW q \in Senders, TakeRequest(q) PROVE TypeOK'
  BY <1>9, NextSlot DEF TakeRequest, clientVars, serverVars
<1>10. ASSUME NEW q \in Senders, WaitForRequest(q) \/ SpuriousWakeup(q) PROVE TypeOK'
  BY <1>10 DEF WaitForRequest, SpuriousWakeup, clientVars, serverVars, queueVars
<1>11. ASSUME NEW q \in Senders, BuildReply(q) PROVE TypeOK'
  <2> DEFINE d == data[q][ti[q]]
  <2>1. d \in [acc : Fds \cup {0}, line : Replies]
    OBVIOUS
  <2> HIDE DEF d
  <2>2. [d EXCEPT !.line.ok = TRUE] \in [acc : Fds \cup {0}, line : Replies]
    BY <2>1 DEF Replies
  <2>3. data' = [data EXCEPT ![q][ti[q]] = [d EXCEPT !.line.ok = TRUE]]
    BY <1>11 DEF BuildReply, d
  <2>4. data' \in [Senders -> [Slots -> [acc : Fds \cup {0}, line : Replies]]]
    BY <2>2, <2>3
  <2>5. QED
    BY <1>11, <2>4 DEF BuildReply, clientVars, serverVars
<1>12. ASSUME NEW q \in Senders, SendReply(q) PROVE TypeOK'
  <2>1. Addressee(q) \in Conns
    BY <1>12 DEF SendReply, Addressee, SendTo, ReplyFd
  <2>2. data[q][ti[q]].line \in Replies
    OBVIOUS
  <2> DEFINE line == data[q][ti[q]].line
             c == Addressee(q)
  <2>3. Append(out[c], line) \in Seq(Replies) /\ reset \cup {c} \in SUBSET Conns
    BY <2>1, <2>2
  <2>4. Deliver(c, line)
    BY <1>12 DEF SendReply, SendTo, Addressee, ReplyFd
  <2>5. out' \in [Conns -> Seq(Replies)] /\ reset' \in SUBSET Conns
    BY <2>3, <2>4 DEF Deliver
  <2>6. QED
    BY <1>12, <2>5 DEF SendReply, AtSend, serverVars, queueVars, SendTo
<1>13. ASSUME NEW q \in Senders, SendFails(q) \/ SendKills(q) PROVE TypeOK'
  BY <1>13 DEF SendFails, SendKills, AtSend, clientVars, serverVars, queueVars, threadVars
<1>14. ASSUME ClientStep PROVE TypeOK'
  <2> USE DEF serverVars, queueVars, threadVars
  <2>1. PICK c \in Conns : Client(c) /\ UNCHANGED <<serverVars, queueVars, threadVars>>
    BY <1>14 DEF ClientStep
  <2>2. CASE Connect(c)
    BY <2>1, <2>2 DEF Connect
  <2>3. CASE SendLine(c)
    BY <2>1, <2>3, ClientAssumption DEF SendLine
  <2>4. CASE ReadReply(c)
    <3>1. Head(out[c]) \in Replies /\ Tail(out[c]) \in Seq(Replies)
      BY <2>4 DEF ReadReply
    <3>2. QED
      BY <2>1, <2>4, <3>1 DEF ReadReply
  <2>5. CASE CloseConn(c)
    BY <2>1, <2>5 DEF CloseConn
  <2>6. QED
    BY <2>1, <2>2, <2>3, <2>4, <2>5 DEF Client
<1>15. CASE UNCHANGED vars
  BY <1>15 DEF vars, clientVars, serverVars, queueVars, threadVars
<1>16. QED
  BY <1>1, <1>2, <1>3, <1>4, <1>5, <1>m, <1>6, <1>7, <1>8, <1>9, <1>10, <1>11, <1>12, <1>13,
     <1>14, <1>15 DEF Next, AcceptLoop, SendThread

---------------------------------------------------------------------------
(* Connections and descriptors                                             *)

\* What Head and Tail do to the positions of the listening socket's queue.
LEMMA BacklogFacts ==
    ASSUME TypeOK, backlog # <<>>
    PROVE  /\ Head(backlog) \in Conns
           /\ Head(backlog) = backlog[1] /\ 1 \in DOMAIN backlog
           /\ \A i \in DOMAIN Tail(backlog) :
                 i + 1 \in DOMAIN backlog /\ Tail(backlog)[i] = backlog[i + 1] /\ i \in Nat \ {0}
<1>1. backlog \in Seq(Conns)
  BY DEF TypeOK
<1>2. Len(backlog) \in Nat \ {0} /\ DOMAIN backlog = 1 .. Len(backlog)
  BY <1>1, LenProperties, EmptySeq
<1>3. Head(backlog) \in Conns /\ Head(backlog) = backlog[1]
  BY <1>1
<1>4. /\ Tail(backlog) \in Seq(Conns)
      /\ Len(Tail(backlog)) = Len(backlog) - 1
      /\ \A i \in 1 .. Len(Tail(backlog)) : Tail(backlog)[i] = backlog[i + 1]
  BY <1>1, HeadTailProperties
<1>5. DOMAIN Tail(backlog) = 1 .. Len(Tail(backlog))
  BY <1>4, LenProperties
<1>6. QED
  BY <1>2, <1>3, <1>4, <1>5

\* The server closes a connection only after its client has: nothing changes for it.
LEMMA HangUpKeepsClients ==
    ASSUME IInv, NEW f \in Fds, HangUp(f) PROVE UNCHANGED clientVars
<1>1. /\ phase[fdConn[f]] = "closed" /\ UNCHANGED <<sent, read, out, got, reset, backlog>>
      /\ phase' = [phase EXCEPT ![fdConn[f]] = IF @ = "up" THEN "hungup" ELSE @]
  BY DEF HangUp, AtEnd, CloseFd, HangUpOn
<1>2. phase' = phase
  BY <1>1 DEF IInv, TypeOK
<1>3. QED
  BY <1>1, <1>2 DEF clientVars

LEMMA OnePlaceStep == IInv /\ [Next]_vars => OnePlace'
<1> SUFFICES ASSUME IInv, [Next]_vars PROVE OnePlace'
  OBVIOUS
<1> USE DEF IInv
<1>1. ASSUME AcceptFull \/ AcceptAddFails PROVE OnePlace'
  <2>1. /\ backlog # <<>> /\ backlog' = Tail(backlog) /\ UNCHANGED fdConn
        /\ phase' = [phase EXCEPT ![Head(backlog)] = IF @ = "up" THEN "hungup" ELSE @]
    BY <1>1 DEF AcceptFull, AcceptAddFails, AtListener, HangUpOn, AcceptAndClose
  <2>2. \A c \in Conns : phase'[c] = "new" => phase[c] = "new"
    BY <2>1, BacklogFacts DEF TypeOK
  <2>3. QED
    BY <2>1, <2>2, BacklogFacts DEF OnePlace
<1>2. ASSUME AcceptAdd PROVE OnePlace'
  <2>1. /\ backlog # <<>> /\ backlog' = Tail(backlog) /\ UNCHANGED phase
    BY <1>2 DEF AcceptAdd, AtListener, AcceptAs
  <2>2. PICK f \in Fds : fdConn' = [fdConn EXCEPT ![f] = Head(backlog)]
    BY <1>2 DEF AcceptAdd, FreeFds, AcceptAs
  <2>3. \A g \in Fds : fdConn'[g] = IF g = f THEN Head(backlog) ELSE fdConn[g]
    BY <2>2 DEF TypeOK
  <2>4. \A g, h \in Fds : fdConn'[g] # NoConn /\ fdConn'[g] = fdConn'[h] => g = h
    BY <2>1, <2>3, BacklogFacts DEF OnePlace
  <2>5. \A g \in Fds : \A i \in DOMAIN backlog' : backlog'[i] # fdConn'[g]
    BY <2>1, <2>3, BacklogFacts DEF OnePlace
  <2>6. QED
    BY <2>1, <2>3, <2>4, <2>5, BacklogFacts DEF OnePlace
<1>3. ASSUME NEW f \in Fds, HangUp(f) PROVE OnePlace'
  <2>1. fdConn' = [fdConn EXCEPT ![f] = NoConn] /\ UNCHANGED <<phase, backlog>>
    BY <1>3, HangUpKeepsClients DEF HangUp, CloseFd, clientVars
  <2>2. \A g \in Fds : fdConn'[g] = IF g = f THEN NoConn ELSE fdConn[g]
    BY <2>1 DEF TypeOK
  <2>3. \A i \in DOMAIN backlog : backlog[i] # NoConn
    BY ClientAssumption DEF TypeOK
  <2>4. QED
    BY <2>1, <2>2, <2>3, ClientAssumption DEF OnePlace
<1>4. ASSUME NEW c \in Conns, Connect(c), UNCHANGED fdConn PROVE OnePlace'
  <2>1. /\ phase[c] = "new" /\ phase' = [phase EXCEPT ![c] = "up"]
        /\ backlog' = Append(backlog, c)
    BY <1>4 DEF Connect
  <2>2. \A i \in DOMAIN backlog' :
            \/ i \in DOMAIN backlog /\ backlog'[i] = backlog[i]
            \/ i = Len(backlog) + 1 /\ backlog'[i] = c
    <3>1. backlog \in Seq(Conns)
      BY DEF TypeOK
    <3>2. /\ Len(backlog') = Len(backlog) + 1
          /\ \A i \in 1 .. Len(backlog) : backlog'[i] = backlog[i]
          /\ backlog'[Len(backlog) + 1] = c
      BY <2>1, <3>1, AppendProperties
    <3>3. /\ DOMAIN backlog = 1 .. Len(backlog) /\ DOMAIN backlog' = 1 .. Len(backlog')
          /\ Len(backlog) \in Nat
      BY <2>1, <3>1, AppendProperties, LenProperties
    <3>4. QED
      BY <3>2, <3>3
  <2>3. \A d \in Conns : phase'[d] = "new" => phase[d] = "new" /\ d # c
    BY <2>1 DEF TypeOK
  <2>4. QED
    BY <1>4, <2>1, <2>2, <2>3 DEF OnePlace
<1>5. ASSUME NEW c \in Conns, SendLine(c) \/ ReadReply(c) \/ CloseConn(c), UNCHANGED fdConn
      PROVE OnePlace'
  <2>1. UNCHANGED backlog /\ \A d \in Conns : phase'[d] = "new" => phase[d] = "new"
    BY <1>5 DEF SendLine, ReadReply, CloseConn, TypeOK
  <2>2. QED
    BY <1>5, <2>1 DEF OnePlace
<1>6. ASSUME UNCHANGED <<phase, backlog, fdConn>> PROVE OnePlace'
  BY <1>6 DEF OnePlace
<1>7. ASSUME NEW q \in Senders, SendThread(q) \/ SpuriousWakeup(q) PROVE OnePlace'
  BY <1>6, <1>7 DEF SendThread, TakeRequest, WaitForRequest, SpuriousWakeup, BuildReply, SendReply,
     SendFails, SendKills, clientVars, serverVars, SendTo
<1>8. ASSUME EpollWait \/ AcceptFails \/ Push PROVE OnePlace'
  BY <1>6, <1>8 DEF EpollWait, AcceptFails, Push, clientVars
<1>9. ASSUME NEW f \in Fds, MarkSlot(f) \/ Recv(f) PROVE OnePlace'
  BY <1>6, <1>9 DEF MarkSlot, Recv, RecvFrom, clientVars
<1>10. CASE UNCHANGED vars
  BY <1>6, <1>10 DEF vars, clientVars, serverVars
<1>11. QED
  BY <1>1, <1>2, <1>3, <1>4, <1>5, <1>7, <1>8, <1>9, <1>10
     DEF Next, AcceptLoop, ClientStep, Client, serverVars

LEMMA CountStep == IInv /\ [Next]_vars => CountIsOpen'
<1> SUFFICES ASSUME IInv, [Next]_vars PROVE CountIsOpen'
  OBVIOUS
<1> USE DEF IInv
<1>1. IsFiniteSet(OpenFds)
  BY FdsFacts, FS_Subset DEF OpenFds
<1>2. ASSUME AcceptAdd PROVE CountIsOpen'
  <2>1. PICK f \in FreeFds : fdConn' = [fdConn EXCEPT ![f] = Head(backlog)]
    BY <1>2 DEF AcceptAdd, AcceptAs
  <2>2. Head(backlog) # NoConn
    BY <1>2, BacklogFacts, ClientAssumption DEF AcceptAdd, AtListener, AcceptAs
  <2>3. OpenFds' = OpenFds \cup {f}
    BY <2>1, <2>2 DEF OpenFds, FreeFds, TypeOK
  <2>4. f \notin OpenFds /\ count' = count + 1
    BY <1>2 DEF FreeFds, AcceptAdd, AcceptAs
  <2>5. QED
    BY <1>1, <2>3, <2>4, FS_AddElement DEF CountIsOpen
<1>3. ASSUME NEW f \in Fds, HangUp(f) PROVE CountIsOpen'
  <2>1. OpenFds' = OpenFds \ {f}
    BY <1>3 DEF HangUp, OpenFds, TypeOK, CloseFd, HangUpOn
  <2>2. f \in OpenFds /\ count' = count - 1
    BY <1>3, CurFacts DEF HangUp
  <2>3. QED
    BY <1>1, <2>1, <2>2, FS_RemoveElement DEF CountIsOpen
<1>4. ASSUME UNCHANGED <<fdConn, count>> PROVE CountIsOpen'
  BY <1>4 DEF CountIsOpen, OpenFds
<1>5. ASSUME EpollWait \/ AcceptFails \/ AcceptFull \/ AcceptAddFails \/ Push PROVE CountIsOpen'
  BY <1>4, <1>5 DEF EpollWait, AcceptFails, AcceptFull, AcceptAddFails, Push, AcceptAndClose, HangUpOn
<1>6. ASSUME NEW f \in Fds, MarkSlot(f) \/ Recv(f) PROVE CountIsOpen'
  BY <1>4, <1>6 DEF MarkSlot, Recv, RecvFrom
<1>7. ASSUME NEW q \in Senders, SendThread(q) \/ SpuriousWakeup(q) PROVE CountIsOpen'
  BY <1>4, <1>7 DEF SendThread, TakeRequest, WaitForRequest, SpuriousWakeup, BuildReply, SendReply,
     SendFails, SendKills, serverVars, SendTo
<1>8. CASE ClientStep \/ UNCHANGED vars
  BY <1>4, <1>8 DEF ClientStep, vars, serverVars
<1>9. QED
  BY <1>2, <1>3, <1>5, <1>6, <1>7, <1>8 DEF Next, AcceptLoop

---------------------------------------------------------------------------
(* The batch of events                                                     *)

\* An event that stays in the batch stays readable if the step leaves its descriptor
\* alone and takes nothing from its connection.
LEMMA EventsKept ==
    ASSUME IInv, cur' = cur \/ cur \notin events', pc' = "recv" => pc = "recv",
           events' \subseteq events,
           \A f \in events' \ {Soc} : fdConn'[f] = fdConn[f],
           \A c \in Conns : Readable(c) => Readable(c)'
    PROVE  EventsAreLive'
<1> USE DEF Readable, HasLines
<1>1. \A f \in events' \ {Soc} : f \in OpenFds /\ f \in OpenFds'
  BY DEF IInv, EventsAreLive, OpenFds
<1>2. \A f \in events' \ {Soc} : Readable(fdConn[f]) \/ (f = cur /\ pc # "recv")
  BY DEF IInv, EventsAreLive
<1>3. \A f \in events' \ {Soc} : fdConn[f] \in Conns
  BY <1>1 DEF OpenFds, IInv, TypeOK
<1>4. \A f \in events' \ {Soc} : Readable(fdConn[f])' \/ (f = cur' /\ pc' # "recv")
  BY <1>2, <1>3
<1>5. QED
  BY <1>1, <1>4 DEF EventsAreLive

\* Clients only add to what can be read, and hanging up takes nothing away.
LEMMA ClientKeepsReadable ==
    ASSUME IInv, NEW c \in Conns, Client(c), NEW d \in Conns, Readable(d)
    PROVE  Readable(d)'
<1> USE DEF IInv, TypeOK, Readable, HasLines
<1>1. CASE Connect(c)
  BY <1>1 DEF Connect
<1>2. CASE SendLine(c)
  BY <1>2 DEF SendLine
<1>3. CASE ReadReply(c)
  BY <1>3 DEF ReadReply
<1>4. CASE CloseConn(c)
  BY <1>4 DEF CloseConn
<1>5. QED
  BY <1>1, <1>2, <1>3, <1>4 DEF Client

LEMMA BatchStep == IInv /\ [Next]_vars => CurIsPushed' /\ EventsAreLive'
<1> SUFFICES ASSUME IInv, [Next]_vars PROVE CurIsPushed' /\ EventsAreLive'
  OBVIOUS
<1> USE DEF IInv
<1>1. ASSUME EpollWait PROVE CurIsPushed' /\ EventsAreLive'
  <2>1. OpenFds' = OpenFds /\ \A c : Readable(c)' <=> Readable(c)
    BY <1>1 DEF EpollWait, OpenFds, Readable, HasLines, clientVars
  <2>2. EventsAreLive'
    BY <1>1, <2>1 DEF EpollWait, EventsAreLive, ReadyOf
  <2>3. QED
    BY <1>1, <2>2 DEF EpollWait, CurIsPushed
<1>2. ASSUME AcceptFails \/ AcceptFull \/ AcceptAdd \/ AcceptAddFails
      PROVE  CurIsPushed' /\ EventsAreLive'
  <2>1. events' \subseteq events \ {Soc} /\ cur' = cur /\ pc = "scan"
        /\ pc' \in {"epoll_wait", "scan", "join"}
    BY <1>2 DEF AcceptFails, AcceptFull, AcceptAdd, AcceptAddFails, NextEvent, AtListener, AcceptAndClose, HangUpOn, AcceptAs
  <2>2. CurIsPushed'
    BY <2>1 DEF CurIsPushed
  <2>3. \A f \in events' \ {Soc} : fdConn'[f] = fdConn[f]
    BY <1>2, <2>1 DEF AcceptFails, AcceptFull, AcceptAdd, AcceptAddFails, EventsAreLive, FreeFds, TypeOK, AcceptAndClose, HangUpOn, AcceptAs
  <2>4. \A c \in Conns : Readable(c) => Readable(c)'
    BY <1>2 DEF AcceptFails, AcceptFull, AcceptAdd, AcceptAddFails, HangUpOn, Readable, HasLines,
       clientVars, TypeOK, AcceptAndClose, AcceptAs
  <2>5. QED
    BY <2>1, <2>2, <2>3, <2>4, EventsKept
<1>m. ASSUME NEW f \in Fds, MarkSlot(f) PROVE CurIsPushed' /\ EventsAreLive'
  <2>1. /\ f \in events \ {Soc} /\ pc = "scan" /\ cur = Soc /\ cur' = f /\ pc' = "recv"
        /\ UNCHANGED <<phase, sent, read, fdConn, events>>
    BY <1>m DEF MarkSlot, CurIsPushed, clientVars
  <2>2. OpenFds' = OpenFds /\ \A c : Readable(c)' <=> Readable(c)
    BY <2>1 DEF OpenFds, Readable, HasLines
  <2>3. QED
    BY <2>1, <2>2 DEF EventsAreLive, CurIsPushed
<1>3. ASSUME NEW f \in Fds, Recv(f) PROVE CurIsPushed' /\ EventsAreLive'
  <2>1. /\ f \in events \ {Soc} /\ pc = "recv" /\ cur = f /\ cur' = f /\ pc' = "push"
        /\ UNCHANGED <<phase, sent, fdConn, events>>
    BY <1>3, CurFacts DEF Recv, RecvFrom
  <2>2. PICK k \in 1 .. MaxLines : TakeLines(fdConn[f], k)
    BY <1>3 DEF Recv, RecvFrom
  <2>3. \A c \in Conns \ {fdConn[f]} : Readable(c) => Readable(c)'
    BY <2>1, <2>2 DEF TakeLines, Readable, HasLines, TypeOK
  <2>4. \A g \in events \ {Soc} : g \in OpenFds /\ Readable(fdConn[g])
    BY <2>1 DEF EventsAreLive
  <2>5. \A g \in events \ {Soc} : g # f => fdConn[g] \in Conns \ {fdConn[f]}
    BY <2>1, <2>4 DEF OnePlace, OpenFds, TypeOK
  <2>6. \A g \in events \ {Soc} : Readable(fdConn[g])' \/ g = f
    BY <2>1, <2>3, <2>4, <2>5
  <2>7. OpenFds' = OpenFds
    BY <2>1 DEF OpenFds
  <2>8. QED
    BY <2>1, <2>4, <2>6, <2>7 DEF EventsAreLive, CurIsPushed
<1>4. ASSUME Push PROVE CurIsPushed' /\ EventsAreLive'
  <2>1. /\ pc = "push" /\ cur' = Soc /\ events' = events \ {cur} /\ UNCHANGED <<clientVars, fdConn>>
        /\ pc' \in {"epoll_wait", "scan"}
    BY <1>4 DEF Push, NextEvent
  <2>2. \A c : Readable(c)' <=> Readable(c)
    BY <2>1 DEF Readable, HasLines, clientVars
  <2>3. OpenFds' = OpenFds
    BY <2>1 DEF OpenFds
  <2>4. QED
    BY <2>1, <2>2, <2>3 DEF EventsAreLive, CurIsPushed
<1>5. ASSUME NEW f \in Fds, HangUp(f) PROVE CurIsPushed' /\ EventsAreLive'
  <2>1. /\ cur = f /\ cur' = Soc /\ events' = events \ {f} /\ UNCHANGED clientVars
        /\ pc' \in {"epoll_wait", "scan"}
    BY <1>5, HangUpKeepsClients DEF HangUp, NextEvent
  <2>2. \A g \in events' \ {Soc} : fdConn'[g] = fdConn[g]
    BY <1>5, <2>1 DEF HangUp, TypeOK, CloseFd, HangUpOn
  <2>3. \A c \in Conns : Readable(c) => Readable(c)'
    BY <2>1 DEF Readable, HasLines, clientVars
  <2>4. QED
    BY <2>1, <2>2, <2>3, EventsKept DEF CurIsPushed
<1>6. ASSUME UNCHANGED <<fdConn, events, cur>>, pc' \in {pc, "killed"},
             \A c \in Conns : Readable(c) => Readable(c)'
      PROVE  CurIsPushed' /\ EventsAreLive'
  BY <1>6, EventsKept DEF CurIsPushed
<1>7. ASSUME NEW q \in Senders, SendThread(q) \/ SpuriousWakeup(q)
      PROVE  CurIsPushed' /\ EventsAreLive'
  <2>1. UNCHANGED <<phase, sent, read, fdConn, events, cur>> /\ pc' \in {pc, "killed"}
    BY <1>7 DEF SendThread, TakeRequest, WaitForRequest, SpuriousWakeup, BuildReply, SendReply,
       SendFails, SendKills, clientVars, serverVars, SendTo
  <2>2. QED
    BY <1>6, <2>1 DEF Readable, HasLines
<1>8. CASE ClientStep
  BY <1>6, <1>8, ClientKeepsReadable DEF ClientStep, serverVars
<1>9. CASE UNCHANGED vars
  BY <1>6, <1>9 DEF vars, clientVars, serverVars, Readable, HasLines
<1>10. QED
  BY <1>1, <1>2, <1>m, <1>3, <1>4, <1>5, <1>7, <1>8, <1>9 DEF Next, AcceptLoop

\* Nothing moves the slot, or changes its descriptor, while recv() fills it.
LEMMA MarkStep == IInv /\ [Next]_vars => SlotIsMarked'
<1> SUFFICES ASSUME IInv, [Next]_vars, pc' = "recv"
             PROVE  data'[QueueOf(cur')][last'[QueueOf(cur')]].acc = cur'
  BY DEF SlotIsMarked
<1> TypeOK
  BY DEF IInv
<1>1. ASSUME NEW f \in Fds, MarkSlot(f)
      PROVE  data'[QueueOf(cur')][last'[QueueOf(cur')]].acc = cur'
  <2>1. cur' = f /\ ~Recv(f) /\ ~HangUp(f)
    BY <1>1 DEF MarkSlot, Recv, HangUp
  <2>2. PICK l : data' = [data EXCEPT ![QueueOf(f)][last[QueueOf(f)]] = [acc |-> f, line |-> l]]
    BY <1>1, <2>1, SlotWritten
  <2>3. QueueOf(f) \in Senders /\ last[QueueOf(f)] \in Slots /\ last' = last
    BY <1>1, SlotWritten
  <2> QED  BY <2>1, <2>2, <2>3 DEF TypeOK
<1>2. ASSUME pc = "recv", cur' = cur, last' = last,
             \A q \in Senders : \A i \in Slots : data'[q][i].acc = data[q][i].acc
      PROVE  data'[QueueOf(cur')][last'[QueueOf(cur')]].acc = cur'
  <2>1. QueueOf(cur) \in Senders /\ last[QueueOf(cur)] \in Slots
    BY <1>2, CurFacts DEF TypeOK
  <2> QED  BY <1>2, <2>1 DEF IInv, SlotIsMarked
<1>3. ASSUME NEW q \in Senders, SendThread(q) \/ SpuriousWakeup(q)
      PROVE  /\ pc = "recv" /\ cur' = cur /\ last' = last
             /\ \A p \in Senders : \A i \in Slots : data'[p][i].acc = data[p][i].acc
  <2>1. /\ pc = "recv" /\ cur' = cur /\ last' = last
        /\ data' = data \/ data' = [data EXCEPT ![q][ti[q]].line.ok = TRUE]
    BY <1>3 DEF SendThread, TakeRequest, WaitForRequest, SpuriousWakeup, BuildReply, SendReply,
       SendFails, SendKills, serverVars, queueVars
  <2>2. ASSUME NEW p \in Senders, NEW i \in Slots PROVE data'[p][i].acc = data[p][i].acc
    <3>1. data[p][i] \in [acc : Fds \cup {0}, line : Replies]
      BY DEF TypeOK
    <3>2. CASE data' = [data EXCEPT ![q][ti[q]].line.ok = TRUE]
      BY <3>1, <3>2 DEF TypeOK, Replies
    <3> QED  BY <2>1, <3>2
  <2> QED  BY <2>1, <2>2
<1>4. CASE ClientStep \/ UNCHANGED vars
  BY <1>2, <1>4 DEF ClientStep, vars, serverVars, queueVars
<1>5. ~(EpollWait \/ AcceptFails \/ AcceptFull \/ AcceptAdd \/ AcceptAddFails \/ Push)
  BY DEF EpollWait, AcceptFails, AcceptFull, AcceptAdd, AcceptAddFails, Push, NextEvent
<1>6. \A f \in Fds : ~Recv(f) /\ ~HangUp(f)
  BY DEF Recv, HangUp, NextEvent
<1> QED  BY <1>1, <1>2, <1>3, <1>4, <1>5, <1>6 DEF Next, AcceptLoop

---------------------------------------------------------------------------
(* The condition variables                                                 *)

LEMMA WakeupStep == IInv /\ [Next]_vars => NoLostWakeup'
<1> SUFFICES ASSUME IInv, [Next]_vars PROVE NoLostWakeup'
  OBVIOUS
<1> USE DEF IInv
<1>1. ASSUME Push PROVE NoLostWakeup'
  <2> DEFINE p == QueueOf(cur)
  <2>1. p \in Senders
    BY FdsFacts DEF TypeOK
  <2>2. /\ \A q \in Senders \ {p} : last'[q] = last[q] /\ tpc'[q] = tpc[q]
        /\ tpc'[p] # "wait" /\ UNCHANGED front
    BY <1>1, <2>1 DEF Push, Signal, TypeOK
  <2>3. QED
    BY <2>2 DEF NoLostWakeup
<1>2. ASSUME NEW p \in Senders, SendThread(p) \/ SpuriousWakeup(p) PROVE NoLostWakeup'
  <2>1. /\ UNCHANGED last
        /\ \A q \in Senders \ {p} : front'[q] = front[q] /\ tpc'[q] = tpc[q]
        /\ tpc'[p] = "wait" => last[p] = front[p] /\ front'[p] = front[p]
    BY <1>2 DEF SendThread, TakeRequest, WaitForRequest, SpuriousWakeup, BuildReply, SendReply,
       SendFails, SendKills, AtSend, queueVars, threadVars, TypeOK, SendTo
  <2>2. QED
    BY <2>1 DEF NoLostWakeup
<1>3. ASSUME UNCHANGED <<front, last, tpc>> PROVE NoLostWakeup'
  BY <1>3 DEF NoLostWakeup
<1>4. ASSUME EpollWait \/ AcceptFails \/ AcceptFull \/ AcceptAdd \/ AcceptAddFails
      PROVE  NoLostWakeup'
  BY <1>3, <1>4 DEF EpollWait, AcceptFails, AcceptFull, AcceptAdd, AcceptAddFails, queueVars, threadVars, AcceptAndClose, HangUpOn, AcceptAs
<1>5. ASSUME NEW f \in Fds, MarkSlot(f) \/ Recv(f) \/ HangUp(f) PROVE NoLostWakeup'
  BY <1>3, <1>5 DEF MarkSlot, Recv, HangUp, threadVars
<1>6. CASE ClientStep \/ UNCHANGED vars
  BY <1>3, <1>6 DEF ClientStep, vars, queueVars, threadVars
<1>7. QED
  BY <1>1, <1>2, <1>4, <1>5, <1>6 DEF Next, AcceptLoop

---------------------------------------------------------------------------
(* The slots that are in use                                               *)

\* The indices of a ring, without the remainder.
LEMMA RingIndices ==
    /\ \A i, j \in Slots : (i - j) % MAXQUEUESZ = IF i >= j THEN i - j ELSE i - j + MAXQUEUESZ
    /\ \A i \in Slots : QUEUE_NEXT(i) = IF i = MAXQUEUESZ - 1 THEN 0 ELSE i + 1
<1>1. MAXQUEUESZ \in Nat \ {0}
  BY ServerAssumption
<1>2. \A a \in Int : a >= 0 /\ a < MAXQUEUESZ => a % MAXQUEUESZ = a
  BY <1>1
<1>3. \A a \in Int : a < 0 /\ a >= -MAXQUEUESZ => a % MAXQUEUESZ = a + MAXQUEUESZ
  BY <1>1
<1>4. MAXQUEUESZ % MAXQUEUESZ = 0
  BY <1>1
<1>5. ASSUME NEW i \in Slots, NEW j \in Slots
      PROVE  (i - j) % MAXQUEUESZ = IF i >= j THEN i - j ELSE i - j + MAXQUEUESZ
  <2>1. i - j \in Int /\ i - j < MAXQUEUESZ /\ i - j >= -MAXQUEUESZ /\ (i >= j <=> i - j >= 0)
    BY <1>1 DEF Slots
  <2> QED  BY <1>2, <1>3, <2>1
<1>6. ASSUME NEW i \in Slots
      PROVE  QUEUE_NEXT(i) = IF i = MAXQUEUESZ - 1 THEN 0 ELSE i + 1
  <2>1. i + 1 \in Int /\ i + 1 >= 0 /\ i + 1 <= MAXQUEUESZ /\ (i = MAXQUEUESZ - 1 <=> i + 1 = MAXQUEUESZ)
    BY <1>1 DEF Slots
  <2> QED  BY <1>1, <1>2, <1>4, <2>1 DEF QUEUE_NEXT
<1> QED  BY <1>5, <1>6

\* The first slot of a ring that is not empty is queued, the one after its last is not.
LEMMA QueueEnds ==
    ASSUME TypeOK, NEW q \in Senders
    PROVE  /\ front[q] \in Slots /\ last[q] \in Slots
           /\ last[q] \notin Queued(q)
           /\ last[q] # front[q] => front[q] \in Queued(q)
<1>1. /\ front[q] \in Slots /\ last[q] \in Slots
      /\ \A i \in Slots : (i - front[q]) % MAXQUEUESZ
                             = IF i >= front[q] THEN i - front[q] ELSE i - front[q] + MAXQUEUESZ
  BY RingIndices DEF TypeOK
<1>2. last[q] \notin Queued(q)
  BY <1>1, ServerAssumption DEF Queued, Slots
<1>3. ASSUME last[q] # front[q] PROVE front[q] \in Queued(q)
  <2>1. (front[q] - front[q]) % MAXQUEUESZ = 0
    <3>1. front[q] - front[q] = 0
      BY <1>1 DEF Slots
    <3>2. 0 % MAXQUEUESZ = 0
      BY ServerAssumption
    <3> QED  BY <3>1, <3>2
  <2>2. (last[q] - front[q]) % MAXQUEUESZ > 0
    <3>1. PICK l, F \in Slots : l = last[q] /\ F = front[q]
      BY <1>1
    <3>2. (l - F) % MAXQUEUESZ = IF l >= F THEN l - F ELSE l - F + MAXQUEUESZ
      BY RingIndices
    <3> QED  BY <1>3, <3>1, <3>2, ServerAssumption DEF Slots
  <2> QED  BY <1>1, <2>1, <2>2 DEF Queued
<1> QED  BY <1>1, <1>2, <1>3

\* The slot at last joins the ring, or the ring is full and empty again.
LEMMA QueueGrows ==
    ASSUME TypeOK, NEW q \in Senders, front'[q] = front[q], last'[q] = QUEUE_NEXT(last[q]),
           NEW i \in Queued(q)'
    PROVE  i \in Queued(q) \/ i = last[q]
<1> DEFINE F == front[q]
           l == last[q]
           n == QUEUE_NEXT(l)
<1>1. /\ F \in Slots /\ l \in Slots /\ n \in Slots /\ i \in Slots
      /\ (i - F) % MAXQUEUESZ < (n - F) % MAXQUEUESZ
  BY NextSlot DEF TypeOK, Queued
<1>2. n = IF l = MAXQUEUESZ - 1 THEN 0 ELSE l + 1
  BY <1>1, RingIndices
<1>3. /\ (i - F) % MAXQUEUESZ = IF i >= F THEN i - F ELSE i - F + MAXQUEUESZ
      /\ (n - F) % MAXQUEUESZ = IF n >= F THEN n - F ELSE n - F + MAXQUEUESZ
      /\ (l - F) % MAXQUEUESZ = IF l >= F THEN l - F ELSE l - F + MAXQUEUESZ
  BY <1>1, RingIndices
<1>4. (i - F) % MAXQUEUESZ < (l - F) % MAXQUEUESZ \/ i = l
  <2>1. /\ i \in Nat /\ F \in Nat /\ l \in Nat /\ n \in Nat /\ MAXQUEUESZ \in Nat
        /\ i < MAXQUEUESZ /\ F < MAXQUEUESZ /\ l < MAXQUEUESZ
    BY <1>1, ServerAssumption DEF Slots
  <2> HIDE DEF F, l, n
  <2>2. CASE l = MAXQUEUESZ - 1
    BY <1>1, <1>2, <1>3, <2>1, <2>2
  <2>3. CASE l # MAXQUEUESZ - 1
    BY <1>1, <1>2, <1>3, <2>1, <2>3
  <2> QED  BY <2>2, <2>3
<1> QED  BY <1>1, <1>4 DEF Queued

\* The first slot leaves the ring.
LEMMA QueueShrinks ==
    ASSUME TypeOK, NEW q \in Senders, last[q] # front[q], front'[q] = QUEUE_NEXT(front[q]),
           last'[q] = last[q], NEW i \in Queued(q)'
    PROVE  i \in Queued(q)
<1> DEFINE F == front[q]
           l == last[q]
           n == QUEUE_NEXT(F)
<1>1. /\ F \in Slots /\ l \in Slots /\ n \in Slots /\ i \in Slots /\ l # F
      /\ (i - n) % MAXQUEUESZ < (l - n) % MAXQUEUESZ
  BY NextSlot DEF TypeOK, Queued
<1>2. n = IF F = MAXQUEUESZ - 1 THEN 0 ELSE F + 1
  BY <1>1, RingIndices
<1>3. /\ (i - n) % MAXQUEUESZ = IF i >= n THEN i - n ELSE i - n + MAXQUEUESZ
      /\ (l - n) % MAXQUEUESZ = IF l >= n THEN l - n ELSE l - n + MAXQUEUESZ
      /\ (i - F) % MAXQUEUESZ = IF i >= F THEN i - F ELSE i - F + MAXQUEUESZ
      /\ (l - F) % MAXQUEUESZ = IF l >= F THEN l - F ELSE l - F + MAXQUEUESZ
  BY <1>1, RingIndices
<1>4. (i - F) % MAXQUEUESZ < (l - F) % MAXQUEUESZ
  <2>1. /\ i \in Nat /\ F \in Nat /\ l \in Nat /\ n \in Nat /\ MAXQUEUESZ \in Nat
        /\ i < MAXQUEUESZ /\ F < MAXQUEUESZ /\ l < MAXQUEUESZ
    BY <1>1, ServerAssumption DEF Slots
  <2> HIDE DEF F, l, n
  <2>2. CASE F = MAXQUEUESZ - 1
    BY <1>1, <1>2, <1>3, <2>1, <2>2
  <2>3. CASE F # MAXQUEUESZ - 1
    BY <1>1, <1>2, <1>3, <2>1, <2>3
  <2> QED  BY <2>2, <2>3
<1> QED  BY <1>1, <1>4 DEF Queued

\* A slot whose line is yet to be sent: it is queued, or its reply is built, or it is
\* about to join the ring.
InUse(q, i) ==
    \/ i \in Queued(q)
    \/ Busy(q) /\ i = ti[q]
    \/ pc = "push" /\ q = QueueOf(cur) /\ i = last[q]

\* Only recv() brings a slot into use.
LEMMA InUseStep ==
    ASSUME IInv, [Next]_vars, NEW q \in Senders, NEW i \in Slots, InUse(q, i)'
    PROVE  InUse(q, i) \/ \E f \in Fds : Recv(f) /\ q = QueueOf(f) /\ i = last[q]
<1> TypeOK
  BY DEF IInv
<1>1. ASSUME front'[q] = front[q], last'[q] = last[q], ti'[q] = ti[q],
             tpc'[q] \in {"reply", "send"} => tpc[q] \in {"reply", "send"},
             pc' = "push" => pc = "push" /\ cur' = cur
      PROVE  InUse(q, i)
  BY <1>1 DEF InUse, Queued, Busy
<1>2. ASSUME EpollWait \/ AcceptFails \/ AcceptFull \/ AcceptAdd \/ AcceptAddFails
      PROVE  InUse(q, i)
  BY <1>1, <1>2 DEF EpollWait, AcceptFails, AcceptFull, AcceptAdd, AcceptAddFails, NextEvent,
     queueVars, threadVars
<1>3. ASSUME NEW f \in Fds, MarkSlot(f) \/ HangUp(f) PROVE InUse(q, i)
  BY <1>1, <1>3 DEF MarkSlot, HangUp, NextEvent, threadVars
<1>4. ASSUME NEW f \in Fds, Recv(f), ~(q = QueueOf(f) /\ i = last[q]) PROVE InUse(q, i)
  <2>1. cur' = f /\ UNCHANGED <<front, last, ti, tpc>>
    BY <1>4 DEF Recv, threadVars
  <2> QED  BY <1>4, <2>1 DEF InUse, Queued, Busy
<1>5. ASSUME Push PROVE InUse(q, i)
  <2>1. /\ pc = "push" /\ pc' # "push" /\ UNCHANGED <<front, ti>> /\ QueueOf(cur) \in Senders
        /\ tpc'[q] \in {"reply", "send"} => tpc[q] \in {"reply", "send"}
    BY <1>5, FdsFacts DEF Push, NextEvent, Signal, TypeOK
  <2>2. CASE q = QueueOf(cur)
    <3>1. last'[q] = QUEUE_NEXT(last[q])
      BY <1>5, <2>2 DEF Push, TypeOK
    <3>2. i \in Queued(q)' => i \in Queued(q) \/ i = last[q]
      BY <2>1, <3>1, QueueGrows
    <3> QED  BY <2>1, <2>2, <3>2 DEF InUse, Busy
  <2>3. CASE q # QueueOf(cur)
    <3>1. last'[q] = last[q]
      BY <1>5, <2>3 DEF Push, TypeOK
    <3> QED  BY <1>1, <2>1, <3>1
  <2> QED  BY <2>2, <2>3
<1>6. ASSUME NEW p \in Senders, TakeRequest(p) PROVE InUse(q, i)
  <2>1. /\ UNCHANGED <<last, pc, cur>> /\ last[p] # front[p]
        /\ ti'[p] = front[p] /\ front'[p] = QUEUE_NEXT(front[p])
        /\ \A r \in Senders \ {p} : ti'[r] = ti[r] /\ front'[r] = front[r] /\ tpc'[r] = tpc[r]
    BY <1>6 DEF TakeRequest, serverVars, TypeOK
  <2>2. CASE q = p
    <3>1. i \in Queued(q)' => i \in Queued(q)
      BY <2>1, <2>2, QueueShrinks
    <3>2. front[q] \in Queued(q)
      BY <2>1, <2>2, QueueEnds
    <3> QED  BY <2>1, <2>2, <3>1, <3>2 DEF InUse
  <2>3. CASE q # p
    BY <1>1, <2>1, <2>3
  <2> QED  BY <2>2, <2>3
<1>7. ASSUME NEW p \in Senders,
             \/ WaitForRequest(p) \/ SpuriousWakeup(p) \/ BuildReply(p)
             \/ SendReply(p) \/ SendFails(p) \/ SendKills(p)
      PROVE  InUse(q, i)
  BY <1>1, <1>7 DEF WaitForRequest, SpuriousWakeup, BuildReply, SendReply, SendFails, SendKills, AtSend,
     serverVars, queueVars, threadVars, TypeOK
<1>8. CASE ClientStep \/ UNCHANGED vars
  BY <1>1, <1>8 DEF ClientStep, vars, serverVars, queueVars, threadVars
<1> QED  BY <1>2, <1>3, <1>4, <1>5, <1>6, <1>7, <1>8 DEF Next, AcceptLoop, SendThread

---------------------------------------------------------------------------
(* Whose line a reply answers                                              *)

\* The line r may be sent to c: it is c's own, or its owner has left.
MaySend(r, c) == r.conn \in Conns => r.conn = c \/ phase[r.conn] = "closed"

\* The descriptor kept with a line that is yet to be sent is open on the connection the
\* line came from as long as that one is not closed; and so it was for what has been sent.
SlotKnowsOwner(q, i) ==
    data[q][i].line.conn \in Conns =>
        data[q][i].acc \in Fds /\ MaySend(data[q][i].line, fdConn[data[q][i].acc])

SentToOwners ==
    \A c \in Conns : /\ \A k \in DOMAIN out[c] : MaySend(out[c][k], c)
                     /\ \A k \in DOMAIN got[c] : MaySend(got[c][k], c)

LinesKnowOwners ==
    /\ SentToOwners
    /\ \A q \in Senders : \A i \in Slots : InUse(q, i) => SlotKnowsOwner(q, i)

\* A connection that is closed stays so.
LEMMA ClosedStays ==
    ASSUME IInv, [Next]_vars, NEW c \in Conns, phase[c] = "closed" PROVE phase'[c] = "closed"
<1> USE DEF IInv, TypeOK
<1>1. ASSUME NEW d, phase' = [phase EXCEPT ![d] = IF @ = "up" THEN "hungup" ELSE @]
      PROVE  phase'[c] = "closed"
  BY <1>1
<1>2. ASSUME AcceptFull \/ AcceptAddFails PROVE phase'[c] = "closed"
  BY <1>1, <1>2 DEF AcceptFull, AcceptAddFails, AcceptAndClose, HangUpOn
<1>3. ASSUME NEW f \in Fds, HangUp(f) PROVE phase'[c] = "closed"
  BY <1>1, <1>3 DEF HangUp, CloseFd, HangUpOn
<1>4. ASSUME NEW d \in Conns, Client(d) PROVE phase'[c] = "closed"
  BY <1>4 DEF Client, Connect, SendLine, ReadReply, CloseConn
<1>5. ASSUME NEW q \in Senders, SendThread(q) \/ SpuriousWakeup(q) PROVE phase' = phase
  BY <1>5 DEF SendThread, TakeRequest, WaitForRequest, SpuriousWakeup, BuildReply, SendReply,
     SendFails, SendKills, clientVars, SendTo
<1>6. ASSUME EpollWait \/ AcceptFails \/ AcceptAdd \/ Push
               \/ (\E f \in Fds : MarkSlot(f) \/ Recv(f))
      PROVE  phase' = phase
  BY <1>6 DEF EpollWait, AcceptFails, AcceptAdd, Push, MarkSlot, Recv, RecvFrom, AcceptAs, clientVars
<1>7. QED
  BY <1>2, <1>3, <1>4, <1>5, <1>6 DEF Next, AcceptLoop, ClientStep, vars, clientVars

\* A slot that keeps its line and its descriptor, with nobody else's connection on
\* that descriptor.
LEMMA SlotKept ==
    ASSUME IInv, [Next]_vars, NEW q \in Senders, NEW i \in Slots, SlotKnowsOwner(q, i),
           data'[q][i].line.conn = data[q][i].line.conn, data'[q][i].acc = data[q][i].acc,
           \A f \in Fds : \/ fdConn'[f] = fdConn[f]
                          \/ fdConn[f] = NoConn
                          \/ phase[fdConn[f]] = "closed"
    PROVE  SlotKnowsOwner(q, i)'
<1> DEFINE owner == data[q][i].line.conn
<1>1. SUFFICES ASSUME owner \in Conns
               PROVE  data[q][i].acc \in Fds
                        /\ (owner = fdConn'[data[q][i].acc] \/ phase'[owner] = "closed")
  BY DEF SlotKnowsOwner, MaySend
<1>2. data[q][i].acc \in Fds /\ (owner = fdConn[data[q][i].acc] \/ phase[owner] = "closed")
  BY <1>1 DEF SlotKnowsOwner, MaySend
<1>3. QED
  BY <1>1, <1>2, ClosedStays, ClientAssumption

\* What may be sent may be sent later.
LEMMA MaySendStays ==
    ASSUME IInv, [Next]_vars, NEW r, NEW c, MaySend(r, c) PROVE MaySend(r, c)'
  BY ClosedStays DEF MaySend

LEMMA SentKept ==
    ASSUME IInv, [Next]_vars, SentToOwners, UNCHANGED <<out, got>> PROVE SentToOwners'
<1>1. SUFFICES ASSUME NEW c \in Conns
               PROVE  /\ \A k \in DOMAIN out[c] : MaySend(out[c][k], c)'
                      /\ \A k \in DOMAIN got[c] : MaySend(got[c][k], c)'
  BY DEF SentToOwners, MaySend
<1>2. QED
  BY <1>1, MaySendStays DEF SentToOwners

\* As long as accept_loop() leaves the slots alone that are in use, no line changes hands.
LEMMA OwnersStep == IInv /\ SlotNotShared /\ LinesKnowOwners /\ [Next]_vars => LinesKnowOwners'
<1> SUFFICES ASSUME IInv, SlotNotShared, LinesKnowOwners, [Next]_vars PROVE LinesKnowOwners'
  OBVIOUS
<1> TypeOK /\ SentToOwners
  BY DEF IInv, LinesKnowOwners
<1>u. ASSUME SentToOwners', \A f \in Fds : ~Recv(f),
             \A q \in Senders : \A i \in Slots : InUse(q, i) => SlotKnowsOwner(q, i)'
      PROVE  LinesKnowOwners'
  BY <1>u, InUseStep DEF LinesKnowOwners
<1>1. ASSUME UNCHANGED <<data, out, got>>, \A f \in Fds : ~Recv(f),
             \A f \in Fds : fdConn'[f] = fdConn[f] \/ fdConn[f] = NoConn
      PROVE  LinesKnowOwners'
  BY <1>1, <1>u, SlotKept, SentKept DEF LinesKnowOwners
<1>r. ASSUME pc # "recv" \/ UNCHANGED pc PROVE \A f \in Fds : ~Recv(f)
  BY <1>r DEF Recv
<1>2. ASSUME AcceptAdd PROVE LinesKnowOwners'
  <2>1. /\ UNCHANGED <<data, out, got>> /\ pc # "recv"
        /\ \E f \in FreeFds : fdConn' = [fdConn EXCEPT ![f] = Head(backlog)]
    BY <1>2 DEF AcceptAdd, AtListener, AcceptAs, queueVars
  <2>2. \A f \in Fds : fdConn'[f] = fdConn[f] \/ fdConn[f] = NoConn
    BY <2>1 DEF FreeFds, OpenFds, TypeOK
  <2>3. QED
    BY <1>1, <1>r, <2>1, <2>2
\* The slot at last is not in use before recv() has filled it.
<1>l. ASSUME NEW q \in Senders, pc # "push" PROVE ~InUse(q, last[q])
  BY <1>l, QueueEnds DEF InUse, SlotNotShared
<1>m. ASSUME NEW f \in Fds, MarkSlot(f) PROVE LinesKnowOwners'
  <2> DEFINE p == QueueOf(f)
  <2>1. /\ \E d : data' = [data EXCEPT ![p][last[p]] = d]
        /\ p \in Senders /\ last[p] \in Slots
    BY <1>m, SlotWritten
  <2>2. UNCHANGED <<out, got, fdConn>> /\ pc = "scan"
    BY <1>m DEF MarkSlot, clientVars
  <2>3. ASSUME NEW q \in Senders, NEW i \in Slots, InUse(q, i) PROVE SlotKnowsOwner(q, i)'
    <3>1. data'[q][i] = data[q][i]
      BY <1>l, <2>1, <2>2, <2>3 DEF TypeOK
    <3> QED  BY <2>2, <2>3, <3>1, SlotKept DEF LinesKnowOwners
  <2> QED  BY <1>r, <1>u, <2>2, <2>3, SentKept
<1>3. ASSUME NEW f \in Fds, Recv(f) PROVE LinesKnowOwners'
  <2> DEFINE p == QueueOf(f)
  <2>1. /\ p \in Senders /\ last[p] \in Slots /\ f = cur /\ pc = "recv"
        /\ UNCHANGED <<out, got, fdConn>>
    BY <1>3, SlotWritten DEF Recv, RecvFrom
  <2>2. data' = [data EXCEPT ![p][last[p]] = [acc |-> f, line |-> FirstLine(f)]]
    <3>1. ~MarkSlot(f) /\ ~HangUp(f)
      BY <1>3 DEF MarkSlot, Recv, HangUp, NextEvent
    <3>2. data[p][last[p]].acc = f
      BY <2>1 DEF IInv, SlotIsMarked
    <3> QED  BY <1>3, <3>1, <3>2, SlotWritten
  <2>3. ASSUME NEW q \in Senders, NEW i \in Slots, InUse(q, i)' PROVE SlotKnowsOwner(q, i)'
    <3>1. CASE q = p /\ i = last[p]
      <4>1. data'[q][i] = [acc |-> f, line |-> FirstLine(f)]
        BY <2>1, <2>2, <3>1 DEF TypeOK
      <4> QED  BY <2>1, <4>1 DEF SlotKnowsOwner, MaySend, FirstLine
    <3>2. CASE ~(q = p /\ i = last[p])
      <4>1. data'[q][i] = data[q][i]
        BY <2>1, <2>2, <3>2 DEF TypeOK
      <4>2. InUse(q, i)
        <5>1. \A g \in Fds : Recv(g) => g = f
          BY <2>1 DEF Recv
        <5> QED  BY <2>3, <3>2, <5>1, InUseStep
      <4> QED  BY <2>1, <4>1, <4>2, SlotKept DEF LinesKnowOwners
    <3> QED  BY <3>1, <3>2
  <2> QED  BY <2>1, <2>3, SentKept DEF LinesKnowOwners
<1>4. ASSUME NEW f \in Fds, HangUp(f) PROVE LinesKnowOwners'
  <2> DEFINE p == QueueOf(f)
  <2>1. /\ \E d : data' = [data EXCEPT ![p][last[p]] = d]
        /\ p \in Senders /\ last[p] \in Slots
    BY <1>4, SlotWritten
  <2>2. /\ UNCHANGED <<out, got>> /\ pc = "recv" /\ pc' # "push"
        /\ fdConn' = [fdConn EXCEPT ![f] = NoConn] /\ phase[fdConn[f]] = "closed"
    BY <1>4 DEF HangUp, NextEvent, CloseFd, AtEnd
  <2>3. \A g \in Fds : ~Recv(g) /\ (fdConn'[g] = fdConn[g] \/ phase[fdConn[g]] = "closed")
    BY <2>2 DEF TypeOK, Recv
  <2>4. ASSUME NEW q \in Senders, NEW i \in Slots, InUse(q, i) PROVE SlotKnowsOwner(q, i)'
    <3>1. data'[q][i] = data[q][i]
      BY <1>l, <2>1, <2>2, <2>4 DEF TypeOK
    <3> QED  BY <2>3, <2>4, <3>1, SlotKept DEF LinesKnowOwners
  <2> QED  BY <1>u, <2>2, <2>3, <2>4, SentKept
<1>5. ASSUME NEW p \in Senders, BuildReply(p) PROVE LinesKnowOwners'
  <2>1. /\ data' = [data EXCEPT ![p][ti[p]].line.ok = TRUE]
        /\ UNCHANGED <<out, got, fdConn, pc>>
    BY <1>5 DEF BuildReply, clientVars, serverVars
  <2>2. ASSUME NEW q \in Senders, NEW i \in Slots, InUse(q, i) PROVE SlotKnowsOwner(q, i)'
    <3>1. data[q][i] \in [acc : Fds \cup {0}, line : Replies]
      BY DEF TypeOK
    <3>2. data'[q][i].line.conn = data[q][i].line.conn /\ data'[q][i].acc = data[q][i].acc
      BY <2>1, <3>1 DEF TypeOK, Replies
    <3>3. QED
      BY <2>1, <2>2, <3>2, SlotKept DEF LinesKnowOwners
  <2>3. QED
    BY <1>r, <1>u, <2>1, <2>2, SentKept
<1>6. ASSUME NEW q \in Senders, SendReply(q) PROVE LinesKnowOwners'
  <2> DEFINE d == data[q][ti[q]]
             to == fdConn[d.acc]
  <2>1. /\ UNCHANGED <<data, fdConn, got, pc>> /\ Addressee(q) # NoConn
        /\ Deliver(to, d.line) /\ InUse(q, ti[q])
    BY <1>6 DEF SendReply, AtSend, SendTo, ReplyFd, queueVars, InUse, Busy
  <2>2. d.acc \in Fds /\ to \in Conns
    BY <2>1 DEF Addressee, ReplyFd, TypeOK
  <2>3. MaySend(d.line, to)
    BY <2>1 DEF LinesKnowOwners, SlotKnowsOwner, MaySend, TypeOK
  <2>4. out' = out \/ out' = [out EXCEPT ![to] = Append(out[to], d.line)]
    BY <2>1 DEF Deliver
  <2>5. ASSUME NEW c \in Conns, NEW k \in DOMAIN out'[c] PROVE MaySend(out'[c][k], c)
    <3>1. CASE out'[c] = out[c]
      BY <2>5, <3>1 DEF SentToOwners
    <3>2. CASE c = to /\ out'[c] = Append(out[c], d.line)
      <4>1. out[c] \in Seq(Replies)
        BY DEF TypeOK
      <4>2. d.line \in Replies
        BY DEF TypeOK
      <4>3. \/ k \in DOMAIN out[c] /\ out'[c][k] = out[c][k]
            \/ out'[c][k] = d.line
        <5>1. /\ Append(out[c], d.line) \in Seq(Replies)
              /\ Len(Append(out[c], d.line)) = Len(out[c]) + 1
              /\ \A j \in 1 .. Len(out[c]) : Append(out[c], d.line)[j] = out[c][j]
              /\ Append(out[c], d.line)[Len(out[c]) + 1] = d.line
          BY <4>1, <4>2, AppendProperties
        <5>2. k \in 1 .. Len(out[c]) + 1 /\ Len(out[c]) \in Nat /\ DOMAIN out[c] = 1 .. Len(out[c])
          BY <2>5, <3>2, <4>1, <5>1, LenProperties
        <5>3. CASE k \in 1 .. Len(out[c])
          BY <3>2, <5>1, <5>2, <5>3
        <5>4. CASE k = Len(out[c]) + 1
          BY <3>2, <5>1, <5>4
        <5>5. QED
          BY <5>2, <5>3, <5>4
      <4>4. QED
        BY <2>3, <3>2, <4>3 DEF SentToOwners
    <3>3. QED
      BY <2>2, <2>4, <3>1, <3>2 DEF TypeOK
  <2>6. ASSUME NEW c \in Conns, NEW k \in DOMAIN out'[c] PROVE MaySend(out[c][k], c)'
    BY <2>5, <2>6, ClosedStays DEF MaySend
  <2>7. ASSUME NEW c \in Conns, NEW k \in DOMAIN got[c] PROVE MaySend(got[c][k], c)'
    BY <2>1, <2>7, ClosedStays DEF SentToOwners, MaySend
  <2>8. SentToOwners'
    BY <2>1, <2>6, <2>7 DEF SentToOwners
  <2>9. QED
    BY <1>r, <1>u, <2>1, <2>8, SlotKept DEF LinesKnowOwners
<1>7. ASSUME NEW d \in Conns, ReadReply(d), UNCHANGED <<serverVars, queueVars, threadVars>>
      PROVE  LinesKnowOwners'
  <2>1. /\ out[d] # <<>> /\ UNCHANGED <<data, fdConn, pc>>
        /\ got' = [got EXCEPT ![d] = Append(got[d], Head(out[d]))]
        /\ out' = [out EXCEPT ![d] = Tail(out[d])]
        /\ out[d] \in Seq(Replies) /\ got[d] \in Seq(Replies)
    BY <1>7 DEF ReadReply, serverVars, queueVars, TypeOK
  <2>2. /\ 1 \in DOMAIN out[d] /\ Head(out[d]) = out[d][1] /\ Head(out[d]) \in Replies
        /\ \A k \in DOMAIN Tail(out[d]) : k + 1 \in DOMAIN out[d] /\ Tail(out[d])[k] = out[d][k + 1]
    <3>1. /\ Head(out[d]) \in Replies /\ Head(out[d]) = out[d][1]
          /\ Tail(out[d]) \in Seq(Replies) /\ Len(Tail(out[d])) = Len(out[d]) - 1
          /\ \A k \in 1 .. Len(Tail(out[d])) : Tail(out[d])[k] = out[d][k + 1]
      BY <2>1, HeadTailProperties
    <3>2. DOMAIN out[d] = 1 .. Len(out[d]) /\ Len(out[d]) \in Nat \ {0}
          /\ DOMAIN Tail(out[d]) = 1 .. Len(Tail(out[d]))
      BY <2>1, <3>1, LenProperties, EmptySeq
    <3>3. QED
      BY <3>1, <3>2
  <2>3. \A k \in DOMAIN got'[d] :
            \/ (k \in DOMAIN got[d]) /\ got'[d][k] = got[d][k]
            \/ got'[d][k] = out[d][1]
    <3>1. got'[d] = Append(got[d], out[d][1])
      BY <2>1, <2>2 DEF TypeOK
    <3>2. /\ Append(got[d], out[d][1]) \in Seq(Replies)
          /\ Len(Append(got[d], out[d][1])) = Len(got[d]) + 1
          /\ \A j \in 1 .. Len(got[d]) : Append(got[d], out[d][1])[j] = got[d][j]
          /\ Append(got[d], out[d][1])[Len(got[d]) + 1] = out[d][1]
      BY <2>1, <2>2, AppendProperties
    <3>3. DOMAIN got'[d] = 1 .. Len(got[d]) + 1 /\ Len(got[d]) \in Nat /\ DOMAIN got[d] = 1 .. Len(got[d])
      BY <2>1, <3>1, <3>2, LenProperties
    <3>4. QED
      BY <3>1, <3>2, <3>3
  <2>4. /\ out'[d] = Tail(out[d])
        /\ \A c \in Conns \ {d} : out'[c] = out[c] /\ got'[c] = got[c]
    BY <2>1 DEF TypeOK
  <2>5. \A c \in Conns : /\ \A k \in DOMAIN out'[c] : MaySend(out'[c][k], c)
                         /\ \A k \in DOMAIN got'[c] : MaySend(got'[c][k], c)
    <3>1. ASSUME NEW c \in Conns, c # d
          PROVE  /\ \A k \in DOMAIN out'[c] : MaySend(out'[c][k], c)
                 /\ \A k \in DOMAIN got'[c] : MaySend(got'[c][k], c)
      BY <2>4, <3>1 DEF SentToOwners
    <3>2. \A k \in DOMAIN out'[d] : MaySend(out'[d][k], d)
      BY <2>2, <2>4 DEF SentToOwners
    <3>3. \A k \in DOMAIN got'[d] : MaySend(got'[d][k], d)
      BY <2>2, <2>3 DEF SentToOwners
    <3>4. QED
      BY <3>1, <3>2, <3>3
  <2>6. SentToOwners'
    <3>1. SUFFICES ASSUME NEW c \in Conns
                   PROVE  /\ \A k \in DOMAIN out'[c] : MaySend(out[c][k], c)'
                          /\ \A k \in DOMAIN got'[c] : MaySend(got[c][k], c)'
      BY DEF SentToOwners
    <3>2. QED
      BY <2>5, ClosedStays DEF MaySend
  <2>7. QED
    BY <1>r, <1>u, <2>1, <2>6, SlotKept DEF LinesKnowOwners
<1>8. ASSUME EpollWait \/ AcceptFails \/ AcceptFull \/ AcceptAddFails \/ Push PROVE LinesKnowOwners'
  <2>1. UNCHANGED <<data, out, got, fdConn>> /\ pc # "recv"
    BY <1>8 DEF EpollWait, AcceptFails, AcceptFull, AcceptAddFails, AtListener, Push, AcceptAndClose,
       clientVars, queueVars
  <2> QED  BY <1>1, <1>r, <2>1
<1>9. ASSUME NEW q \in Senders,
             TakeRequest(q) \/ WaitForRequest(q) \/ SpuriousWakeup(q) \/ SendFails(q) \/ SendKills(q)
      PROVE  LinesKnowOwners'
  <2>1. UNCHANGED <<data, out, got, fdConn>> /\ \A f \in Fds : ~Recv(f)
    BY <1>9 DEF TakeRequest, WaitForRequest, SpuriousWakeup, SendFails, SendKills, Recv,
       clientVars, serverVars, queueVars
  <2> QED  BY <1>1, <2>1
<1>10. ASSUME NEW c \in Conns, Connect(c) \/ SendLine(c) \/ CloseConn(c),
              UNCHANGED <<serverVars, queueVars, threadVars>>
       PROVE  LinesKnowOwners'
  BY <1>1, <1>r, <1>10 DEF Connect, SendLine, CloseConn, serverVars, queueVars
<1>11. ASSUME UNCHANGED vars PROVE LinesKnowOwners'
  BY <1>1, <1>r, <1>11 DEF vars, clientVars, serverVars, queueVars
<1>12. QED
  BY <1>2, <1>m, <1>3, <1>4, <1>5, <1>6, <1>7, <1>8, <1>9, <1>10, <1>11
     DEF Next, AcceptLoop, SendThread, ClientStep, Client

\* Every step of the program keeps the invariant.
LEMMA StepIInv == IInv /\ [Next]_vars => IInv'
  BY TypeStep, OnePlaceStep, CountStep, BatchStep, MarkStep, WakeupStep DEF IInv

---------------------------------------------------------------------------
(* The rings                                                               *)

\* Where the lines ring q holds begin, that of the reply being built included, and
\* which slots they fill: the one at start first.
Start(q) == IF Busy(q) THEN ti[q] ELSE front[q]
Off(q, i) == (i - Start(q)) % MAXQUEUESZ
Held(q) == {i \in Slots : Off(q, i) < Off(q, last[q])}

\* n is later than any line c has been sent a reply to.
Unanswered(c, n) == Answered(c) < n /\ \A k \in DOMAIN out[c] : out[c][k].n < n

\* The slot holds a line that awaits its reply, of the connection its descriptor is
\* open on.
Awaits(q, d) ==
    /\ d.acc \in Fds /\ QueueOf(d.acc) = q
    /\ d.line.conn \in Conns /\ fdConn[d.acc] = d.line.conn
    /\ d.line.n \in 1 .. read[d.line.conn] /\ Unanswered(d.line.conn, d.line.n)

\* A ring holds lines that await their replies, those of a connection in order.
RingHolds(q) ==
    /\ Busy(q) => front[q] = QUEUE_NEXT(ti[q]) /\ ti[q] # last[q]
    /\ \A i \in Held(q) : Awaits(q, data[q][i])
    /\ \A i, j \in Held(q) :
           Off(q, i) < Off(q, j) /\ data[q][i].acc = data[q][j].acc
               => data[q][i].line.n < data[q][j].line.n

\* What waits to join a ring is the last line of its connection.
NextToHold ==
    pc = "push" =>
        LET q == QueueOf(cur)
            d == data[q][last[q]] IN
        /\ Awaits(q, d) /\ d.acc = cur
        /\ \A i \in Held(q) : data[q][i].acc = cur => data[q][i].line.n < d.line.n

\* A client is sent its own replies, in order, and has no more than Window lines
\* outstanding, none when it closes.
ClientInOrder(c) ==
    /\ Answered(c) <= read[c] /\ read[c] <= sent[c] /\ sent[c] - Answered(c) <= Window
    /\ phase[c] = "closed" => sent[c] = Answered(c)
    /\ \A k \in DOMAIN out[c] : /\ out[c][k].conn = c
                                /\ Answered(c) < out[c][k].n /\ out[c][k].n <= read[c]
    /\ \A j, k \in DOMAIN out[c] : j < k => out[c][j].n < out[c][k].n
    /\ \A k \in DOMAIN got[c] : got[c][k].conn = c

RingInv ==
    /\ \A q \in Senders : RingHolds(q)
    /\ NextToHold
    /\ \A c \in Conns : ClientInOrder(c)

\* The clients wait for their replies before they close, and the lines of as many
\* connections as the server keeps leave a slot of a ring free.
WindowFits == EarlyClosers = {} /\ (MAX_CHILD - 1) * Window < MAXQUEUESZ

LEMMA Offsets ==
    ASSUME TypeOK, NEW q \in Senders
    PROVE  /\ Start(q) \in Slots /\ last[q] \in Slots /\ front[q] \in Slots /\ ti[q] \in Slots
           /\ \A i \in Slots : /\ Off(q, i) \in Slots
                               /\ Off(q, i) = IF i >= Start(q) THEN i - Start(q)
                                              ELSE i - Start(q) + MAXQUEUESZ
           /\ \A i, j \in Slots : Off(q, i) = Off(q, j) => i = j
           /\ last[q] \notin Held(q)
<1>1. Start(q) \in Slots /\ last[q] \in Slots /\ front[q] \in Slots /\ ti[q] \in Slots
  BY DEF TypeOK, Start
<1>2. \A i \in Slots : Off(q, i) = IF i >= Start(q) THEN i - Start(q)
                                   ELSE i - Start(q) + MAXQUEUESZ
  BY <1>1, RingIndices DEF Off
<1>3. \A i \in Slots : Off(q, i) \in Slots
  BY <1>1, <1>2, ServerAssumption DEF Slots
<1>4. \A i, j \in Slots : Off(q, i) = Off(q, j) => i = j
  BY <1>1, <1>2, ServerAssumption DEF Slots
<1>5. last[q] \notin Held(q)
  BY <1>1, <1>3 DEF Held, Slots
<1> QED  BY <1>1, <1>2, <1>3, <1>4, <1>5

\* A slot joins a ring that has room.
LEMMA RingGrows ==
    ASSUME TypeOK, TypeOK', NEW q \in Senders, Start(q)' = Start(q),
           last'[q] = QUEUE_NEXT(last[q]), QUEUE_NEXT(last[q]) # Start(q)
    PROVE  /\ \A i \in Slots : Off(q, i)' = Off(q, i)
           /\ \A i \in Held(q)' : i \in Held(q) \/ i = last[q]
           /\ \A i \in Held(q) : Off(q, i) < Off(q, last[q])
<1> DEFINE S == Start(q)
           l == last[q]
<1>1. /\ S \in Slots /\ l \in Slots /\ QUEUE_NEXT(l) \in Slots
      /\ \A i \in Slots : /\ Off(q, i) \in Slots
                          /\ Off(q, i) = IF i >= S THEN i - S ELSE i - S + MAXQUEUESZ
  BY Offsets, NextSlot
<1>2. \A i \in Slots : Off(q, i)' = Off(q, i)
  BY DEF Off
<1>3. QUEUE_NEXT(l) = IF l = MAXQUEUESZ - 1 THEN 0 ELSE l + 1
  BY <1>1, RingIndices
<1>4. Off(q, QUEUE_NEXT(l)) = Off(q, l) + 1
  BY <1>1, <1>3, ServerAssumption DEF Slots
<1>5. Held(q)' = {i \in Slots : Off(q, i) < Off(q, QUEUE_NEXT(l))}
  <2>1. ASSUME NEW i \in Slots PROVE (Off(q, i) < Off(q, last[q]))' <=> Off(q, i) < Off(q, QUEUE_NEXT(l))
    BY DEF Off
  <2> QED  BY <2>1 DEF Held
<1>6. ASSUME NEW i \in Slots, Off(q, i) < Off(q, l) + 1 PROVE Off(q, i) < Off(q, l) \/ i = l
  <2>1. Off(q, i) < Off(q, l) \/ Off(q, i) = Off(q, l)
    BY <1>1, <1>6 DEF Slots
  <2> QED  BY <1>1, <2>1, Offsets
<1> QED  BY <1>1, <1>2, <1>4, <1>5, <1>6 DEF Held

\* The first slot of a ring is done with.
LEMMA RingShrinks ==
    ASSUME TypeOK, TypeOK', NEW q \in Senders, Busy(q), ~Busy(q)', RingHolds(q),
           front'[q] = front[q], last'[q] = last[q]
    PROVE  /\ \A i \in Held(q)' : i \in Held(q) /\ i # ti[q] /\ Off(q, i)' = Off(q, i) - 1
           /\ ti[q] \in Held(q)
           /\ \A i \in Slots \ {ti[q]} : Off(q, ti[q]) < Off(q, i)
<1> DEFINE S == ti[q]
           F == front[q]
<1>1. /\ Start(q) = S /\ Start(q)' = F /\ F = QUEUE_NEXT(S) /\ S # last[q]
  BY DEF Start, RingHolds
<1>2. /\ S \in Slots /\ F \in Slots /\ last[q] \in Slots
      /\ \A i \in Slots : /\ Off(q, i) \in Slots
                          /\ Off(q, i) = IF i >= S THEN i - S ELSE i - S + MAXQUEUESZ
  BY <1>1, Offsets
<1>3. F = IF S = MAXQUEUESZ - 1 THEN 0 ELSE S + 1
  BY <1>1, <1>2, RingIndices
<1>4. \A i \in Slots : (i - F) % MAXQUEUESZ = IF i >= F THEN i - F ELSE i - F + MAXQUEUESZ
  BY <1>2, RingIndices
<1>5. \A i \in Slots : Off(q, i)' = (i - F) % MAXQUEUESZ
  BY <1>1 DEF Off
<1>6. ASSUME NEW i \in Slots, i # S PROVE (i - F) % MAXQUEUESZ = Off(q, i) - 1
  <2>1. Off(q, i) = IF i >= S THEN i - S ELSE i - S + MAXQUEUESZ
    BY <1>2
  <2>2. (i - F) % MAXQUEUESZ = IF i >= F THEN i - F ELSE i - F + MAXQUEUESZ
    BY <1>4
  <2>3. /\ i \in Nat /\ S \in Nat /\ F \in Nat /\ MAXQUEUESZ \in Nat
        /\ i < MAXQUEUESZ /\ S < MAXQUEUESZ
    BY <1>2, ServerAssumption DEF Slots
  <2> HIDE DEF S, F
  <2>4. CASE S = MAXQUEUESZ - 1
    BY <1>3, <1>6, <2>1, <2>2, <2>3, <2>4
  <2>5. CASE S # MAXQUEUESZ - 1
    BY <1>3, <1>6, <2>1, <2>2, <2>3, <2>5
  <2> QED  BY <2>4, <2>5
<1>7. (S - F) % MAXQUEUESZ = MAXQUEUESZ - 1 /\ Off(q, S) = 0
  BY <1>2, <1>3, <1>4, ServerAssumption DEF Slots
<1>8. \A i \in Slots \ {S} : Off(q, i) > 0
  BY <1>2, ServerAssumption DEF Slots
<1>9. ASSUME NEW i \in Held(q)' PROVE i \in Held(q) /\ i # S /\ Off(q, i)' = Off(q, i) - 1
  <2>1. i \in Slots /\ (i - F) % MAXQUEUESZ < (last[q] - F) % MAXQUEUESZ
    BY <1>1, <1>9 DEF Held, Off
  <2>2. (last[q] - F) % MAXQUEUESZ = Off(q, last[q]) - 1
    BY <1>1, <1>2, <1>6
  <2>3. i # S
    BY <1>2, <1>7, <2>1, <2>2, ServerAssumption DEF Slots
  <2>4. Off(q, i) < Off(q, last[q])
    BY <1>2, <1>6, <2>1, <2>2, <2>3 DEF Slots
  <2> QED  BY <1>5, <1>6, <2>1, <2>3, <2>4 DEF Held
<1>10. S \in Held(q)
  BY <1>1, <1>2, <1>7, <1>8 DEF Held
<1> QED  BY <1>7, <1>8, <1>9, <1>10

LEMMA AnsweredIs ==
    ASSUME TypeOK, NEW c \in Conns
    PROVE  Answered(c) \in 0 .. MaxLines
<1>1. got[c] \in Seq(Replies)
  BY DEF TypeOK
<1>2. CASE got[c] = <<>>
  BY <1>2, ClientAssumption DEF Answered
<1>3. CASE got[c] # <<>>
  <2>1. Len(got[c]) \in DOMAIN got[c] /\ got[c][Len(got[c])] \in Replies
    BY <1>1, <1>3, EmptySeq, LenProperties
  <2> QED  BY <1>3, <2>1 DEF Answered, Replies
<1> QED  BY <1>2, <1>3

\* As many lines as a ring has slots would be more than the windows of all open
\* connections allow.
LEMMA RoomLeft ==
    ASSUME WindowFits, IInv, RingInv, pc = "push"
    PROVE  QUEUE_NEXT(last[QueueOf(cur)]) # Start(QueueOf(cur))
<1> DEFINE q == QueueOf(cur)
           D(i) == data[q][i]
<1> TypeOK
  BY DEF IInv
<1>1. q \in Senders /\ cur \in Fds
  BY FdsFacts DEF IInv, CurIsPushed, TypeOK
<1> HIDE DEF q
<1>2. /\ RingHolds(q) /\ Awaits(q, D(last[q])) /\ D(last[q]).acc = cur
      /\ \A i \in Held(q) : D(i).acc = cur => D(i).line.n < D(last[q]).line.n
  BY <1>1 DEF RingInv, NextToHold, q
<1> SUFFICES ASSUME QUEUE_NEXT(last[q]) = Start(q) PROVE FALSE
  BY DEF q
<1>3. \A i \in Slots : i = last[q] \/ i \in Held(q)
  <2>1. Off(q, last[q]) = MAXQUEUESZ - 1
    BY <1>1, Offsets, RingIndices, ServerAssumption DEF Slots
  <2>2. ASSUME NEW i \in Slots, i # last[q] PROVE Off(q, i) < MAXQUEUESZ - 1
    <3>1. Off(q, i) # MAXQUEUESZ - 1 /\ Off(q, i) \in Slots
      BY <1>1, <2>1, <2>2, Offsets
    <3> QED  BY <3>1, ServerAssumption DEF Slots
  <2> QED  BY <2>1, <2>2 DEF Held
<1>4. ASSUME NEW i \in Slots PROVE Awaits(q, D(i))
  BY <1>2, <1>3 DEF RingHolds
<1>5. ASSUME NEW i \in Slots, NEW j \in Slots, i # j, D(i).acc = D(j).acc
      PROVE  D(i).line.n # D(j).line.n
  <2>1. D(i).line.n \in Int /\ D(j).line.n \in Int
    BY <1>4 DEF Awaits
  <2>2. CASE i = last[q] \/ j = last[q]
    BY <1>2, <1>3, <1>5, <2>1, <2>2
  <2>3. CASE i # last[q] /\ j # last[q]
    <3>1. i \in Held(q) /\ j \in Held(q)
      BY <1>3, <2>3
    <3>2. Off(q, i) < Off(q, j) \/ Off(q, j) < Off(q, i)
      BY <1>1, <1>5, Offsets DEF Slots
    <3>3. \A x, y \in Held(q) : Off(q, x) < Off(q, y) /\ D(x).acc = D(y).acc => D(x).line.n < D(y).line.n
      BY <1>2 DEF RingHolds
    <3> QED  BY <1>5, <2>1, <3>1, <3>2, <3>3
  <2> QED  BY <2>2, <2>3
<1> DEFINE Key(i) == <<D(i).acc, D(i).line.n - Answered(fdConn[D(i).acc])>>
           key == [i \in Slots |-> Key(i)]
           Keys == OpenFds \X (1 .. Window)
<1>6. ASSUME NEW i \in Slots
      PROVE  /\ D(i).acc \in OpenFds /\ D(i).line.n \in Int /\ Answered(fdConn[D(i).acc]) \in Int
             /\ D(i).line.n - Answered(fdConn[D(i).acc]) \in 1 .. Window
  <2>1. PICK c \in Conns : c = fdConn[D(i).acc] /\ c = D(i).line.conn
    BY <1>4 DEF Awaits
  <2>2. D(i).acc \in OpenFds
    BY <1>4, <2>1, ClientAssumption DEF Awaits, OpenFds
  <2>3. D(i).line.n \in 1 .. read[c] /\ Answered(c) < D(i).line.n
    BY <1>4, <2>1 DEF Awaits, Unanswered
  <2>4. read[c] <= sent[c] /\ sent[c] - Answered(c) <= Window
    BY DEF RingInv, ClientInOrder
  <2>5. /\ Answered(c) \in Int /\ read[c] \in Int /\ sent[c] \in Int /\ Window \in Int
    BY AnsweredIs, ClientAssumption DEF TypeOK
  <2> QED  BY <2>1, <2>2, <2>3, <2>4, <2>5
<1>7. key \in [Slots -> Keys]
  BY <1>6
<1>8. ASSUME NEW i \in Slots, NEW j \in Slots, i # j PROVE key[i] # key[j]
  <2>1. key[i] = Key(i) /\ key[j] = Key(j)
    OBVIOUS
  <2>2. CASE D(i).acc = D(j).acc
    <3>1. D(i).line.n - Answered(fdConn[D(i).acc]) # D(j).line.n - Answered(fdConn[D(j).acc])
      BY <1>5, <1>6, <1>8, <2>2
    <3> QED  BY <2>1, <3>1
  <2> QED  BY <2>1, <2>2
<1>9. key \in Injection(Slots, Keys)
  BY <1>7, <1>8 DEF Injection, IsInjective
<1>10. IsFiniteSet(OpenFds) /\ Cardinality(OpenFds) \in Nat /\ Cardinality(OpenFds) <= MAX_CHILD - 1
  <2>1. IsFiniteSet(OpenFds)
    BY FdsFacts, FS_Subset DEF OpenFds
  <2>2. Cardinality(OpenFds) = count /\ count \in 0 .. (MAX_CHILD - 1)
    BY DEF IInv, CountIsOpen, TypeOK
  <2> QED  BY <2>1, <2>2, SocketAssumption
<1>11. IsFiniteSet(Keys) /\ Cardinality(Keys) = Cardinality(OpenFds) * Window
  <2>1. IsFiniteSet(1 .. Window) /\ Cardinality(1 .. Window) = Window
    BY FS_Interval, ClientAssumption
  <2> QED  BY <1>10, <2>1, FS_Product
<1>12. Cardinality(Slots) = MAXQUEUESZ
  BY FS_Interval, ServerAssumption DEF Slots
<1>13. Cardinality(OpenFds) * Window <= (MAX_CHILD - 1) * Window
  <2>1. \A a, b, w \in Nat : a <= b => a * w <= b * w
    OBVIOUS
  <2>2. MAX_CHILD - 1 \in Nat /\ Window \in Nat
    BY SocketAssumption, ClientAssumption
  <2> QED  BY <1>10, <2>1, <2>2
<1>14. Cardinality(Slots) <= Cardinality(Keys)
  BY <1>9, <1>11, FS_Injection
<1>15. (MAX_CHILD - 1) * Window < MAXQUEUESZ /\ (MAX_CHILD - 1) * Window \in Nat
       /\ Cardinality(OpenFds) * Window \in Nat
  BY <1>10, SocketAssumption, ClientAssumption DEF WindowFits
<1> QED
  BY <1>11, <1>12, <1>13, <1>14, <1>15, ServerAssumption

---------------------------------------------------------------------------
(* What the rings hold, from step to step                                  *)

LEMMA TailFacts ==
    ASSUME NEW s \in Seq(Replies), s # <<>>
    PROVE  /\ 1 \in DOMAIN s /\ Head(s) = s[1] /\ Head(s) \in Replies
           /\ \A k \in DOMAIN s : k \in Nat \ {0}
           /\ \A k \in DOMAIN Tail(s) : k \in Nat \ {0} /\ k + 1 \in DOMAIN s /\ Tail(s)[k] = s[k + 1]
<1>1. /\ Head(s) \in Replies /\ Head(s) = s[1]
      /\ Tail(s) \in Seq(Replies) /\ Len(Tail(s)) = Len(s) - 1
      /\ \A k \in 1 .. Len(Tail(s)) : Tail(s)[k] = s[k + 1]
  BY HeadTailProperties
<1>2. DOMAIN s = 1 .. Len(s) /\ Len(s) \in Nat \ {0} /\ DOMAIN Tail(s) = 1 .. Len(Tail(s))
  BY <1>1, LenProperties, EmptySeq
<1> QED  BY <1>1, <1>2

LEMMA AppendFacts ==
    ASSUME NEW s \in Seq(Replies), NEW r \in Replies
    PROVE  /\ \A k \in DOMAIN s : k \in Nat /\ k < Len(s) + 1
           /\ \A k \in DOMAIN Append(s, r) : \/ k \in DOMAIN s /\ Append(s, r)[k] = s[k]
                                             \/ k = Len(s) + 1 /\ Append(s, r)[k] = r
           /\ Append(s, r) # <<>> /\ Append(s, r)[Len(Append(s, r))] = r
<1>1. /\ Append(s, r) \in Seq(Replies)
      /\ Len(Append(s, r)) = Len(s) + 1
      /\ \A j \in 1 .. Len(s) : Append(s, r)[j] = s[j]
      /\ Append(s, r)[Len(s) + 1] = r
  BY AppendProperties
<1>2. DOMAIN s = 1 .. Len(s) /\ Len(s) \in Nat /\ DOMAIN Append(s, r) = 1 .. Len(s) + 1
  BY <1>1, LenProperties
<1>3. Append(s, r) # <<>>
  BY <1>1, <1>2, EmptySeq
<1> QED  BY <1>1, <1>2, <1>3

\* A step leaves what slot i of ring q is about.
SlotStays(q, i) ==
    /\ data'[q][i].acc = data[q][i].acc
    /\ data'[q][i].line.conn = data[q][i].line.conn
    /\ data'[q][i].line.n = data[q][i].line.n

\* A step leaves every line that awaits its reply awaiting it.
AwaitsStay == \A q \in Senders : \A d : Awaits(q, d) => Awaits(q, d)'

\* A line that awaits its reply does so as long as its descriptor stays open on its
\* connection and no reply to it, or to a later one, is sent.
LEMMA AwaitsKept ==
    ASSUME TypeOK, TypeOK', NEW q \in Senders, NEW d, Awaits(q, d),
           fdConn'[d.acc] = fdConn[d.acc], read[d.line.conn] <= read'[d.line.conn],
           Unanswered(d.line.conn, d.line.n)'
    PROVE  Awaits(q, d)'
<1>1. /\ d.acc \in Fds /\ QueueOf(d.acc) = q /\ d.line.conn \in Conns
      /\ fdConn[d.acc] = d.line.conn /\ d.line.n \in 1 .. read[d.line.conn]
  BY DEF Awaits
<1>2. read[d.line.conn] \in Nat /\ read'[d.line.conn] \in Nat
  <2>1. read \in [Conns -> 0 .. MaxLines] /\ read' \in [Conns -> 0 .. MaxLines]
    BY DEF TypeOK
  <2> QED  BY <1>1, <2>1, ClientAssumption
<1>3. d.line.n \in 1 .. read'[d.line.conn]
  BY <1>1, <1>2
<1> QED  BY <1>1, <1>3 DEF Awaits

LEMMA SlotAwaits ==
    ASSUME NEW q \in Senders, NEW i \in Slots, SlotStays(q, i), Awaits(q, data[q][i]),
           \A d : d.acc = data[q][i].acc /\ d.line.conn = data[q][i].line.conn
                    /\ d.line.n = data[q][i].line.n /\ Awaits(q, d) => Awaits(q, d)'
    PROVE  Awaits(q, data[q][i])'
<1>1. PICK d, e : d = data[q][i] /\ e = data'[q][i]
  OBVIOUS
<1>2. Awaits(q, d)'
  BY <1>1
<1>3. e.acc = d.acc /\ e.line.conn = d.line.conn /\ e.line.n = d.line.n
  BY <1>1 DEF SlotStays
<1>4. Awaits(q, e)'
  BY <1>2, <1>3 DEF Awaits
<1> QED  BY <1>1, <1>4

\* A ring whose lines stay, all but perhaps the first, holds them as it did.
LEMMA RingKept ==
    ASSUME NEW q \in Senders, RingHolds(q),
           (Busy(q) => front[q] = QUEUE_NEXT(ti[q]) /\ ti[q] # last[q])',
           \A i \in Held(q)' : i \in Held(q) /\ SlotStays(q, i) /\ Awaits(q, data[q][i])',
           \A i, j \in Held(q)' : (Off(q, i) < Off(q, j))' => Off(q, i) < Off(q, j)
    PROVE  RingHolds(q)'
  BY DEF RingHolds, SlotStays

LEMMA NextKept ==
    ASSUME TypeOK, NextToHold, cur' = cur, pc' = "push" => pc = "push",
           QueueOf(cur) \in Senders, last'[QueueOf(cur)] = last[QueueOf(cur)],
           SlotStays(QueueOf(cur), last[QueueOf(cur)]),
           pc' = "push" => Awaits(QueueOf(cur), data[QueueOf(cur)][last[QueueOf(cur)]])',
           \A i \in Held(QueueOf(cur))' : i \in Held(QueueOf(cur)) /\ SlotStays(QueueOf(cur), i)
    PROVE  NextToHold'
<1> SUFFICES ASSUME pc' = "push" PROVE NextToHold'
  BY DEF NextToHold
<1> DEFINE q == QueueOf(cur)
<1>1. /\ Awaits(q, data[q][last[q]]) /\ data[q][last[q]].acc = cur
      /\ \A i \in Held(q) : data[q][i].acc = cur => data[q][i].line.n < data[q][last[q]].line.n
  BY DEF NextToHold
<1>2. Awaits(q, data[q][last[q]])' /\ data'[q][last[q]].acc = cur
  BY <1>1 DEF SlotStays
<1>3. \A i \in Held(q)' : data'[q][i].acc = cur => data'[q][i].line.n < data'[q][last[q]].line.n
  BY <1>1 DEF SlotStays
<1> QED  BY <1>2, <1>3 DEF NextToHold

\* Where a ring is left alone.
LEMMA RingStill ==
    ASSUME NEW q \in Senders, last'[q] = last[q], Start(q)' = Start(q)
    PROVE  /\ \A i \in Slots : Off(q, i)' = Off(q, i)
           /\ \A i \in Held(q)' : i \in Held(q)
<1>1. \A i : Off(q, i)' = Off(q, i)
  BY DEF Off
<1>2. \A i : (Off(q, i) < Off(q, last[q]))' <=> Off(q, i) < Off(q, last[q])
  BY DEF Off
<1> QED  BY <1>1, <1>2 DEF Held

\* A thread that sends holds a line that awaits its reply.
LEMMA ReplyAwaits ==
    ASSUME IInv, RingInv, NEW q \in Senders, Busy(q)
    PROVE  ti[q] \in Held(q) /\ Awaits(q, data[q][ti[q]])
<1>1. TypeOK /\ RingHolds(q) /\ Start(q) = ti[q] /\ ti[q] # last[q]
  BY DEF IInv, RingInv, RingHolds, Start
<1>2. Off(q, ti[q]) = 0 /\ Off(q, last[q]) \in Slots /\ Off(q, last[q]) # Off(q, ti[q]) /\ ti[q] \in Slots
  BY <1>1, Offsets DEF Slots
<1>3. ti[q] \in Held(q)
  BY <1>2 DEF Held, Slots
<1> QED  BY <1>1, <1>3 DEF RingHolds

LEMMA InOrderKept ==
    ASSUME TypeOK, TypeOK', NEW c \in Conns, ClientInOrder(c),
           got'[c] = got[c], out'[c] = out[c], sent'[c] = sent[c],
           read[c] <= read'[c], read'[c] <= sent'[c],
           phase'[c] = "closed" => phase[c] = "closed"
    PROVE  ClientInOrder(c)'
<1>1. Answered(c)' = Answered(c) /\ Answered(c) \in Int
  BY AnsweredIs DEF Answered
<1>2. \A k \in DOMAIN out[c] : out[c][k].n \in Int
  <2>1. out[c] \in Seq(Replies)
    BY DEF TypeOK
  <2>2. \A k \in DOMAIN out[c] : out[c][k] \in Replies
    BY <2>1, LenProperties
  <2> QED  BY <2>2 DEF Replies
<1>3. read[c] \in Int /\ read'[c] \in Int /\ sent[c] \in Int
  BY DEF TypeOK
<1>4. \A k \in DOMAIN out[c] : out[c][k].n <= read'[c]
  BY <1>2, <1>3 DEF ClientInOrder
<1> QED  BY <1>1, <1>3, <1>4 DEF ClientInOrder

LEMMA InOrderStep ==
    ASSUME WindowFits, IInv, TypeOK', RingInv, [Next]_vars, NEW c \in Conns
    PROVE  ClientInOrder(c)'
<1> TypeOK /\ ClientInOrder(c)
  BY DEF IInv, RingInv
<1>0. /\ read[c] \in Int /\ sent[c] \in Int /\ read[c] <= sent[c] /\ Answered(c) \in Int
      /\ got[c] \in Seq(Replies) /\ out[c] \in Seq(Replies)
  BY AnsweredIs DEF TypeOK, ClientInOrder
\* Steps that send, receive and read nothing.
<1>1. ASSUME UNCHANGED <<sent, read, out, got>>, phase'[c] = "closed" => phase[c] = "closed"
      PROVE  ClientInOrder(c)'
  BY <1>0, <1>1, InOrderKept
<1>p. ASSUME NEW d, phase' = [phase EXCEPT ![d] = IF @ = "up" THEN "hungup" ELSE @]
      PROVE  phase'[c] = "closed" => phase[c] = "closed"
  BY <1>p DEF TypeOK
<1>2. ASSUME AcceptFull \/ AcceptAddFails PROVE ClientInOrder(c)'
  BY <1>1, <1>2, <1>p DEF AcceptFull, AcceptAddFails, AcceptAndClose, HangUpOn
<1>3. ASSUME NEW f \in Fds, HangUp(f) PROVE ClientInOrder(c)'
  BY <1>1, <1>3, <1>p DEF HangUp, CloseFd, HangUpOn
<1>4. ASSUME EpollWait \/ AcceptFails \/ AcceptAdd \/ Push PROVE ClientInOrder(c)'
  BY <1>1, <1>4 DEF EpollWait, AcceptFails, AcceptAdd, AcceptAs, Push, clientVars
<1>5. ASSUME NEW q \in Senders,
             TakeRequest(q) \/ WaitForRequest(q) \/ SpuriousWakeup(q) \/ BuildReply(q)
               \/ SendFails(q) \/ SendKills(q)
      PROVE  ClientInOrder(c)'
  BY <1>1, <1>5 DEF TakeRequest, WaitForRequest, SpuriousWakeup, BuildReply, SendFails, SendKills,
     clientVars
<1>m. ASSUME NEW f \in Fds, MarkSlot(f) PROVE ClientInOrder(c)'
  BY <1>1, <1>m DEF MarkSlot, clientVars
<1>6. ASSUME NEW f \in Fds, Recv(f) PROVE ClientInOrder(c)'
  <2>1. PICK k \in 1 .. MaxLines : TakeLines(fdConn[f], k)
    BY <1>6 DEF Recv, RecvFrom
  <2>2. /\ k \in 1 .. (sent[fdConn[f]] - read[fdConn[f]])
        /\ read' = [read EXCEPT ![fdConn[f]] = @ + k]
        /\ UNCHANGED <<phase, sent, out, got>>
    BY <1>6, <2>1 DEF TakeLines, Recv, RecvFrom
  <2>3. read[c] <= read'[c] /\ read'[c] <= sent[c]
    <3>1. read[c] \in Nat /\ sent[c] \in Nat /\ DOMAIN read = Conns
      BY ClientAssumption DEF TypeOK
    <3>2. read[c] <= sent[c]
      BY <1>0
    <3>3. CASE c = fdConn[f]
      BY <2>2, <3>1, <3>3
    <3>4. CASE c # fdConn[f]
      BY <2>2, <3>1, <3>2, <3>4
    <3> QED  BY <3>3, <3>4
  <2> QED  BY <2>2, <2>3, InOrderKept
<1>7. ASSUME NEW q \in Senders, SendReply(q) PROVE ClientInOrder(c)'
  <2> DEFINE d == data[q][ti[q]]
  <2>1. Awaits(q, d)
    BY <1>7, ReplyAwaits DEF SendReply, AtSend, Busy
  <2>2. /\ UNCHANGED <<phase, sent, read, got>> /\ Deliver(fdConn[d.acc], d.line)
    BY <1>7 DEF SendReply, SendTo, ReplyFd
  <2>3. d.line \in Replies
    BY <1>7 DEF TypeOK
  <2>4. CASE out'[c] = out[c]
    BY <1>0, <2>2, <2>4, InOrderKept
  <2>5. CASE c = fdConn[d.acc] /\ out'[c] = Append(out[c], d.line)
    <3>0. PICK r \in Replies : r = d.line /\ out'[c] = Append(out[c], r)
      BY <2>3, <2>5
    <3>1. /\ r.conn = c /\ r.n \in 1 .. read[c] /\ Answered(c) < r.n
          /\ \A k \in DOMAIN out[c] : out[c][k].n < r.n
      BY <2>1, <2>5, <3>0 DEF Awaits, Unanswered
    <3>a. /\ \A k \in DOMAIN out[c] : k \in Nat /\ k < Len(out[c]) + 1
          /\ \A k \in DOMAIN out'[c] : \/ k \in DOMAIN out[c] /\ out'[c][k] = out[c][k]
                                       \/ k = Len(out[c]) + 1 /\ out'[c][k] = r
      <4>1. PICK s \in Seq(Replies) : s = out[c]
        BY <1>0
      <4>2. /\ \A k \in DOMAIN s : k \in Nat /\ k < Len(s) + 1
            /\ \A k \in DOMAIN Append(s, r) : \/ k \in DOMAIN s /\ Append(s, r)[k] = s[k]
                                              \/ k = Len(s) + 1 /\ Append(s, r)[k] = r
        BY AppendFacts
      <4>3. out'[c] = Append(s, r)
        BY <3>0, <4>1
      <4> QED  BY <4>1, <4>2, <4>3
    <3>2. Answered(c)' = Answered(c)
      BY <2>2 DEF Answered
    <3>3. \A k \in DOMAIN out'[c] : /\ out'[c][k].conn = c
                                    /\ Answered(c) < out'[c][k].n /\ out'[c][k].n <= read[c]
      <4>1. ASSUME NEW k \in DOMAIN out'[c]
            PROVE  /\ out'[c][k].conn = c
                   /\ Answered(c) < out'[c][k].n /\ out'[c][k].n <= read[c]
        <5>1. CASE k \in DOMAIN out[c] /\ out'[c][k] = out[c][k]
          BY <5>1 DEF ClientInOrder
        <5>2. CASE out'[c][k] = r
          BY <1>0, <3>1, <5>2
        <5> QED  BY <3>a, <4>1, <5>1, <5>2
      <4> QED  BY <4>1
    <3>4. \A j, k \in DOMAIN out'[c] : j < k => out'[c][j].n < out'[c][k].n
      <4>1. SUFFICES ASSUME NEW j \in DOMAIN out'[c], NEW k \in DOMAIN out'[c], j < k
                     PROVE  out'[c][j].n < out'[c][k].n
        OBVIOUS
      <4>2. /\ (j \in DOMAIN out[c] /\ out'[c][j] = out[c][j]) \/ j = Len(out[c]) + 1
            /\ (k \in DOMAIN out[c] /\ out'[c][k] = out[c][k]) \/ (k = Len(out[c]) + 1 /\ out'[c][k] = r)
        BY <3>a
      <4>3. j \in DOMAIN out[c] /\ out'[c][j] = out[c][j]
        <5>1. Len(out[c]) \in Nat /\ \A i \in DOMAIN out[c] : i \in Nat /\ i < Len(out[c]) + 1
          BY <1>0, <3>a, LenProperties
        <5> QED  BY <4>1, <4>2, <5>1
      <4> QED  BY <3>1, <4>1, <4>2, <4>3 DEF ClientInOrder
    <3> QED  BY <2>2, <3>2, <3>3, <3>4 DEF ClientInOrder
  <2>6. out'[c] = out[c] \/ (c = fdConn[d.acc] /\ out'[c] = Append(out[c], d.line))
    <3>1. out' = out \/ out' = [out EXCEPT ![fdConn[d.acc]] = Append(@, d.line)]
      BY <2>2 DEF Deliver
    <3> QED  BY <3>1 DEF TypeOK
  <2> QED  BY <2>4, <2>5, <2>6
<1>8. ASSUME NEW d \in Conns, Client(d) PROVE ClientInOrder(c)'
  <2>1. CASE Connect(d)
    BY <1>1, <2>1 DEF Connect, TypeOK
  <2>2. CASE SendLine(d)
    <3>1. UNCHANGED <<phase, read, out, got>> /\ Answered(c)' = Answered(c)
      BY <2>2 DEF SendLine, Answered
    <3>2. \/ sent'[c] = sent[c]
          \/ phase[c] = "up" /\ sent'[c] = sent[c] + 1 /\ sent[c] - Answered(c) < Window
      BY <2>2 DEF SendLine, TypeOK
    <3>3. sent'[c] - Answered(c) <= Window /\ read[c] <= sent'[c]
          /\ (phase[c] = "closed" => sent'[c] = Answered(c))
      BY <1>0, <3>2, ClientAssumption DEF ClientInOrder
    <3> QED  BY <3>1, <3>3 DEF ClientInOrder
  <2>3. CASE ReadReply(d)
    <3>1. CASE c # d
      <4>1. got'[c] = got[c] /\ out'[c] = out[c] /\ UNCHANGED <<phase, sent, read>>
        BY <2>3, <3>1 DEF ReadReply, TypeOK
      <4> QED  BY <1>0, <4>1, InOrderKept
    <3>2. CASE c = d
      <4> DEFINE r == out[c][1]
      <4>1. /\ phase[c] = "up" /\ out[c] # <<>> /\ UNCHANGED <<phase, sent, read>>
            /\ got'[c] = Append(got[c], Head(out[c])) /\ out'[c] = Tail(out[c])
        BY <2>3, <3>2 DEF ReadReply, TypeOK
      <4>2. /\ 1 \in DOMAIN out[c] /\ Head(out[c]) = r /\ r \in Replies
            /\ \A k \in DOMAIN out'[c] : k \in Nat \ {0} /\ k + 1 \in DOMAIN out[c] /\ out'[c][k] = out[c][k + 1]
        BY <1>0, <4>1, TailFacts
      <4>3. /\ r.conn = c /\ Answered(c) < r.n /\ r.n <= read[c] /\ r.n \in Int
        BY <4>2 DEF ClientInOrder, Replies
      <4>4. Answered(c)' = r.n
        BY <1>0, <4>1, <4>2, AppendFacts DEF Answered
      <4>5. \A k \in DOMAIN got'[c] : got'[c][k].conn = c
        BY <1>0, <4>1, <4>2, <4>3, AppendFacts DEF ClientInOrder
      <4>6. \A k \in DOMAIN out'[c] : /\ out'[c][k].conn = c
                                      /\ r.n < out'[c][k].n /\ out'[c][k].n <= read[c]
        <5>1. \A k \in DOMAIN out'[c] : 1 < k + 1
          BY <4>2
        <5> QED  BY <4>2, <5>1 DEF ClientInOrder
      <4>7. \A j, k \in DOMAIN out'[c] : j < k => out'[c][j].n < out'[c][k].n
        <5>1. \A j, k \in DOMAIN out'[c] : j < k => j + 1 < k + 1
          BY <4>2
        <5> QED  BY <4>2, <5>1 DEF ClientInOrder
      <4>8. sent[c] - r.n <= Window
        BY <1>0, <4>3, ClientAssumption DEF ClientInOrder
      <4> HIDE DEF r
      <4> QED  BY <1>0, <4>1, <4>3, <4>4, <4>5, <4>6, <4>7, <4>8 DEF ClientInOrder
    <3> QED  BY <3>1, <3>2
  <2>4. CASE CloseConn(d)
    <3>1. UNCHANGED <<sent, read, out, got>> /\ Answered(c)' = Answered(c)
      BY <2>4 DEF CloseConn, Answered
    <3>2. phase'[c] = "closed" => sent[c] = Answered(c)
      BY <2>4 DEF CloseConn, TypeOK, WindowFits, ClientInOrder
    <3> QED  BY <3>1, <3>2 DEF ClientInOrder
  <2> QED  BY <1>8, <2>1, <2>2, <2>3, <2>4 DEF Client
<1>9. CASE UNCHANGED vars
  BY <1>1, <1>9 DEF vars, clientVars
<1> QED
  BY <1>2, <1>3, <1>4, <1>5, <1>m, <1>6, <1>7, <1>8, <1>9 DEF Next, AcceptLoop, SendThread, ClientStep

\* Only a reply ends the waiting: no descriptor of a line that waits is closed, because
\* its client waits too.
LEMMA AwaitsStep ==
    ASSUME WindowFits, IInv, TypeOK', RingInv, [Next]_vars, ~\E q \in Senders : SendReply(q)
    PROVE  AwaitsStay
<1> TypeOK
  BY DEF IInv
<1>1. ASSUME \A f \in Fds : fdConn[f] # NoConn => fdConn'[f] = fdConn[f],
             \A c \in Conns : read[c] <= read'[c],
             \A c \in Conns : \A n \in 1 .. read[c] : Unanswered(c, n) => Unanswered(c, n)'
      PROVE  AwaitsStay
  <2>1. SUFFICES ASSUME NEW q \in Senders, NEW d, Awaits(q, d) PROVE Awaits(q, d)'
    BY DEF AwaitsStay
  <2>2. /\ d.acc \in Fds /\ d.line.conn \in Conns /\ fdConn[d.acc] # NoConn
        /\ d.line.n \in 1 .. read[d.line.conn] /\ Unanswered(d.line.conn, d.line.n)
    BY <2>1, ClientAssumption DEF Awaits
  <2> QED  BY <1>1, <2>1, <2>2, AwaitsKept
<1>r. \A c \in Conns : read[c] <= read[c]
  BY DEF TypeOK
<1>2. ASSUME UNCHANGED <<read, out, got>>,
             \A f \in Fds : fdConn[f] # NoConn => fdConn'[f] = fdConn[f]
      PROVE  AwaitsStay
  <2>1. \A c, n : Unanswered(c, n) => Unanswered(c, n)'
    BY <1>2 DEF Unanswered, Answered
  <2> QED  BY <1>1, <1>2, <1>r, <2>1
<1>3. ASSUME AcceptAdd PROVE AwaitsStay
  <2>1. PICK f \in FreeFds : fdConn' = [fdConn EXCEPT ![f] = Head(backlog)]
    BY <1>3 DEF AcceptAdd, AcceptAs
  <2>2. \A g \in Fds : fdConn[g] # NoConn => fdConn'[g] = fdConn[g]
    BY <2>1 DEF FreeFds, OpenFds, TypeOK
  <2> QED  BY <1>2, <1>3, <2>2 DEF AcceptAdd, AcceptAs
<1>m. ASSUME NEW f \in Fds, MarkSlot(f) PROVE AwaitsStay
  BY <1>2, <1>m DEF MarkSlot, clientVars
<1>4. ASSUME NEW f \in Fds, HangUp(f) PROVE AwaitsStay
  <2> DEFINE c == fdConn[f]
  <2>1. /\ c \in Conns /\ sent[c] = Answered(c) /\ read[c] <= sent[c]
    <3>1. c \in Conns
      BY <1>4, CurFacts DEF HangUp
    <3> QED  BY <1>4, <3>1 DEF HangUp, AtEnd, RingInv, ClientInOrder
  <2>2. SUFFICES ASSUME NEW q \in Senders, NEW d, Awaits(q, d) PROVE Awaits(q, d)'
    BY DEF AwaitsStay
  <2>3. /\ d.acc \in Fds /\ d.line.conn \in Conns /\ fdConn[d.acc] = d.line.conn
        /\ d.line.n \in 1 .. read[d.line.conn] /\ Answered(d.line.conn) < d.line.n
        /\ Unanswered(d.line.conn, d.line.n)
    BY <2>2 DEF Awaits, Unanswered
  <2>4. d.acc # f
    <3>1. SUFFICES ASSUME d.acc = f PROVE FALSE
      OBVIOUS
    <3>2. d.line.conn = c
      BY <2>3, <3>1
    <3>3. read[c] \in Int /\ Answered(c) \in Int /\ sent[c] \in Int
      BY <2>1, AnsweredIs DEF TypeOK
    <3>4. d.line.n \in Int /\ d.line.n <= read[c] /\ Answered(c) < d.line.n
      BY <2>3, <3>2, <3>3
    <3> QED  BY <2>1, <3>3, <3>4
  <2>5. fdConn'[d.acc] = fdConn[d.acc] /\ UNCHANGED <<read, out, got>>
    BY <1>4, <2>3, <2>4 DEF HangUp, CloseFd, TypeOK
  <2>6. Unanswered(d.line.conn, d.line.n)' /\ read[d.line.conn] <= read'[d.line.conn]
    BY <1>r, <2>3, <2>5 DEF Unanswered, Answered
  <2> QED  BY <2>2, <2>5, <2>6, AwaitsKept
<1>5. ASSUME NEW f \in Fds, Recv(f) PROVE AwaitsStay
  <2>1. PICK k \in 1 .. MaxLines : TakeLines(fdConn[f], k)
    BY <1>5 DEF Recv, RecvFrom
  <2>2. /\ k \in Nat /\ read' = [read EXCEPT ![fdConn[f]] = @ + k]
        /\ UNCHANGED <<out, got, fdConn>>
    <3>1. k \in Nat
      BY ClientAssumption
    <3> QED  BY <1>5, <2>1, <3>1 DEF TakeLines, Recv, RecvFrom
  <2>3. \A c \in Conns : read[c] <= read'[c]
    <3>1. \A c \in Conns : read[c] \in Nat /\ DOMAIN read = Conns
      BY ClientAssumption DEF TypeOK
    <3> QED  BY <2>2, <3>1
  <2>4. \A c, n : Unanswered(c, n) => Unanswered(c, n)'
    BY <2>2 DEF Unanswered, Answered
  <2> QED  BY <1>1, <2>2, <2>3, <2>4
<1>6. ASSUME NEW d \in Conns, ReadReply(d), UNCHANGED fdConn PROVE AwaitsStay
  <2>1. SUFFICES ASSUME NEW c \in Conns, NEW n \in 1 .. read[c], Unanswered(c, n)
                 PROVE  Unanswered(c, n)'
    BY <1>1, <1>6, <1>r DEF ReadReply
  <2>2. CASE c # d
    <3>1. got'[c] = got[c] /\ out'[c] = out[c]
      BY <1>6, <2>2 DEF ReadReply, TypeOK
    <3> QED  BY <2>1, <3>1 DEF Unanswered, Answered
  <2>3. CASE c = d
    <3>1. /\ out[c] # <<>> /\ out[c] \in Seq(Replies) /\ got[c] \in Seq(Replies)
          /\ got'[c] = Append(got[c], Head(out[c])) /\ out'[c] = Tail(out[c])
      BY <1>6, <2>3 DEF ReadReply, TypeOK
    <3>2. /\ 1 \in DOMAIN out[c] /\ Head(out[c]) = out[c][1] /\ Head(out[c]) \in Replies
          /\ \A k \in DOMAIN out'[c] : k + 1 \in DOMAIN out[c] /\ out'[c][k] = out[c][k + 1]
      BY <3>1, TailFacts
    <3>3. Answered(c)' = out[c][1].n
      BY <3>1, <3>2, AppendFacts DEF Answered
    <3> QED  BY <2>1, <3>2, <3>3 DEF Unanswered
  <2> QED  BY <2>2, <2>3
<1>7. ASSUME NEW d \in Conns, Connect(d) \/ SendLine(d) \/ CloseConn(d), UNCHANGED fdConn
      PROVE  AwaitsStay
  BY <1>2, <1>7 DEF Connect, SendLine, CloseConn
<1>8. ASSUME EpollWait \/ AcceptFails \/ AcceptFull \/ AcceptAddFails \/ Push PROVE AwaitsStay
  BY <1>2, <1>8 DEF EpollWait, AcceptFails, AcceptFull, AcceptAddFails, AcceptAndClose, Push, clientVars
<1>9. ASSUME NEW q \in Senders,
             TakeRequest(q) \/ WaitForRequest(q) \/ SpuriousWakeup(q) \/ BuildReply(q)
               \/ SendFails(q) \/ SendKills(q)
      PROVE  AwaitsStay
  BY <1>2, <1>9 DEF TakeRequest, WaitForRequest, SpuriousWakeup, BuildReply, SendFails, SendKills,
     clientVars, serverVars
<1>10. CASE UNCHANGED vars
  BY <1>2, <1>10 DEF vars, clientVars, serverVars
<1> QED
  BY <1>3, <1>m, <1>4, <1>5, <1>6, <1>7, <1>8, <1>9, <1>10
     DEF Next, AcceptLoop, SendThread, ClientStep, Client, serverVars

\* A step leaves a ring and its slots alone, but perhaps for the one at last.
RingLeft(q) ==
    /\ last'[q] = last[q] /\ Start(q)' = Start(q)
    /\ (Busy(q) => front[q] = QUEUE_NEXT(ti[q]) /\ ti[q] # last[q])'
    /\ \A i \in Slots : i # last[q] => SlotStays(q, i)
RingsLeft == \A q \in Senders : RingLeft(q)

LEMMA RingsLeftHold ==
    ASSUME IInv, RingInv, TypeOK', NEW q \in Senders, RingLeft(q),
           \A i \in Held(q) : Awaits(q, data[q][i])'
    PROVE  /\ RingHolds(q)'
           /\ \A i \in Held(q)' : i \in Held(q) /\ SlotStays(q, i)
<1>1. TypeOK /\ RingHolds(q)
  BY DEF IInv, RingInv
<1>2. /\ last'[q] = last[q] /\ Start(q)' = Start(q)
      /\ (Busy(q) => front[q] = QUEUE_NEXT(ti[q]) /\ ti[q] # last[q])'
      /\ \A i \in Slots : i # last[q] => SlotStays(q, i)
  BY DEF RingLeft
<1>3. /\ \A i \in Slots : Off(q, i)' = Off(q, i)
      /\ \A i \in Held(q)' : i \in Held(q)
  BY <1>2, RingStill
<1>4. \A i \in Held(q)' : i \in Slots /\ i # last[q]
  BY <1>1, <1>3, Offsets DEF Held
<1>5. \A i \in Held(q)' : Awaits(q, data[q][i])'
  BY <1>3
<1>6. \A i, j \in Held(q)' : (Off(q, i) < Off(q, j))' => Off(q, i) < Off(q, j)
  BY <1>3, <1>4
<1>7. \A i \in Held(q)' : i \in Held(q) /\ SlotStays(q, i)
  BY <1>2, <1>3, <1>4
<1> QED  BY <1>1, <1>2, <1>5, <1>6, <1>7, RingKept

\* The threads that do not send, and everyone else but accept_loop()'s Recv and Push.
LEMMA RingsStep ==
    ASSUME IInv, RingInv, TypeOK', [Next]_vars
    PROVE  \/ RingsLeft /\ UNCHANGED cur /\ pc' \in {pc, "killed"}
                 /\ \A q \in Senders : \A i \in Slots : SlotStays(q, i)
           \/ RingsLeft /\ pc' # "push"
           \/ \E f \in Fds : Recv(f) /\ RingsLeft
           \/ Push
           \/ \E q \in Senders : SendReply(q) \/ SendFails(q)
<1> TypeOK /\ \A q \in Senders : RingHolds(q)
  BY DEF IInv, RingInv
<1>0. \A q \in Senders : Busy(q) => front[q] = QUEUE_NEXT(ti[q]) /\ ti[q] # last[q]
  BY DEF RingHolds
<1>1. ASSUME UNCHANGED <<front, last, ti>>, \A q \in Senders : Busy(q)' <=> Busy(q),
             \A q \in Senders : \A i \in Slots : i # last[q] => SlotStays(q, i)
      PROVE  RingsLeft
  <2>1. \A q \in Senders : Start(q)' = Start(q)
    BY <1>1 DEF Start
  <2> QED  BY <1>0, <1>1, <2>1 DEF RingsLeft, RingLeft
<1>2. ASSUME UNCHANGED <<queueVars, threadVars>> PROVE RingsLeft
  BY <1>1, <1>2 DEF queueVars, threadVars, Busy, SlotStays
<1>3. ASSUME NEW f \in Fds, NEW d, data' = [data EXCEPT ![QueueOf(f)][last[QueueOf(f)]] = d],
             UNCHANGED <<front, last, threadVars>>
      PROVE  RingsLeft
  <2>1. \A q \in Senders : \A i \in Slots : i # last[q] => data'[q][i] = data[q][i]
    BY <1>3 DEF TypeOK
  <2> QED  BY <1>1, <1>3, <2>1 DEF threadVars, Busy, SlotStays
<1>w. ASSUME NEW f \in Fds, MarkSlot(f) \/ Recv(f) \/ HangUp(f) PROVE RingsLeft
  <2>1. PICK d : data' = [data EXCEPT ![QueueOf(f)][last[QueueOf(f)]] = d]
    BY <1>w, SlotWritten
  <2> QED  BY <1>3, <1>w, <2>1, SlotWritten DEF threadVars
<1>4. ASSUME NEW f \in Fds, Recv(f) PROVE RingsLeft
  BY <1>4, <1>w
<1>5. ASSUME NEW f \in Fds, MarkSlot(f) \/ HangUp(f) PROVE RingsLeft /\ pc' # "push"
  BY <1>5, <1>w DEF MarkSlot, HangUp, NextEvent
<1>6. ASSUME EpollWait \/ AcceptFails \/ AcceptFull \/ AcceptAdd \/ AcceptAddFails
      PROVE  RingsLeft /\ pc' # "push"
  <2>1. UNCHANGED <<queueVars, threadVars>> /\ pc' # "push"
    BY <1>6 DEF EpollWait, AcceptFails, AcceptFull, AcceptAdd, AcceptAddFails, NextEvent
  <2> QED  BY <1>2, <2>1
<1>7. ASSUME ClientStep \/ UNCHANGED vars \/ \E q \in Senders : SendKills(q)
      PROVE  /\ RingsLeft /\ UNCHANGED cur /\ pc' \in {pc, "killed"}
             /\ \A q \in Senders : \A i \in Slots : SlotStays(q, i)
  <2>1. UNCHANGED <<queueVars, threadVars, cur>> /\ pc' \in {pc, "killed"}
    BY <1>7 DEF ClientStep, vars, serverVars, SendKills
  <2> QED  BY <1>2, <2>1 DEF queueVars, SlotStays
<1>8. ASSUME NEW p \in Senders, WaitForRequest(p) \/ SpuriousWakeup(p) \/ BuildReply(p)
      PROVE  /\ RingsLeft /\ UNCHANGED cur /\ pc' = pc
             /\ \A q \in Senders : \A i \in Slots : SlotStays(q, i)
  <2>1. UNCHANGED <<front, last, ti, cur, pc>> /\ \A q \in Senders : Busy(q)' <=> Busy(q)
    BY <1>8 DEF WaitForRequest, SpuriousWakeup, BuildReply, queueVars, serverVars, Busy, TypeOK
  <2>2. ASSUME NEW q \in Senders, NEW i \in Slots PROVE SlotStays(q, i)
    <3>1. data[q][i] \in [acc : Fds \cup {0}, line : Replies]
      BY DEF TypeOK
    <3>2. data' = data \/ data' = [data EXCEPT ![p][ti[p]].line.ok = TRUE]
      BY <1>8 DEF WaitForRequest, SpuriousWakeup, BuildReply, queueVars
    <3>3. CASE data' = [data EXCEPT ![p][ti[p]].line.ok = TRUE]
      BY <3>1, <3>3 DEF TypeOK, Replies, SlotStays
    <3> QED  BY <3>2, <3>3 DEF SlotStays
  <2> QED  BY <1>1, <2>1, <2>2
<1>9. ASSUME NEW p \in Senders, TakeRequest(p)
      PROVE  /\ RingsLeft /\ UNCHANGED cur /\ pc' = pc
             /\ \A q \in Senders : \A i \in Slots : SlotStays(q, i)
  <2>1. /\ UNCHANGED <<last, data, cur, pc>> /\ last[p] # front[p] /\ ~Busy(p)
        /\ ti'[p] = front[p] /\ front'[p] = QUEUE_NEXT(front[p]) /\ Busy(p)'
        /\ \A q \in Senders \ {p} : ti'[q] = ti[q] /\ front'[q] = front[q] /\ tpc'[q] = tpc[q]
    BY <1>9 DEF TakeRequest, serverVars, Busy, TypeOK
  <2>2. \A q \in Senders : Start(q)' = Start(q)
    BY <2>1 DEF Start, Busy
  <2>3. \A q \in Senders : (Busy(q) => front[q] = QUEUE_NEXT(ti[q]) /\ ti[q] # last[q])'
    BY <1>0, <2>1 DEF Busy
  <2>4. \A q \in Senders : \A i \in Slots : SlotStays(q, i)
    BY <2>1 DEF SlotStays
  <2> QED  BY <2>1, <2>2, <2>3, <2>4 DEF RingsLeft, RingLeft
<1> QED
  BY <1>4, <1>5, <1>6, <1>7, <1>8, <1>9 DEF Next, AcceptLoop, SendThread

\* After a reply, or a failure to send it, what came later on its connection still waits.
LEMMA DoneAwaits ==
    ASSUME IInv, RingInv, TypeOK', NEW p \in Senders, SendReply(p) \/ SendFails(p),
           NEW q \in Senders, NEW d, Awaits(q, d),
           d.acc = data[p][ti[p]].acc => data[p][ti[p]].line.n < d.line.n
    PROVE  Awaits(q, d)'
<1> TypeOK
  BY DEF IInv
<1> DEFINE r == data[p][ti[p]]
<1>1. /\ r.acc \in Fds /\ r.line.conn = fdConn[r.acc] /\ fdConn[r.acc] \in Conns
      /\ r.line.n \in Int /\ r.line \in Replies
  <2>1. Awaits(p, r)
    BY ReplyAwaits DEF SendReply, SendFails, AtSend, Busy
  <2>2. r.line \in Replies
    BY DEF TypeOK
  <2> QED  BY <2>1, <2>2 DEF Awaits, Replies
<1>2. /\ d.acc \in Fds /\ d.line.conn \in Conns /\ fdConn[d.acc] = d.line.conn
      /\ d.line.n \in Int /\ Unanswered(d.line.conn, d.line.n)
  BY DEF Awaits
<1>3. UNCHANGED <<read, got, fdConn>>
  BY DEF SendReply, SendFails, SendTo, clientVars, serverVars
<1>4. read[d.line.conn] <= read'[d.line.conn]
  BY <1>2, <1>3 DEF TypeOK
<1>5. out'[d.line.conn] = out[d.line.conn]
        \/ (d.line.conn = fdConn[r.acc] /\ out'[d.line.conn] = Append(out[d.line.conn], r.line))
  <2>1. out' = out \/ out' = [out EXCEPT ![fdConn[r.acc]] = Append(@, r.line)]
    BY DEF SendReply, SendFails, SendTo, ReplyFd, Deliver, clientVars
  <2> QED  BY <1>1, <1>2, <2>1 DEF TypeOK
<1>6. Unanswered(d.line.conn, d.line.n)'
  <2>1. CASE out'[d.line.conn] = out[d.line.conn]
    BY <1>2, <1>3, <2>1 DEF Unanswered, Answered
  <2>2. CASE d.line.conn = fdConn[r.acc] /\ out'[d.line.conn] = Append(out[d.line.conn], r.line)
    <3>1. r.line.n < d.line.n
      <4>1. d.acc = r.acc
        BY <1>1, <1>2, <2>2, ClientAssumption DEF IInv, OnePlace
      <4> QED  BY <4>1
    <3>2. PICK s \in Seq(Replies), l \in Replies : s = out[d.line.conn] /\ l = r.line
      BY <1>1, <1>2 DEF TypeOK
    <3>3. \A k \in DOMAIN Append(s, l) : (k \in DOMAIN s /\ Append(s, l)[k] = s[k]) \/ Append(s, l)[k] = l
      BY AppendFacts
    <3>4. out'[d.line.conn] = Append(s, l)
      BY <2>2, <3>2
    <3>5. \A k \in DOMAIN out'[d.line.conn] : out'[d.line.conn][k].n < d.line.n
      BY <1>2, <3>1, <3>2, <3>3, <3>4 DEF Unanswered
    <3>6. Answered(d.line.conn)' < d.line.n
      BY <1>2, <1>3 DEF Unanswered, Answered
    <3> QED  BY <3>5, <3>6 DEF Unanswered
  <2> QED  BY <1>5, <2>1, <2>2
<1> QED  BY <1>2, <1>3, <1>4, <1>6, AwaitsKept

LEMMA RingInvStep ==
    ASSUME WindowFits, IInv, RingInv, [Next]_vars
    PROVE  RingInv'
<1> TypeOK /\ TypeOK' /\ NextToHold /\ \A q \in Senders : RingHolds(q)
  BY StepIInv DEF IInv, RingInv
<1>e. PICK e \in Senders : e = QueueOf(cur)
  BY FdsFacts DEF TypeOK
<1>0. e = QueueOf(cur) /\ e \in Senders /\ last[e] \in Slots
  BY <1>e DEF TypeOK
<1>c. \A c \in Conns : ClientInOrder(c)'
  BY InOrderStep
<1>1. ASSUME \A q \in Senders : RingHolds(q)', NextToHold' PROVE RingInv'
  BY <1>1, <1>c DEF RingInv
<1>2. ASSUME AwaitsStay, NEW q \in Senders, NEW i \in Slots, SlotStays(q, i), Awaits(q, data[q][i])
      PROVE  Awaits(q, data[q][i])'
  BY <1>2, SlotAwaits DEF AwaitsStay
<1>3. ASSUME AwaitsStay, NEW q \in Senders, RingLeft(q)
      PROVE  /\ RingHolds(q)'
             /\ \A i \in Held(q)' : i \in Held(q) /\ SlotStays(q, i)
  <2>1. ASSUME NEW i \in Held(q) PROVE Awaits(q, data[q][i])'
    <3>1. i \in Slots /\ i # last[q]
      BY Offsets DEF Held
    <3>2. SlotStays(q, i) /\ Awaits(q, data[q][i])
      BY <1>3, <3>1 DEF RingLeft, RingHolds
    <3> QED  BY <1>2, <1>3, <3>1, <3>2
  <2> QED  BY <1>3, <2>1, RingsLeftHold
<1>4. ASSUME AwaitsStay, RingsLeft PROVE \A q \in Senders : RingHolds(q)'
  BY <1>3, <1>4 DEF RingsLeft
<1>5. ASSUME AwaitsStay, RingsLeft, UNCHANGED cur, pc' \in {pc, "killed"},
             \A q \in Senders : \A i \in Slots : SlotStays(q, i)
      PROVE  RingInv'
  <2>1. pc' = "push" => Awaits(e, data[e][last[e]])'
    <3>1. pc' = "push" => Awaits(e, data[e][last[e]])
      BY <1>0, <1>5 DEF NextToHold
    <3>2. PICK w \in Slots : w = last[e] /\ w = last'[e]
      BY <1>0, <1>5 DEF RingsLeft, RingLeft
    <3>3. pc' = "push" => Awaits(e, data[e][w])'
      BY <1>0, <1>2, <1>5, <3>1, <3>2
    <3> QED  BY <3>2, <3>3 DEF Awaits, Unanswered
  <2>2. NextToHold'
    BY <1>0, <1>3, <1>5, <2>1, NextKept DEF RingsLeft, RingLeft
  <2> QED  BY <1>1, <1>4, <1>5, <2>2
<1>6. ASSUME AwaitsStay, RingsLeft, pc' # "push" PROVE RingInv'
  BY <1>1, <1>4, <1>6 DEF NextToHold
<1>7. ASSUME AwaitsStay, RingsLeft, NEW f \in Fds, Recv(f) PROVE RingInv'
  <2> DEFINE q == QueueOf(f)
  <2>c. PICK c \in Conns : c = fdConn[f]
    BY <1>7, CurFacts DEF Recv
  <2>n. PICK n \in Int : n = read[c] + 1
    BY DEF TypeOK
  <2>1. /\ c = fdConn[f] /\ n = read[c] + 1 /\ c \in Conns /\ q \in Senders /\ last[q] \in Slots
    BY <2>c, <2>n, FdsFacts DEF TypeOK
  <2>2. /\ data'[q][last[q]] = [acc |-> f, line |-> FirstLine(f)] /\ cur' = f
        /\ UNCHANGED <<out, got, fdConn, last>>
    <3>1. ~MarkSlot(f) /\ ~HangUp(f) /\ data[q][last[q]].acc = f
      BY <1>7 DEF MarkSlot, Recv, HangUp, NextEvent, IInv, SlotIsMarked
    <3>2. data' = [data EXCEPT ![q][last[q]] = [acc |-> f, line |-> FirstLine(f)]]
      BY <1>7, <3>1, SlotWritten
    <3>3. cur' = f /\ UNCHANGED <<out, got, fdConn, last>>
      BY <1>7 DEF Recv, RecvFrom
    <3> QED  BY <2>1, <3>2, <3>3 DEF TypeOK
  <2>3. read[c] \in Int /\ read'[c] >= n /\ read[c] >= 0 /\ read'[c] \in Int
    <3>1. PICK k \in 1 .. MaxLines : TakeLines(c, k)
      BY <1>7, <2>1 DEF Recv, RecvFrom
    <3>2. k \in Nat /\ k >= 1
      BY ClientAssumption
    <3> QED  BY <2>1, <3>1, <3>2 DEF TakeLines, TypeOK
  <2>4. /\ Answered(c) \in Int /\ Answered(c) < n
        /\ \A k \in DOMAIN out[c] : out[c][k].n < n
    <3>1. Answered(c) \in Int /\ Answered(c) <= read[c]
      BY <2>1, AnsweredIs DEF RingInv, ClientInOrder
    <3>2. ASSUME NEW k \in DOMAIN out[c] PROVE out[c][k].n < n
      <4>1. out[c] \in Seq(Replies)
        BY <2>1 DEF TypeOK
      <4>2. out[c][k] \in Replies
        BY <4>1, LenProperties
      <4>3. out[c][k].n \in Int
        BY <4>2 DEF Replies
      <4>4. out[c][k].n <= read[c]
        BY DEF RingInv, ClientInOrder
      <4> QED  BY <2>1, <2>3, <4>3, <4>4
    <3> QED  BY <2>1, <2>3, <3>1, <3>2
  <2>5. Unanswered(c, n)'
    BY <2>2, <2>4 DEF Unanswered, Answered
  <2>6. PICK d : d = [acc |-> f, line |-> FirstLine(f)] /\ d.acc = f /\ d.line.conn = c /\ d.line.n = n
    <3>1. FirstLine(f).conn = c /\ FirstLine(f).n = n
      BY <2>1 DEF FirstLine
    <3>2. PICK l : l = FirstLine(f) /\ l.conn = c /\ l.n = n
      BY <3>1
    <3>3. [acc |-> f, line |-> l].acc = f /\ [acc |-> f, line |-> l].line = l
      OBVIOUS
    <3> QED  BY <3>2, <3>3
  <2>7. Awaits(q, d)'
    <3>1. /\ d.acc \in Fds /\ QueueOf(d.acc) = q /\ d.line.conn \in Conns
          /\ fdConn'[d.acc] = d.line.conn
      BY <2>1, <2>2, <2>6
    <3>2. d.line.n \in 1 .. read'[d.line.conn]
      BY <2>1, <2>3, <2>6
    <3>3. Unanswered(d.line.conn, d.line.n)'
      BY <2>5, <2>6
    <3> QED  BY <3>1, <3>2, <3>3 DEF Awaits
  <2>8. ASSUME NEW i \in Held(q)', data'[q][i].acc = f PROVE data'[q][i].line.n < n
    <3>1. i \in Held(q) /\ SlotStays(q, i)
      BY <1>3, <1>7, <2>1 DEF RingsLeft
    <3>2. Awaits(q, data[q][i]) /\ data[q][i].acc = f
      BY <2>1, <2>8, <3>1 DEF RingHolds, SlotStays
    <3>3. data[q][i].line.n \in 1 .. read[c]
      BY <2>1, <3>2 DEF Awaits
    <3>4. data'[q][i].line.n \in 1 .. read[c]
      BY <3>1, <3>3 DEF SlotStays
    <3> QED  BY <2>1, <2>3, <3>4
  <2>9. NextToHold'
    <3>1. data'[q][last'[q]] = d
      BY <2>2, <2>6
    <3>2. Awaits(q, data[q][last[q]])'
      BY <2>7, <3>1 DEF Awaits, Unanswered
    <3> QED  BY <2>2, <2>6, <2>8, <3>1, <3>2 DEF NextToHold
  <2> QED  BY <1>1, <1>4, <1>7, <2>9
<1>8. ASSUME AwaitsStay, Push PROVE RingInv'
  <2>1. /\ pc = "push" /\ pc' # "push" /\ UNCHANGED <<front, data, ti>>
        /\ last'[e] = QUEUE_NEXT(last[e])
        /\ \A q \in Senders \ {e} : last'[q] = last[q]
        /\ \A q \in Senders : Busy(q)' <=> Busy(q)
    BY <1>0, <1>8 DEF Push, NextEvent, Signal, Busy, TypeOK
  <2>2. \A q \in Senders : Start(q)' = Start(q)
    BY <2>1 DEF Start
  <2>3. QUEUE_NEXT(last[e]) # Start(e)
    BY <2>1, <1>0, RoomLeft
  <2>4. ASSUME NEW q \in Senders \ {e} PROVE RingHolds(q)'
    <3>1. RingLeft(q)
      BY <2>1, <2>2 DEF RingLeft, RingHolds, SlotStays
    <3> QED  BY <1>3, <1>8, <3>1
  <2>5. RingHolds(e)'
    <3>1. /\ \A i \in Slots : Off(e, i)' = Off(e, i)
          /\ \A i \in Held(e)' : i \in Held(e) \/ i = last[e]
          /\ \A i \in Held(e) : Off(e, i) < Off(e, last[e])
      BY <1>0, <2>1, <2>2, <2>3, RingGrows
    <3>2. /\ Awaits(e, data[e][last[e]]) /\ data[e][last[e]].acc = cur
          /\ \A i \in Held(e) : data[e][i].acc = cur => data[e][i].line.n < data[e][last[e]].line.n
      BY <1>0, <2>1 DEF NextToHold
    <3>3. (Busy(e) => front[e] = QUEUE_NEXT(ti[e]) /\ ti[e] # last[e])'
      <4>1. Busy(e) => front[e] = QUEUE_NEXT(ti[e]) /\ Start(e) = ti[e]
        BY <1>0 DEF RingHolds, Start
      <4> QED  BY <1>0, <2>1, <2>3, <4>1
    <3>4. ASSUME NEW i \in Held(e)' PROVE Awaits(e, data[e][i])' /\ i \in Slots
      <4>1. Awaits(e, data[e][i]) /\ i \in Slots
        BY <1>0, <3>1, <3>2 DEF RingHolds, Held
      <4> QED  BY <1>0, <1>2, <1>8, <2>1, <4>1 DEF SlotStays
    <3>5. ASSUME NEW i \in Held(e)', NEW j \in Held(e)', Off(e, i) < Off(e, j),
                 data[e][i].acc = data[e][j].acc
          PROVE  data[e][i].line.n < data[e][j].line.n
      <4>1. /\ Off(e, i) \in Int /\ Off(e, j) \in Int /\ Off(e, last[e]) \in Int
        BY <1>0, <3>4, Offsets DEF Slots
      <4>2. CASE i \in Held(e) /\ j \in Held(e)
        BY <1>0, <3>5, <4>2 DEF RingHolds
      <4>3. CASE i \in Held(e) /\ j = last[e]
        BY <3>2, <3>5, <4>3
      <4>4. i # last[e]
        BY <3>1, <3>5, <4>1
      <4> QED  BY <3>1, <4>2, <4>3, <4>4
    <3>6. \A i, j \in Held(e)' :
              (Off(e, i) < Off(e, j))' /\ data'[e][i].acc = data'[e][j].acc
                  => data'[e][i].line.n < data'[e][j].line.n
      BY <2>1, <3>1, <3>4, <3>5
    <3> QED  BY <3>3, <3>4, <3>6 DEF RingHolds
  <2>6. NextToHold'
    BY <2>1 DEF NextToHold
  <2> QED  BY <1>1, <2>4, <2>5, <2>6
<1>9. ASSUME NEW p \in Senders, SendReply(p) \/ SendFails(p) PROVE RingInv'
  <2> DEFINE r == data[p][ti[p]]
  <2>1. /\ UNCHANGED <<front, last, data, ti, cur, pc>> /\ Busy(p) /\ ~Busy(p)'
        /\ \A q \in Senders \ {p} : tpc'[q] = tpc[q]
    BY <1>9 DEF SendReply, SendFails, AtSend, queueVars, serverVars, Busy, TypeOK
  <2>2. /\ \A i \in Held(p)' : i \in Held(p) /\ i # ti[p] /\ Off(p, i)' = Off(p, i) - 1
        /\ ti[p] \in Held(p)
        /\ \A i \in Slots \ {ti[p]} : Off(p, ti[p]) < Off(p, i)
    BY <2>1, RingShrinks
  <2>3. Awaits(p, r)
    BY <2>1, ReplyAwaits
  <2>4. ASSUME NEW q \in Senders, NEW i \in Slots, Awaits(q, data[q][i]),
               data[q][i].acc = r.acc => r.line.n < data[q][i].line.n
        PROVE  Awaits(q, data[q][i])'
    <3>1. PICK d : d = data[q][i]
      OBVIOUS
    <3>2. Awaits(q, d)'
      BY <1>9, <2>4, <3>1, DoneAwaits
    <3> QED  BY <2>1, <3>1, <3>2 DEF Awaits, Unanswered
  <2>5. RingHolds(p)'
    <3>1. (Busy(p) => front[p] = QUEUE_NEXT(ti[p]) /\ ti[p] # last[p])'
      BY <2>1
    <3>2. ASSUME NEW i \in Held(p)' PROVE Awaits(p, data[p][i])' /\ SlotStays(p, i)
      <4>1. i \in Held(p) /\ i \in Slots /\ i # ti[p] /\ Off(p, ti[p]) < Off(p, i)
        BY <2>2 DEF Held
      <4>2. Awaits(p, data[p][i])
        BY <4>1 DEF RingHolds
      <4>3. data[p][i].acc = r.acc => r.line.n < data[p][i].line.n
        BY <2>2, <4>1 DEF RingHolds
      <4> QED  BY <2>1, <2>4, <4>1, <4>2, <4>3 DEF SlotStays
    <3>3. \A i, j \in Held(p)' : (Off(p, i) < Off(p, j))' => Off(p, i) < Off(p, j)
      <4>1. \A i \in Held(p)' : Off(p, i) \in Int
        BY <2>2, Offsets DEF Held, Slots
      <4> QED  BY <2>2, <4>1
    <3> QED  BY <2>2, <3>1, <3>2, <3>3, RingKept
  <2>6. ASSUME NEW q \in Senders \ {p} PROVE RingHolds(q)' /\ \A i \in Held(q)' : i \in Held(q)
    <3>1. RingLeft(q)
      BY <2>1 DEF RingLeft, RingHolds, SlotStays, Start, Busy
    <3>2. ASSUME NEW i \in Held(q) PROVE Awaits(q, data[q][i])'
      <4>1. Awaits(q, data[q][i]) /\ i \in Slots
        BY DEF RingHolds, Held
      <4>2. data[q][i].acc # r.acc
        BY <2>3, <4>1 DEF Awaits
      <4> QED  BY <2>4, <4>1, <4>2
    <3> QED  BY <3>1, <3>2, RingsLeftHold
  <2>7. pc' = "push" => Awaits(e, data[e][last[e]])'
    <3>1. SUFFICES ASSUME pc = "push" PROVE Awaits(e, data[e][last[e]])'
      BY <2>1
    <3>2. /\ Awaits(e, data[e][last[e]]) /\ data[e][last[e]].acc = cur
          /\ \A i \in Held(e) : data[e][i].acc = cur => data[e][i].line.n < data[e][last[e]].line.n
      BY <1>0, <3>1 DEF NextToHold
    <3>3. r.acc = cur => p = e
      BY <1>0, <2>3 DEF Awaits
    <3>4. data[e][last[e]].acc = r.acc => r.line.n < data[e][last[e]].line.n
      BY <2>2, <3>2, <3>3
    <3>5. PICK w \in Slots : w = last[e] /\ w = last'[e]
      BY <1>0, <2>1
    <3>6. PICK d : d = data[e][w] /\ d = data'[e][w]
      BY <2>1
    <3>7. Awaits(e, d)'
      <4>1. Awaits(e, data[e][w])'
        BY <1>0, <2>4, <3>2, <3>4, <3>5
      <4> QED  BY <2>1, <3>6, <4>1 DEF Awaits, Unanswered
    <3> QED  BY <3>5, <3>6, <3>7 DEF Awaits, Unanswered
  <2>8. NextToHold'
    <3>1. \A i \in Held(e)' : i \in Held(e) /\ SlotStays(e, i)
      BY <1>0, <2>1, <2>2, <2>6 DEF SlotStays
    <3> QED  BY <1>0, <2>1, <2>7, <3>1, NextKept DEF SlotStays
  <2> QED  BY <1>1, <2>5, <2>6, <2>8
<1>10. CASE \E q \in Senders : SendReply(q)
  BY <1>9, <1>10
<1>11. CASE ~\E q \in Senders : SendReply(q)
  <2>1. AwaitsStay
    BY <1>11, AwaitsStep
  <2> QED  BY <1>5, <1>6, <1>7, <1>8, <1>9, <2>1, RingsStep
<1> QED  BY <1>10, <1>11

LEMMA InitRing ==
    ASSUME Init PROVE RingInv
<1>0. TypeOK
  BY InitIInv DEF IInv
<1>1. ASSUME NEW q \in Senders PROVE RingHolds(q)
  <2>1. /\ front[q] = 0 /\ last[q] = 0 /\ ~Busy(q) /\ last[q] \in Slots
    BY <1>0, <1>1 DEF Init, Busy, TypeOK
  <2>2. Start(q) = last[q]
    BY <2>1 DEF Start
  <2>3. Off(q, last[q]) = 0
    BY <1>0, <2>1, <2>2, Offsets, ServerAssumption DEF Slots
  <2>4. ASSUME NEW i \in Slots PROVE ~(Off(q, i) < Off(q, last[q]))
    <3>1. Off(q, i) \in Slots
      BY <1>0, Offsets
    <3> QED  BY <2>3, <3>1, ServerAssumption DEF Slots
  <2> QED  BY <2>1, <2>4 DEF RingHolds, Held
<1>2. ASSUME NEW c \in Conns PROVE ClientInOrder(c)
  <2>1. sent[c] = 0 /\ read[c] = 0 /\ out[c] = <<>> /\ got[c] = <<>> /\ phase[c] = "new"
    BY DEF Init, SocketInit, ClientInit
  <2>2. Answered(c) = 0 /\ DOMAIN out[c] = {} /\ DOMAIN got[c] = {}
    BY <2>1 DEF Answered
  <2> QED  BY <2>1, <2>2, ClientAssumption DEF ClientInOrder
<1>3. NextToHold
  BY DEF Init, NextToHold
<1> QED  BY <1>1, <1>2, <1>3 DEF RingInv

\* What a client has been sent: what it has read, then what it has not.
LEMMA SentIs ==
    ASSUME TypeOK, NEW c \in Conns
    PROVE  /\ Sent(c) \in Seq(Replies)
           /\ \A k \in DOMAIN Sent(c) : \/ \E j \in DOMAIN got[c] : Sent(c)[k] = got[c][j]
                                        \/ \E j \in DOMAIN out[c] : Sent(c)[k] = out[c][j]
           /\ LastReply(c) = IF out[c] = <<>> THEN Answered(c) ELSE out[c][Len(out[c])].n
           /\ out[c] # <<>> => Len(out[c]) \in DOMAIN out[c]
<1>0. PICK g \in Seq(Replies), o \in Seq(Replies) : g = got[c] /\ o = out[c]
  BY DEF TypeOK
<1>1. /\ DOMAIN g = 1 .. Len(g) /\ DOMAIN o = 1 .. Len(o)
      /\ Len(g) \in Nat /\ Len(o) \in Nat
  BY LenProperties
<1>2. /\ g \o o \in Seq(Replies) /\ Len(g \o o) = Len(g) + Len(o)
      /\ \A i \in 1 .. Len(g) + Len(o) : (g \o o)[i] = IF i <= Len(g) THEN g[i] ELSE o[i - Len(g)]
      /\ DOMAIN (g \o o) = 1 .. Len(g) + Len(o)
  BY ConcatProperties, LenProperties
<1>3. Sent(c) = g \o o
  BY <1>0 DEF Sent
<1>4. ASSUME NEW k \in DOMAIN (g \o o)
      PROVE  (\E j \in DOMAIN g : (g \o o)[k] = g[j]) \/ \E j \in DOMAIN o : (g \o o)[k] = o[j]
  <2>1. CASE k <= Len(g)
    BY <1>1, <1>2, <2>1
  <2>2. CASE k > Len(g)
    <3>1. k - Len(g) \in 1 .. Len(o) /\ ~(k <= Len(g))
      BY <1>1, <1>2, <2>2
    <3>2. (g \o o)[k] = o[k - Len(g)]
      BY <1>2, <3>1
    <3> QED  BY <1>1, <3>1, <3>2
  <2> QED  BY <1>1, <1>2, <2>1, <2>2
<1>5. o # <<>> => Len(o) >= 1
  BY <1>1, EmptySeq
<1>6. g = <<>> <=> Len(g) = 0
  BY <1>1, EmptySeq
<1>7. LastReply(c) = IF o = <<>> THEN Answered(c) ELSE o[Len(o)].n
  <2>1. CASE o = <<>>
    <3>1. g \o o = g
      BY <1>1, <1>2, <2>1, EmptySeq, ConcatEmptySeq
    <3> QED  BY <1>0, <1>3, <2>1, <3>1 DEF LastReply, Answered
  <2>2. CASE o # <<>>
    <3>1. Len(g) + Len(o) \in 1 .. Len(g) + Len(o) /\ ~(Len(g) + Len(o) <= Len(g))
          /\ Len(g) + Len(o) - Len(g) = Len(o)
      BY <1>1, <1>5, <2>2
    <3>2. (g \o o)[Len(g \o o)] = o[Len(o)]
      BY <1>2, <3>1
    <3>3. g \o o # <<>>
      BY <1>2, <3>1, EmptySeq
    <3> QED  BY <1>3, <2>2, <3>2, <3>3 DEF LastReply
  <2> QED  BY <2>1, <2>2
<1>8. ASSUME NEW k \in DOMAIN Sent(c)
      PROVE  \/ \E j \in DOMAIN got[c] : Sent(c)[k] = got[c][j]
             \/ \E j \in DOMAIN out[c] : Sent(c)[k] = out[c][j]
  <2>1. k \in DOMAIN (g \o o) /\ Sent(c)[k] = (g \o o)[k]
    BY <1>3
  <2>2. (\E j \in DOMAIN g : Sent(c)[k] = g[j]) \/ \E j \in DOMAIN o : Sent(c)[k] = o[j]
    <3>1. PICK r : r = (g \o o)[k]
      OBVIOUS
    <3>2. (\E j \in DOMAIN g : r = g[j]) \/ \E j \in DOMAIN o : r = o[j]
      BY <1>4, <2>1, <3>1
    <3> QED  BY <2>1, <3>1, <3>2
  <2> QED  BY <1>0, <2>2
<1>9. Sent(c) \in Seq(Replies)
  BY <1>2, <1>3
<1>10. o # <<>> => Len(o) \in DOMAIN o
  BY <1>1, <1>5
<1> QED  BY <1>0, <1>7, <1>8, <1>9, <1>10, Zenon

---------------------------------------------------------------------------
(* The echo service                                                        *)

\* A client that waits to be accepted has been sent nothing, and a reply that is about
\* to be sent has its ":OK".
Unserved ==
    \A c \in Conns : phase[c] = "new" \/ (\E i \in DOMAIN backlog : backlog[i] = c)
        => out[c] = <<>> /\ got[c] = <<>>
Built == \A q \in Senders : tpc[q] = "send" => data[q][ti[q]].line.ok
ServedInv == Unserved /\ Built

LEMMA BuiltStep ==
    ASSUME IInv, RingInv, Built, [Next]_vars PROVE Built'
<1> TypeOK /\ \A q \in Senders : Busy(q) => ti[q] # last[q]
  BY DEF IInv, RingInv, RingHolds
<1>1. ASSUME UNCHANGED <<data, ti>>, \A q \in Senders : tpc'[q] = "send" => tpc[q] = "send"
      PROVE  Built'
  BY <1>1 DEF Built
<1>2. ASSUME NEW f \in Fds, MarkSlot(f) \/ Recv(f) \/ HangUp(f) PROVE Built'
  <2>1. /\ UNCHANGED <<ti, tpc>>
        /\ \A q \in Senders : \A i \in Slots : i # last[q] => data'[q][i] = data[q][i]
    <3>1. PICK q \in Senders : q = QueueOf(f)
      BY FdsFacts
    <3>2. \E d : data' = [data EXCEPT ![q][last[q]] = d]
      BY <1>2, <3>1, SlotWritten
    <3>3. UNCHANGED <<ti, tpc>>
      BY <1>2, SlotWritten
    <3> QED  BY <3>2, <3>3 DEF TypeOK
  <2>2. ASSUME NEW q \in Senders, tpc[q] = "send" PROVE data'[q][ti[q]] = data[q][ti[q]]
    BY <2>1, <2>2 DEF Busy, TypeOK
  <2> QED  BY <2>1, <2>2 DEF Built
<1>3. ASSUME NEW p \in Senders, BuildReply(p) PROVE Built'
  <2>1. /\ UNCHANGED ti /\ ti[p] \in Slots
        /\ \A q \in Senders \ {p} : tpc'[q] = tpc[q] /\ data'[q] = data[q]
        /\ data'[p][ti[p]].line.ok = TRUE
    BY <1>3 DEF BuildReply, TypeOK
  <2> QED  BY <2>1 DEF Built
<1>4. ASSUME NEW p \in Senders, TakeRequest(p) PROVE Built'
  <2>1. /\ UNCHANGED data /\ tpc'[p] = "reply"
        /\ \A q \in Senders \ {p} : tpc'[q] = tpc[q] /\ ti'[q] = ti[q]
    BY <1>4 DEF TakeRequest, TypeOK
  <2> QED  BY <2>1 DEF Built
<1>5. ASSUME NEW p \in Senders,
             WaitForRequest(p) \/ SpuriousWakeup(p) \/ SendReply(p) \/ SendFails(p) \/ SendKills(p)
      PROVE  Built'
  BY <1>1, <1>5 DEF WaitForRequest, SpuriousWakeup, SendReply, SendFails, SendKills, queueVars,
     threadVars, TypeOK
<1>6. ASSUME Push PROVE Built'
  BY <1>1, <1>6 DEF Push, Signal, TypeOK
<1>7. ASSUME EpollWait \/ AcceptFails \/ AcceptFull \/ AcceptAdd \/ AcceptAddFails PROVE Built'
  BY <1>1, <1>7 DEF EpollWait, AcceptFails, AcceptFull, AcceptAdd, AcceptAddFails, queueVars, threadVars
<1>8. CASE ClientStep \/ UNCHANGED vars
  BY <1>1, <1>8 DEF ClientStep, vars, queueVars, threadVars
<1> QED
  BY <1>2, <1>3, <1>4, <1>5, <1>6, <1>7, <1>8 DEF Next, AcceptLoop, SendThread

\* What send() does to the streams of replies.
LEMMA SendingTo ==
    ASSUME IInv, RingInv, NEW q \in Senders, SendReply(q)
    PROVE  LET c == fdConn[data[q][ti[q]].acc]
               line == data[q][ti[q]].line IN
           /\ c \in Conns /\ line.conn = c /\ line.n \in 1 .. read[c] /\ Unanswered(c, line.n)
           /\ line \in Replies /\ tpc[q] = "send"
           /\ UNCHANGED <<phase, sent, read, got, backlog, fdConn>>
           /\ \/ phase[c] = "up" /\ out' = [out EXCEPT ![c] = Append(@, line)]
              \/ UNCHANGED out
           /\ \A i \in DOMAIN backlog : backlog[i] # c
           /\ phase[c] # "new"
<1> DEFINE d == data[q][ti[q]]
<1>1. Awaits(q, d) /\ tpc[q] = "send" /\ TypeOK /\ OnePlace
  BY ReplyAwaits DEF SendReply, AtSend, Busy, IInv
<1>2. d.line \in Replies
  BY <1>1 DEF TypeOK
<1>3. /\ d.acc \in Fds /\ fdConn[d.acc] \in Conns /\ d.line.conn = fdConn[d.acc]
      /\ d.line.n \in 1 .. read[fdConn[d.acc]] /\ Unanswered(fdConn[d.acc], d.line.n)
  BY <1>1 DEF Awaits
<1>4. /\ UNCHANGED <<phase, sent, read, got, backlog, fdConn>>
      /\ \/ phase[fdConn[d.acc]] = "up" /\ out' = [out EXCEPT ![fdConn[d.acc]] = Append(@, d.line)]
         \/ UNCHANGED out
  BY DEF SendReply, SendTo, ReplyFd, Deliver
<1>5. /\ \A i \in DOMAIN backlog : backlog[i] # fdConn[d.acc]
      /\ phase[fdConn[d.acc]] # "new"
  BY <1>1, <1>3 DEF OnePlace
<1> QED  BY <1>1, <1>2, <1>3, <1>4, <1>5

LEMMA UnservedStep ==
    ASSUME IInv, RingInv, Unserved, [Next]_vars PROVE Unserved'
<1> TypeOK
  BY DEF IInv
<1>1. ASSUME UNCHANGED <<out, got>>, \A c \in Conns : phase'[c] = "new" => phase[c] = "new",
             \A i \in DOMAIN backlog' : \/ \E j \in DOMAIN backlog : backlog'[i] = backlog[j]
                                        \/ phase[backlog'[i]] = "new"
      PROVE  Unserved'
  <2>1. SUFFICES ASSUME NEW c \in Conns,
                        phase'[c] = "new" \/ \E i \in DOMAIN backlog' : backlog'[i] = c
                 PROVE  out[c] = <<>> /\ got[c] = <<>>
    BY <1>1 DEF Unserved
  <2> QED  BY <1>1, <2>1 DEF Unserved
<1>2. ASSUME UNCHANGED <<out, got, backlog>>, \A c \in Conns : phase'[c] = "new" => phase[c] = "new"
      PROVE  Unserved'
  BY <1>2 DEF Unserved
<1>h. ASSUME NEW d, HangUpOn(d) PROVE \A c \in Conns : phase'[c] = "new" => phase[c] = "new"
  BY <1>h DEF HangUpOn, TypeOK
<1>3. ASSUME AcceptFull \/ AcceptAdd \/ AcceptAddFails PROVE Unserved'
  <2>1. /\ backlog # <<>> /\ backlog' = Tail(backlog) /\ UNCHANGED <<out, got>>
        /\ \A c \in Conns : phase'[c] = "new" => phase[c] = "new"
    BY <1>3, <1>h DEF AcceptFull, AcceptAdd, AcceptAddFails, AcceptAndClose, AcceptAs
  <2> QED  BY <1>1, <2>1, BacklogFacts
<1>4. ASSUME NEW f \in Fds, HangUp(f) PROVE Unserved'
  BY <1>2, <1>4, HangUpKeepsClients DEF clientVars
<1>5. ASSUME NEW f \in Fds, MarkSlot(f) \/ Recv(f) PROVE Unserved'
  BY <1>2, <1>5 DEF MarkSlot, Recv, RecvFrom, clientVars
<1>6. ASSUME EpollWait \/ AcceptFails \/ Push PROVE Unserved'
  BY <1>2, <1>6 DEF EpollWait, AcceptFails, Push, clientVars
<1>7. ASSUME NEW q \in Senders,
             TakeRequest(q) \/ WaitForRequest(q) \/ SpuriousWakeup(q) \/ BuildReply(q)
               \/ SendFails(q) \/ SendKills(q)
      PROVE  Unserved'
  BY <1>2, <1>7 DEF TakeRequest, WaitForRequest, SpuriousWakeup, BuildReply, SendFails, SendKills,
     clientVars
<1>8. ASSUME NEW q \in Senders, SendReply(q) PROVE Unserved'
  <2>1. PICK c \in Conns :
            /\ UNCHANGED <<phase, got, backlog>>
            /\ \A d \in Conns \ {c} : out'[d] = out[d]
            /\ phase[c] # "new" /\ \A i \in DOMAIN backlog : backlog[i] # c
    <3> DEFINE c == fdConn[data[q][ti[q]].acc]
               line == data[q][ti[q]].line
    <3>1. /\ c \in Conns /\ UNCHANGED <<phase, got, backlog>>
          /\ phase[c] # "new" /\ \A i \in DOMAIN backlog : backlog[i] # c
          /\ out' = [out EXCEPT ![c] = Append(@, line)] \/ UNCHANGED out
      BY <1>8, SendingTo
    <3>2. DOMAIN out = Conns
      BY DEF TypeOK
    <3> HIDE DEF c, line
    <3>3. \A d \in Conns \ {c} : out'[d] = out[d]
      BY <3>1, <3>2
    <3> QED  BY <3>1, <3>3
  <2> QED  BY <2>1 DEF Unserved
<1>9. ASSUME NEW c \in Conns, Client(c) PROVE Unserved'
  <2>1. CASE Connect(c)
    <3>1. /\ phase[c] = "new" /\ phase' = [phase EXCEPT ![c] = "up"] /\ UNCHANGED <<out, got>>
          /\ backlog \in Seq(Conns) /\ backlog' = Append(backlog, c)
      BY <2>1 DEF Connect, TypeOK
    <3>2. \A i \in DOMAIN backlog' : (i \in DOMAIN backlog /\ backlog'[i] = backlog[i]) \/ backlog'[i] = c
      <4>1. /\ Len(backlog') = Len(backlog) + 1 /\ backlog' \in Seq(Conns)
            /\ \A i \in 1 .. Len(backlog) : backlog'[i] = backlog[i]
            /\ backlog'[Len(backlog) + 1] = c
        BY <3>1, AppendProperties
      <4>2. DOMAIN backlog = 1 .. Len(backlog) /\ DOMAIN backlog' = 1 .. Len(backlog') /\ Len(backlog) \in Nat
        BY <3>1, <4>1, LenProperties
      <4> QED  BY <4>1, <4>2
    <3>3. \A d \in Conns : phase'[d] = "new" => phase[d] = "new"
      BY <3>1 DEF TypeOK
    <3>4. \A i \in DOMAIN backlog' : \/ \E j \in DOMAIN backlog : backlog'[i] = backlog[j]
                                     \/ phase[backlog'[i]] = "new"
      BY <3>1, <3>2
    <3> QED  BY <1>1, <3>1, <3>3, <3>4
  <2>2. CASE SendLine(c) \/ CloseConn(c)
    BY <1>2, <2>2 DEF SendLine, CloseConn, TypeOK
  <2>3. CASE ReadReply(c)
    <3>1. /\ UNCHANGED <<phase, backlog>> /\ out[c] # <<>>
          /\ \A d \in Conns \ {c} : out'[d] = out[d] /\ got'[d] = got[d]
      BY <2>3 DEF ReadReply, TypeOK
    <3> QED  BY <3>1 DEF Unserved
  <2> QED  BY <1>9, <2>1, <2>2, <2>3 DEF Client
<1>10. CASE UNCHANGED vars
  BY <1>2, <1>10 DEF vars, clientVars
<1> QED
  BY <1>3, <1>4, <1>5, <1>6, <1>7, <1>8, <1>9, <1>10 DEF Next, AcceptLoop, SendThread, ClientStep

\* A step that leaves the lines, the answers and the connections as they are.
LEMMA StutterStep ==
    ASSUME UNCHANGED <<phase, sent>>, \A c \in Conns : Sent(c)' = Sent(c)
    PROVE  UNCHANGED Service!evars
<1>1. [c \in Conns |-> Sent(c)]' = [c \in Conns |-> Sent(c)]
  OBVIOUS
<1> QED  BY <1>1 DEF Service!evars

LEMMA SentStays == ASSUME UNCHANGED <<out, got>> PROVE \A c \in Conns : Sent(c)' = Sent(c)
  BY DEF Sent

\* What a client reads was sent to it before.
LEMMA SentRead ==
    ASSUME TypeOK, NEW c \in Conns, ReadReply(c)
    PROVE  \A d \in Conns : Sent(d)' = Sent(d)
<1>1. PICK g \in Seq(Replies), o \in Seq(Replies), h \in Replies, t \in Seq(Replies) :
          /\ g = got[c] /\ o = out[c] /\ h = Head(o) /\ t = Tail(o)
          /\ o # <<>> /\ got'[c] = Append(g, h) /\ out'[c] = t
  <2>1. PICK g \in Seq(Replies), o \in Seq(Replies) : g = got[c] /\ o = out[c]
    BY DEF TypeOK
  <2>2. /\ o # <<>> /\ got'[c] = Append(g, Head(o)) /\ out'[c] = Tail(o)
    BY <2>1 DEF ReadReply, TypeOK
  <2>3. Head(o) \in Replies /\ Tail(o) \in Seq(Replies)
    BY <2>2, HeadTailProperties
  <2> QED  BY <2>1, <2>2, <2>3
<1>2. o = <<h>> \o t /\ <<h>> \in Seq(Replies)
  BY <1>1
<1>3. Append(g, h) \o t = g \o o
  <2>1. Append(g, h) = g \o <<h>>
    BY AppendIsConcat
  <2>2. (g \o <<h>>) \o t = g \o (<<h>> \o t)
    BY <1>2, ConcatAssociative
  <2> QED  BY <1>2, <2>1, <2>2
<1>4. Sent(c)' = Sent(c)
  BY <1>1, <1>3 DEF Sent
<1>5. ASSUME NEW d \in Conns, d # c PROVE Sent(d)' = Sent(d)
  <2>1. got'[d] = got[d] /\ out'[d] = out[d]
    BY <1>5 DEF ReadReply, TypeOK
  <2> QED  BY <2>1 DEF Sent
<1> QED  BY <1>4, <1>5

\* What is sent is the last that was sent.
LEMMA SentAppend ==
    ASSUME TypeOK, NEW c \in Conns, NEW l \in Replies,
           out' = [out EXCEPT ![c] = Append(@, l)], UNCHANGED got
    PROVE  /\ Sent(c)' = Append(Sent(c), l)
           /\ \A d \in Conns : d # c => Sent(d)' = Sent(d)
<1>1. PICK g \in Seq(Replies), o \in Seq(Replies) :
          g = got[c] /\ o = out[c] /\ got'[c] = g /\ out'[c] = Append(o, l)
  BY DEF TypeOK
<1>2. <<l>> \in Seq(Replies) /\ g \o o \in Seq(Replies)
  BY ConcatProperties
<1>3. g \o Append(o, l) = Append(g \o o, l)
  <2>1. Append(o, l) = o \o <<l>> /\ Append(g \o o, l) = (g \o o) \o <<l>>
    BY <1>2, AppendIsConcat
  <2>2. g \o (o \o <<l>>) = (g \o o) \o <<l>>
    BY <1>2, ConcatAssociative
  <2> QED  BY <2>1, <2>2
<1>4. Sent(c)' = Append(Sent(c), l)
  BY <1>1, <1>3 DEF Sent
<1>5. ASSUME NEW d \in Conns, d # c PROVE Sent(d)' = Sent(d)
  <2>1. got'[d] = got[d] /\ out'[d] = out[d]
    BY <1>5 DEF TypeOK
  <2> QED  BY <2>1 DEF Sent
<1> QED  BY <1>4, <1>5

\* What a client does is what a client of the service does.
LEMMA ClientIsClient ==
    ASSUME TypeOK, NEW c \in Conns, Client(c)
    PROVE  Service!Open(c) \/ Service!Ask(c) \/ Service!Leave(c) \/ UNCHANGED Service!evars
<1>1. CASE ReadReply(c)
  <2>1. \A d \in Conns : Sent(d)' = Sent(d)
    BY <1>1, SentRead
  <2> QED  BY <1>1, <2>1, StutterStep DEF ReadReply
<1>2. CASE Connect(c) \/ SendLine(c) \/ CloseConn(c)
  <2>1. UNCHANGED <<out, got>>
    BY <1>2 DEF Connect, SendLine, CloseConn
  <2>2. [d \in Conns |-> Sent(d)]' = [d \in Conns |-> Sent(d)]
    BY <2>1 DEF Sent
  <2> QED  BY <1>2, <2>2 DEF Connect, SendLine, CloseConn, Service!Open, Service!Ask, Service!Leave
<1> QED  BY <1>1, <1>2 DEF Client

\* What send() puts into a connection is an answer of the service.
LEMMA AnswerStep ==
    ASSUME IInv, RingInv, Built, NEW q \in Senders, SendReply(q)
    PROVE  \E c \in Conns : Service!Answer(c) \/ UNCHANGED Service!evars
<1>1. TypeOK
  BY DEF IInv
<1>2. PICK c \in Conns, l \in Replies :
          /\ l.conn = c /\ l.n \in 1 .. read[c] /\ Unanswered(c, l.n) /\ l.ok
          /\ UNCHANGED <<phase, sent, got>>
          /\ \/ phase[c] = "up" /\ out' = [out EXCEPT ![c] = Append(@, l)]
             \/ UNCHANGED out
  <2>1. data[q][ti[q]].line.ok
    BY SendingTo DEF Built
  <2> QED  BY <2>1, SendingTo
<1>3. CASE UNCHANGED out
  BY <1>2, <1>3, SentStays, StutterStep
<1>4. CASE phase[c] = "up" /\ out' = [out EXCEPT ![c] = Append(@, l)]
  <2>1. Sent(c)' = Append(Sent(c), l) /\ \A d \in Conns : d # c => Sent(d)' = Sent(d)
    BY <1>1, <1>2, <1>4, SentAppend
  <2>2. LastReply(c) < l.n
    BY <1>1, <1>2, SentIs DEF Unanswered
  <2>3. LastReply(c) \in Int
    <3>1. CASE out[c] = <<>>
      BY <1>1, <3>1, SentIs, AnsweredIs
    <3>2. CASE out[c] # <<>>
      <4>1. out[c] \in Seq(Replies)
        BY <1>1 DEF TypeOK
      <4>2. out[c][Len(out[c])] \in Replies
        BY <1>1, <3>2, <4>1, SentIs, LenProperties
      <4> QED  BY <1>1, <3>2, <4>2, SentIs DEF Replies
    <3> QED  BY <3>1, <3>2
  <2>4. read[c] \in Int /\ sent[c] \in Int /\ read[c] <= sent[c]
    BY <1>1 DEF TypeOK, RingInv, ClientInOrder
  <2> DEFINE n == l.n
             answers == [d \in Conns |-> Sent(d)]
  <2>5. n \in (LastReply(c) + 1) .. sent[c]
    BY <1>2, <2>2, <2>3, <2>4
  <2>6. answers[c] = Sent(c) /\ Service!LastAnswered(c) = LastReply(c)
    BY <1>2 DEF Service!LastAnswered, LastReply
  <2>7. l = Service!Echo(c, n)
    BY <1>2 DEF Service!Echo, Replies
  <2>8. answers' = [answers EXCEPT ![c] = Append(@, Service!Echo(c, n))]
    BY <2>1, <2>7
  <2> QED  BY <1>2, <1>4, <2>5, <2>6, <2>8 DEF Service!Answer
<1> QED  BY <1>2, <1>3, <1>4

LEMMA InitServed ==
    ASSUME Init PROVE ServedInv /\ Service!EInit
<1>1. /\ phase = [c \in Conns |-> "new"] /\ sent = [c \in Conns |-> 0]
      /\ out = [c \in Conns |-> <<>>] /\ got = [c \in Conns |-> <<>>]
      /\ tpc = [q \in Senders |-> "lock"]
  BY DEF Init, SocketInit, ClientInit
<1>2. ASSUME NEW c \in Conns PROVE Sent(c) = <<>>
  BY <1>1 DEF Sent
<1>3. Service!EInit
  BY <1>1, <1>2 DEF Service!EInit
<1>4. ServedInv
  BY <1>1 DEF ServedInv, Unserved, Built
<1> QED  BY <1>3, <1>4

\* Every step is one of the service, or is not seen in it.
LEMMA ServiceStep ==
    ASSUME IInv, RingInv, ServedInv, [Next]_vars
    PROVE  Service!ENext \/ UNCHANGED Service!evars
<1> TypeOK
  BY DEF IInv
<1>1. ASSUME UNCHANGED <<phase, sent, out, got>> PROVE UNCHANGED Service!evars
  BY <1>1, SentStays, StutterStep
<1>2. ASSUME AcceptFull \/ AcceptAddFails PROVE Service!ENext \/ UNCHANGED Service!evars
  <2>1. backlog # <<>> /\ HangUpOn(Head(backlog)) /\ UNCHANGED <<sent, out, got>>
    BY <1>2 DEF AcceptFull, AcceptAddFails, AcceptAndClose
  <2>2. PICK c \in Conns : c = Head(backlog) /\ out[c] = <<>> /\ got[c] = <<>>
    BY <2>1, BacklogFacts DEF ServedInv, Unserved
  <2>3. phase' = [phase EXCEPT ![c] = IF @ = "up" THEN "hungup" ELSE @]
    BY <2>1, <2>2 DEF HangUpOn
  <2>4. Sent(c) = <<>>
    BY <2>2 DEF Sent
  <2>5. [d \in Conns |-> Sent(d)]' = [d \in Conns |-> Sent(d)]
    BY <2>1, SentStays
  <2>6. CASE phase[c] = "up"
    BY <2>1, <2>2, <2>3, <2>4, <2>5, <2>6 DEF Service!ENext, Service!TurnAway
  <2>7. CASE phase[c] # "up"
    <3>1. phase' = phase
      BY <2>3, <2>7 DEF TypeOK
    <3> QED  BY <1>1, <2>1, <3>1
  <2> QED  BY <2>6, <2>7
<1>3. ASSUME NEW q \in Senders, SendReply(q) PROVE Service!ENext \/ UNCHANGED Service!evars
  BY <1>3, AnswerStep DEF ServedInv, Service!ENext
<1>4. ASSUME NEW c \in Conns, Client(c) PROVE Service!ENext \/ UNCHANGED Service!evars
  BY <1>4, ClientIsClient DEF Service!ENext
<1>5. ASSUME NEW f \in Fds, MarkSlot(f) \/ Recv(f) \/ HangUp(f) PROVE UNCHANGED Service!evars
  BY <1>1, <1>5, HangUpKeepsClients DEF MarkSlot, Recv, RecvFrom, clientVars
<1>6. ASSUME NEW q \in Senders,
             TakeRequest(q) \/ WaitForRequest(q) \/ SpuriousWakeup(q) \/ BuildReply(q)
               \/ SendFails(q) \/ SendKills(q)
      PROVE  UNCHANGED Service!evars
  BY <1>1, <1>6 DEF TakeRequest, WaitForRequest, SpuriousWakeup, BuildReply, SendFails, SendKills,
     clientVars
<1>7. ASSUME EpollWait \/ AcceptFails \/ AcceptAdd \/ Push PROVE UNCHANGED Service!evars
  BY <1>1, <1>7 DEF EpollWait, AcceptFails, AcceptAdd, AcceptAs, Push, clientVars
<1>8. CASE UNCHANGED vars
  BY <1>1, <1>8 DEF vars, clientVars
<1> QED
  BY <1>2, <1>3, <1>4, <1>5, <1>6, <1>7, <1>8 DEF Next, AcceptLoop, SendThread, ClientStep

---------------------------------------------------------------------------
(* Theorems                                                                *)

\* The invariant holds in every reachable state of server9.c.
THEOREM InductiveInvariant == Spec => []IInv
  BY InitIInv, StepIInv, PTL DEF Spec

\* Every variable keeps its type; in particular the count of connections stays
\* below MAX_CHILD and the indices of a ring inside it.
THEOREM TypeCorrect == Spec => []TypeOK
<1>1. IInv => TypeOK
  BY DEF IInv
<1>2. QED
  BY InductiveInvariant, <1>1, PTL

\* accept_loop() counts the descriptors it holds open exactly, whatever clients do
\* and whichever calls fail.
THEOREM CountCorrect == Spec => []CountIsOpen
<1>1. IInv => CountIsOpen
  BY DEF IInv
<1>2. QED
  BY InductiveInvariant, <1>1, PTL

\* No event of a batch goes stale while the batch is worked off: EPOLL_CTL_DEL does
\* not fail, and recv() does not block.
THEOREM EventsCorrect == Spec => []EventsAreLive
<1>1. IInv => EventsAreLive
  BY DEF IInv
<1>2. QED
  BY InductiveInvariant, <1>1, PTL

\* No sending thread waits while its ring holds a request.
THEOREM WakeupCorrect == Spec => []NoLostWakeup
<1>1. IInv => NoLostWakeup
  BY DEF IInv
<1>2. QED
  BY InductiveInvariant, <1>1, PTL

\* A client receives the reply to another one's line only if that one has closed its
\* connection, as long as accept_loop() writes no slot that a sending thread is to send:
\* Spec is a safety property, so of a run that comes to share a slot the part before is
\* covered too.
THEOREM OwnersCorrect == Spec /\ []SlotNotShared => []CrossTalkOnlyFromLeavers
<1>1. Init => LinesKnowOwners
  <2>1. SUFFICES ASSUME Init PROVE LinesKnowOwners
    OBVIOUS
  <2>2. \A q \in Senders : \A i \in Slots : data[q][i].line.conn \notin Conns
    BY <2>1, ClientAssumption DEF Init, NoLine
  <2>3. \A c \in Conns : out[c] = <<>> /\ got[c] = <<>>
    BY <2>1 DEF Init, SocketInit, ClientInit
  <2>4. QED
    BY <2>2, <2>3, EmptySeq DEF LinesKnowOwners, SentToOwners, SlotKnowsOwner
<1>2. ASSUME IInv, LinesKnowOwners PROVE CrossTalkOnlyFromLeavers
  <2>1. SUFFICES ASSUME NEW c \in Conns, NEW k \in DOMAIN Sent(c)
                 PROVE  Sent(c)[k].conn \in {c, NoConn} \/ phase[Sent(c)[k].conn] = "closed"
    BY DEF CrossTalkOnlyFromLeavers
  <2>2. out[c] \in Seq(Replies) /\ got[c] \in Seq(Replies)
    BY <1>2 DEF IInv, TypeOK
  <2>3. /\ DOMAIN out[c] = 1 .. Len(out[c]) /\ DOMAIN got[c] = 1 .. Len(got[c])
        /\ Len(out[c]) \in Nat /\ Len(got[c]) \in Nat
    BY <2>2, LenProperties
  <2>4. \/ k \in DOMAIN got[c] /\ Sent(c)[k] = got[c][k] /\ Sent(c)[k] \in Replies
        \/ \E j \in DOMAIN out[c] : Sent(c)[k] = out[c][j] /\ Sent(c)[k] \in Replies
    <3>1. /\ got[c] \o out[c] \in Seq(Replies)
          /\ Len(got[c] \o out[c]) = Len(got[c]) + Len(out[c])
          /\ \A i \in 1 .. Len(got[c]) + Len(out[c]) :
                (got[c] \o out[c])[i] = IF i <= Len(got[c]) THEN got[c][i] ELSE out[c][i - Len(got[c])]
      BY <2>2, ConcatProperties
    <3>2. /\ Sent(c) = got[c] \o out[c]
          /\ k \in 1 .. Len(got[c]) + Len(out[c]) /\ Sent(c)[k] \in Replies
      BY <3>1, <2>1, LenProperties DEF Sent
    <3>3. Sent(c)[k] = IF k <= Len(got[c]) THEN got[c][k] ELSE out[c][k - Len(got[c])]
      BY <3>1, <3>2
    <3>4. CASE k > Len(got[c])
      <4>1. k - Len(got[c]) \in DOMAIN out[c] /\ Sent(c)[k] = out[c][k - Len(got[c])]
        <5>1. \A a, b \in Nat : \A x \in 1 .. a + b : x > a => x - a \in 1 .. b /\ ~(x <= a)
          OBVIOUS
        <5>2. k - Len(got[c]) \in 1 .. Len(out[c]) /\ ~(k <= Len(got[c]))
          BY <2>3, <3>2, <3>4, <5>1
        <5>3. QED
          BY <2>3, <3>3, <5>2
      <4>2. QED
        BY <3>2, <4>1
    <3>5. CASE k <= Len(got[c])
      BY <2>3, <3>2, <3>3, <3>5
    <3>6. QED
      BY <2>3, <3>2, <3>4, <3>5
  <2>5. MaySend(Sent(c)[k], c) /\ Sent(c)[k].conn \in Conns \cup {NoConn}
    BY <1>2, <2>4 DEF LinesKnowOwners, SentToOwners, Replies
  <2>6. QED
    BY <2>5 DEF MaySend
<1>3. Spec /\ []SlotNotShared => []LinesKnowOwners
  BY <1>1, InductiveInvariant, OwnersStep, PTL DEF Spec
<1>4. QED
  BY <1>2, <1>3, InductiveInvariant, PTL

\* Where the clients wait for their replies before they close and the rings have room
\* for all their lines, accept_loop() never writes into the slot a sending thread is
\* building its reply in.
THEOREM SlotCorrect ==
    ASSUME EarlyClosers = {}, (MAX_CHILD - 1) * Window < MAXQUEUESZ
    PROVE  Spec => []SlotNotShared
<1>1. ASSUME IInv, RingInv PROVE SlotNotShared
  <2>1. SUFFICES ASSUME NEW q \in Senders, Busy(q)
                 PROVE  ti[q] # last[q] /\ ti[q] \notin Queued(q)
    BY DEF SlotNotShared
  <2>2. /\ front[q] = QUEUE_NEXT(ti[q]) /\ ti[q] # last[q]
        /\ front[q] \in Slots /\ last[q] \in Slots /\ ti[q] \in Slots
    BY <1>1, <2>1 DEF RingInv, RingHolds, IInv, TypeOK
  <2>3. (ti[q] - front[q]) % MAXQUEUESZ = MAXQUEUESZ - 1
    BY <2>2, RingIndices, ServerAssumption DEF Slots
  <2>4. (last[q] - front[q]) % MAXQUEUESZ <= MAXQUEUESZ - 1 /\ (last[q] - front[q]) % MAXQUEUESZ \in Int
    BY <2>2, RingIndices, ServerAssumption DEF Slots
  <2> QED  BY <2>2, <2>3, <2>4, ServerAssumption DEF Queued
<1>2. IInv /\ RingInv /\ [Next]_vars => RingInv'
  BY RingInvStep DEF WindowFits
<1>3. Init => RingInv
  BY InitRing
<1> QED  BY <1>1, <1>2, <1>3, InductiveInvariant, PTL DEF Spec

\* Under the same conditions every client reads echoes of its own lines only.
THEOREM OwnerCorrect ==
    ASSUME EarlyClosers = {}, (MAX_CHILD - 1) * Window < MAXQUEUESZ
    PROVE  Spec => []RepliesToOwner
<1>1. ASSUME IInv, RingInv PROVE RepliesToOwner
  <2>1. SUFFICES ASSUME NEW c \in Conns, NEW k \in DOMAIN Sent(c) PROVE Sent(c)[k].conn = c
    BY DEF RepliesToOwner
  <2> QED  BY <1>1, SentIs DEF IInv, RingInv, ClientInOrder
<1>2. IInv /\ RingInv /\ [Next]_vars => RingInv'
  BY RingInvStep DEF WindowFits
<1>3. Init => RingInv
  BY InitRing
<1> QED  BY <1>1, <1>2, <1>3, InductiveInvariant, PTL DEF Spec

\* Under the same conditions server9.c implements the echo service, its rings and
\* sending threads notwithstanding: lines are answered to the client that sent them, at
\* most once, in the order of sending, and the server hangs up on nobody it has answered.
THEOREM ServiceCorrect ==
    ASSUME EarlyClosers = {}, (MAX_CHILD - 1) * Window < MAXQUEUESZ
    PROVE  Spec => EchoRefined
<1>1. Init => RingInv /\ ServedInv /\ Service!EInit
  BY InitRing, InitServed
<1>2. IInv /\ RingInv /\ ServedInv /\ [Next]_vars
          => RingInv' /\ ServedInv' /\ [Service!ENext]_Service!evars
  BY RingInvStep, UnservedStep, BuiltStep, ServiceStep DEF WindowFits, ServedInv
<1> QED  BY <1>1, <1>2, InductiveInvariant, PTL DEF Spec, EchoRefined, Service!ESpec
=============================================================================
