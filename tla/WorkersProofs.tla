--------------------------- MODULE WorkersProofs ---------------------------
(***************************************************************************)
(* Proofs about the servers MCWorkers puts side by side, for any number of *)
(* connections, of lines and of workers.                                   *)
(***************************************************************************)
EXTENDS MCWorkers, FiniteSetTheorems, SequenceTheorems, TLAPS

---------------------------------------------------------------------------
(* The invariants                                                          *)

ConvStates == {"none", "recv", "send", "ended", "lost"}
Counts == [Conns -> 0 .. MaxLines]
Streams == [Conns -> Seq(Replies)]

\* What all servers share keeps its types.
Types ==
    /\ which \in Servers
    /\ phase \in [Conns -> Phases]
    /\ sent \in Counts /\ read \in Counts /\ \A c \in Conns : read[c] <= sent[c]
    /\ out \in Streams /\ got \in Streams
    /\ conv \in [Conns -> ConvStates] /\ line \in [Conns -> Replies]
    /\ backlog \in Seq(Conns)

\* The lock of server7.c.
Prefork ==
    /\ serves \in [Workers -> Conns \cup {NoConn}] /\ owner \in Workers \cup {Nobody}
    /\ at \in [Workers -> {"lock", "accept", "unlock", "serve", "dead"}]
    /\ \A w \in Workers : serves[w] # NoConn <=> at[w] \in {"unlock", "serve"}
    /\ S7!LockIsForAccept

\* The lock of server8.c, and the mark, which is taken back before the lock is.
Prethread ==
    /\ serves \in [Workers -> Conns \cup {NoConn}] /\ owner \in Workers \cup {Nobody}
    /\ at \in [Workers -> {"lock", "mark", "accept", "unmark", "unlock", "serve", "killed"}]
    /\ g_lock_id \in Workers \cup {Nobody}
    /\ \A w \in Workers : at[w] = "serve" => serves[w] # NoConn
    /\ \A w \in Workers : at[w] = "unlock" => g_lock_id = Nobody
    /\ S8!LockIsForAccept /\ S8!MarkIsOwner

\* The places of a sequential server in which it has a connection.
Holding == {"serve", "shake", "shutdown"}

\* The sequential servers: the connection in acc is the only one in conversation, and
\* the sockets in the mask have connections, also while one is in conversation.
Sequentially ==
    /\ pc \in {"start", "setup", "select", "scan", "accept", "serve", "shake", "shutdown",
               "deaf", "gone", "killed"}
    /\ acc \in Conns \cup {NoConn}
    /\ listening \subseteq SQ!Families /\ mask \subseteq listening
    /\ pc \in Holding => acc \in Conns
    /\ pc \notin Holding /\ which # "server" => acc = NoConn
    /\ Live \subseteq {acc} /\ (pc = "shake" => Live = {})
    /\ which = "server" => pc \notin Holding /\ \A c \in Conns : conv[c] = "none"
    /\ which # "afindepend" => mask = {} /\ pc \notin {"select", "scan"}
    /\ which = "afindepend" => pc # "accept"
    /\ which # "re-exec" => pc # "start"
    /\ which # "ssl" => pc \notin {"shake", "shutdown"}
    /\ pc = "setup" => mask = {}
    /\ pc = "shutdown" => acc \in Live
    /\ pc \in {"scan", "serve"} /\ selected => \A s \in mask : SQ!WaitsAt(s)

\* A connection is accepted once, before it is in conversation: those that wait, the one
\* accepted but not yet served (server5.c, ssl-server.c), and those to come.
Fresh ==
    /\ \A i, j \in DOMAIN backlog : backlog[i] = backlog[j] => i = j
    /\ \A i \in DOMAIN backlog : conv[backlog[i]] = "none" /\ phase[backlog[i]] # "new"
    /\ \A c \in Conns : phase[c] = "new" => conv[c] = "none"
    /\ pc \in {"fork", "shake"} =>
           /\ acc \in Conns /\ conv[acc] = "none" /\ phase[acc] # "new"
           /\ \A i \in DOMAIN backlog : backlog[i] # acc

\* server5.c: every SIGCHLD that is pending or being handled has its child that ended,
\* until waitpid() has taken one from the handler.
Reaping ==
    /\ pc \in {"accept", "fork", "close", "waitpid"} /\ acc \in Conns \cup {NoConn}
    /\ pc \in {"fork", "close"} => acc \in Conns
    /\ zombies \subseteq {c \in Conns : conv[c] = "ended"}
    /\ pending \in BOOLEAN /\ handler \in BOOLEAN /\ stolen \in BOOLEAN /\ peak \in Nat
    /\ IsFiniteSet(Live) /\ IsFiniteSet(zombies)
    /\ Cardinality(Live) <= peak
    /\ Cardinality(Live \cup zombies) <= peak + (IF pc \in {"close", "waitpid"} THEN 1 ELSE 0)
    /\ ~stolen =>
           /\ pending \/ handler => zombies # {}
           /\ pending /\ handler => \E x, y \in zombies : x # y

\* server6.c.
Threads ==
    /\ pc \in {"accept", "create", "killed"} /\ acc \in Conns \cup {NoConn}
    /\ pc = "create" => acc \in Conns

\* The conversations: what is about to be sent is the reply to a line of this client
\* behind all that were answered.
FaithfulTo(c) ==
    /\ LastReply(c) <= read[c]
    /\ conv[c] = "none" => Sent(c) = << >>
    /\ conv[c] = "send" =>
           /\ line[c] = [conn |-> c, n |-> line[c].n, ok |-> TRUE]
           /\ line[c].n \in Nat /\ LastReply(c) < line[c].n /\ line[c].n <= read[c]
Faithful == \A c \in Conns : FaithfulTo(c)

\* The inductive invariant.
IInv ==
    /\ Types
    /\ which = "prefork" => Prefork
    /\ which = "prethread" => Prethread
    /\ which \in OneAtATime => Sequentially
    /\ which \in {"fork", "ssl"} => Fresh
    /\ which = "fork" => Reaping
    /\ which = "thread" => Threads
    /\ Faithful

---------------------------------------------------------------------------
(* The servers' instances of Conversations are one                         *)

LEMMA Same5 ==
    /\ \A c : /\ S5!Begin(c) <=> Begin(c)
              /\ S5!End(c) <=> End(c)
              /\ S5!Leave(c) <=> Leave(c)
              /\ S5!Talk(c) <=> Talk(c)
              /\ S5!SigPipe(c) <=> SigPipe(c)
              /\ S5!HangUpOn(c) <=> HangUpOn(c)
    /\ S5!AcceptFirst <=> AcceptFirst
    /\ S5!Live = Live
  BY DEF Begin, S5!Begin, End, S5!End, Leave, S5!Leave, Talk, S5!Talk, SigPipe, S5!SigPipe,
         HangUpOn, S5!HangUpOn, Over, S5!Over, Receive, S5!Receive, Respond, S5!Respond,
         AtEnd, S5!AtEnd, Broken, S5!Broken, HasLines, S5!HasLines, TakeLines, S5!TakeLines,
         Deliver, S5!Deliver, NoLine, S5!NoLine, AcceptFirst, S5!AcceptFirst, Live, S5!Live,
         clientVars, S5!clientVars

LEMMA Same6 ==
    /\ \A c : /\ S6!Begin(c) <=> Begin(c)
              /\ S6!End(c) <=> End(c)
              /\ S6!Leave(c) <=> Leave(c)
              /\ S6!Talk(c) <=> Talk(c)
              /\ S6!SigPipe(c) <=> SigPipe(c)
              /\ S6!HangUpOn(c) <=> HangUpOn(c)
    /\ S6!AcceptFirst <=> AcceptFirst
    /\ S6!Live = Live
  BY DEF Begin, S6!Begin, End, S6!End, Leave, S6!Leave, Talk, S6!Talk, SigPipe, S6!SigPipe,
         HangUpOn, S6!HangUpOn, Over, S6!Over, Receive, S6!Receive, Respond, S6!Respond,
         AtEnd, S6!AtEnd, Broken, S6!Broken, HasLines, S6!HasLines, TakeLines, S6!TakeLines,
         Deliver, S6!Deliver, NoLine, S6!NoLine, AcceptFirst, S6!AcceptFirst, Live, S6!Live,
         clientVars, S6!clientVars

LEMMA Same7 ==
    /\ \A c : /\ S7!Begin(c) <=> Begin(c)
              /\ S7!End(c) <=> End(c)
              /\ S7!Leave(c) <=> Leave(c)
              /\ S7!Talk(c) <=> Talk(c)
              /\ S7!SigPipe(c) <=> SigPipe(c)
              /\ S7!HangUpOn(c) <=> HangUpOn(c)
    /\ S7!AcceptFirst <=> AcceptFirst
    /\ S7!Live = Live
  BY DEF Begin, S7!Begin, End, S7!End, Leave, S7!Leave, Talk, S7!Talk, SigPipe, S7!SigPipe,
         HangUpOn, S7!HangUpOn, Over, S7!Over, Receive, S7!Receive, Respond, S7!Respond,
         AtEnd, S7!AtEnd, Broken, S7!Broken, HasLines, S7!HasLines, TakeLines, S7!TakeLines,
         Deliver, S7!Deliver, NoLine, S7!NoLine, AcceptFirst, S7!AcceptFirst, Live, S7!Live,
         clientVars, S7!clientVars

LEMMA Same8 ==
    /\ \A c : /\ S8!Begin(c) <=> Begin(c)
              /\ S8!End(c) <=> End(c)
              /\ S8!Leave(c) <=> Leave(c)
              /\ S8!Talk(c) <=> Talk(c)
              /\ S8!SigPipe(c) <=> SigPipe(c)
              /\ S8!HangUpOn(c) <=> HangUpOn(c)
    /\ S8!AcceptFirst <=> AcceptFirst
    /\ S8!Live = Live
  BY DEF Begin, S8!Begin, End, S8!End, Leave, S8!Leave, Talk, S8!Talk, SigPipe, S8!SigPipe,
         HangUpOn, S8!HangUpOn, Over, S8!Over, Receive, S8!Receive, Respond, S8!Respond,
         AtEnd, S8!AtEnd, Broken, S8!Broken, HasLines, S8!HasLines, TakeLines, S8!TakeLines,
         Deliver, S8!Deliver, NoLine, S8!NoLine, AcceptFirst, S8!AcceptFirst, Live, S8!Live,
         clientVars, S8!clientVars

LEMMA SameSQ ==
    /\ \A c : /\ SQ!Begin(c) <=> Begin(c)
              /\ SQ!End(c) <=> End(c)
              /\ SQ!Leave(c) <=> Leave(c)
              /\ SQ!Talk(c) <=> Talk(c)
              /\ SQ!SigPipe(c) <=> SigPipe(c)
              /\ SQ!HangUpOn(c) <=> HangUpOn(c)
    /\ SQ!AcceptFirst <=> AcceptFirst
    /\ SQ!Live = Live
  BY DEF Begin, SQ!Begin, End, SQ!End, Leave, SQ!Leave, Talk, SQ!Talk, SigPipe, SQ!SigPipe,
         HangUpOn, SQ!HangUpOn, Over, SQ!Over, Receive, SQ!Receive, Respond, SQ!Respond,
         AtEnd, SQ!AtEnd, Broken, SQ!Broken, HasLines, SQ!HasLines, TakeLines, SQ!TakeLines,
         Deliver, SQ!Deliver, NoLine, SQ!NoLine, AcceptFirst, SQ!AcceptFirst, Live, SQ!Live,
         clientVars, SQ!clientVars

LEMMA SameSS ==
    /\ \A c : /\ SS!Begin(c) <=> Begin(c)
              /\ SS!End(c) <=> End(c)
              /\ SS!Leave(c) <=> Leave(c)
              /\ SS!Talk(c) <=> Talk(c)
              /\ SS!SigPipe(c) <=> SigPipe(c)
              /\ SS!HangUpOn(c) <=> HangUpOn(c)
    /\ SS!AcceptFirst <=> AcceptFirst
    /\ SS!Live = Live
  BY DEF Begin, SS!Begin, End, SS!End, Leave, SS!Leave, Talk, SS!Talk, SigPipe, SS!SigPipe,
         HangUpOn, SS!HangUpOn, Over, SS!Over, Receive, SS!Receive, Respond, SS!Respond,
         AtEnd, SS!AtEnd, Broken, SS!Broken, HasLines, SS!HasLines, TakeLines, SS!TakeLines,
         Deliver, SS!Deliver, NoLine, SS!NoLine, AcceptFirst, SS!AcceptFirst, Live, SS!Live,
         clientVars, SS!clientVars

LEMMA SameRE ==
    /\ \A c : /\ RE!Begin(c) <=> Begin(c)
              /\ RE!End(c) <=> End(c)
              /\ RE!Leave(c) <=> Leave(c)
              /\ RE!Talk(c) <=> Talk(c)
              /\ RE!SigPipe(c) <=> SigPipe(c)
              /\ RE!HangUpOn(c) <=> HangUpOn(c)
    /\ RE!AcceptFirst <=> AcceptFirst
    /\ RE!Live = Live
  BY DEF Begin, RE!Begin, End, RE!End, Leave, RE!Leave, Talk, RE!Talk, SigPipe, RE!SigPipe,
         HangUpOn, RE!HangUpOn, Over, RE!Over, Receive, RE!Receive, Respond, RE!Respond,
         AtEnd, RE!AtEnd, Broken, RE!Broken, HasLines, RE!HasLines, TakeLines, RE!TakeLines,
         Deliver, RE!Deliver, NoLine, RE!NoLine, AcceptFirst, RE!AcceptFirst, Live, RE!Live,
         clientVars, RE!clientVars

---------------------------------------------------------------------------
(* The steps of each server                                                *)

Quiet == UNCHANGED <<phase, sent, read, out, got, reset, backlog, convVars>>
AClient == (\E c \in Conns : Client(c)) /\ Others

\* None of them becomes another.
LEMMA WhichStays ==
    /\ SQ!Server \/ SQ!AcceptAny => which' = which
    /\ SS!SslStep \/ (\E c \in Conns : SS!ClientHello(c) \/ SS!CloseNotify(c)) => which' = which
    /\ RE!Sigaction \/ RE!Hangup \/ RE!SendHup => which' = which
<1>1. ASSUME SQ!Server \/ SQ!AcceptAny PROVE which' = which
  <2>1. CASE SQ!AcceptAny
    BY <2>1 DEF SQ!AcceptAny, SQ!Accept, SQ!AcceptAndClose
  <2>2. CASE SQ!Serve \/ SQ!Done \/ SQ!Kills
    BY <2>2 DEF SQ!Serve, SQ!Done, SQ!Kills, SQ!seqVars
  <2>3. CASE SQ!SetUp \/ SQ!Select \/ SQ!SelectFails \/ SQ!ScanEnds \/ \E s \in SQ!Families : SQ!AcceptFails(s)
    BY <2>3 DEF SQ!SetUp, SQ!Select, SQ!SelectFails, SQ!ScanEnds, SQ!AcceptFails
  <2>4. QED
    BY <1>1, <2>1, <2>2, <2>3 DEF SQ!Server
<1>2. ASSUME SS!SslStep \/ (\E c \in Conns : SS!ClientHello(c) \/ SS!CloseNotify(c)) PROVE which' = which
  BY <1>2 DEF SS!SslStep, SS!SslAccept, SS!Handshake, SS!HandshakeFails, SS!Shutdown, SS!ShutdownEnds,
              SS!ClientHello, SS!CloseNotify, SS!seqVars
<1>3. ASSUME RE!Sigaction \/ RE!Hangup \/ RE!SendHup PROVE which' = which
  BY <1>3 DEF RE!Sigaction, RE!Hangup, RE!SendHup, RE!sig_hangup_handler, RE!ExecFails, RE!HupKills,
              RE!CloseAll, RE!seqVars
<1>4. QED
  BY <1>1, <1>2, <1>3

\* What a step of Next is, for each of the servers.
LEMMA StepsOf ==
    ASSUME [Next]_vars
    PROVE  /\ which' = which
           /\ which = "fork" =>
                 \/ (S5!AcceptLoop \/ S5!SigChld \/ S5!HandlerReturns) /\ Rest5
                 \/ \E c \in Conns : S5!Child(c) /\ Rest5
                 \/ AClient \/ UNCHANGED vars
           /\ which = "thread" =>
                 \/ S6!AcceptLoop \/ \E c \in Conns : S6!Thread(c)
                 \/ AClient \/ UNCHANGED vars
           /\ which = "prefork" =>
                 \/ \E w \in Workers : S7!Worker(w)
                 \/ AClient \/ UNCHANGED vars
           /\ which = "prethread" =>
                 \/ \E w \in Workers : S8!Worker(w)
                 \/ AClient \/ UNCHANGED vars
           /\ which \in OneAtATime =>
                 \/ SQ!Server \/ SQ!AcceptAny
                 \/ which = "ssl" /\ SS!SslStep
                 \/ which = "ssl" /\ \E c \in Conns : SS!ClientHello(c) \/ SS!CloseNotify(c)
                 \/ which = "re-exec" /\ (RE!Sigaction \/ RE!Hangup \/ RE!SendHup)
                 \/ AClient \/ UNCHANGED vars
<1> USE DEF OneAtATime
<1>1. CASE Parent5 \/ SigChld5 \/ Handler5 \/ \E c \in Conns : Child5(c)
  BY <1>1 DEF Parent5, SigChld5, Handler5, Child5, Rest5
<1>2. CASE Accept6 \/ \E c \in Conns : Thread6(c)
  BY <1>2 DEF Accept6, Thread6, Rest6
<1>3. CASE \E w \in Workers : Worker7(w) \/ Worker8(w)
  BY <1>3 DEF Worker7, Worker8, Rest7, Rest8
<1>4. CASE Server1 \/ Accept1 \/ Session \/ SslAccept
  BY <1>4, WhichStays DEF Server1, Accept1, Session, SslAccept, SS!SslStep
<1>5. CASE SessionStep
  BY <1>5, WhichStays DEF SessionStep
<1>6. CASE Sigaction \/ Hangup \/ SendHup
  BY <1>6, WhichStays DEF Sigaction, Hangup, SendHup
<1>7. CASE ClientStep
  BY <1>7 DEF ClientStep, AClient, Others, Client
<1>8. CASE UNCHANGED vars
  BY <1>8 DEF vars
<1>9. QED
  BY <1>1, <1>2, <1>3, <1>4, <1>5, <1>6, <1>7, <1>8 DEF Next

---------------------------------------------------------------------------
(* The queue                                                               *)

\* accept() takes the head of the queue; what is left stays in its order.
LEMMA QueueHead ==
    ASSUME backlog \in Seq(Conns), AcceptFirst
    PROVE  /\ Head(backlog) \in Conns
           /\ Head(backlog) = backlog[1] /\ 1 \in DOMAIN backlog
           /\ backlog' \in Seq(Conns)
           /\ \A i \in DOMAIN backlog' :
                 i + 1 \in DOMAIN backlog /\ backlog'[i] = backlog[i + 1] /\ i \in Nat \ {0}
<1>1. backlog # << >> /\ backlog' = Tail(backlog)
  BY DEF AcceptFirst
<1>2. Len(backlog) \in Nat \ {0} /\ DOMAIN backlog = 1 .. Len(backlog)
  BY <1>1, LenProperties, EmptySeq
<1>3. Head(backlog) \in Conns /\ Head(backlog) = backlog[1]
  BY <1>1
<1>4. /\ Tail(backlog) \in Seq(Conns)
      /\ Len(Tail(backlog)) = Len(backlog) - 1
      /\ \A i \in 1 .. Len(Tail(backlog)) : Tail(backlog)[i] = backlog[i + 1]
  BY <1>1, HeadTailProperties
<1>5. DOMAIN Tail(backlog) = 1 .. Len(Tail(backlog))
  BY <1>4, LenProperties
<1>6. QED
  BY <1>1, <1>2, <1>3, <1>4, <1>5

Without(k) == SubSeq(backlog, 1, k - 1) \o SubSeq(backlog, k + 1, Len(backlog))

\* What is left of the queue when one of its places is taken out.
LEMMA QueueRemove ==
    ASSUME backlog \in Seq(Conns), NEW k \in DOMAIN backlog
    PROVE  /\ backlog[k] \in Conns
           /\ Without(k) \in Seq(Conns)
           /\ \A i \in DOMAIN Without(k) :
                 \E j \in DOMAIN backlog :
                     /\ j # k /\ Without(k)[i] = backlog[j]
                     /\ j = IF i < k THEN i ELSE i + 1
           /\ \A j \in DOMAIN backlog : j # k =>
                 \E i \in DOMAIN Without(k) : Without(k)[i] = backlog[j]
<1> DEFINE a == SubSeq(backlog, 1, k - 1)
           b == SubSeq(backlog, k + 1, Len(backlog))
<1>1. Len(backlog) \in Nat /\ DOMAIN backlog = 1 .. Len(backlog)
  BY LenProperties
<1>2. \A i \in 1 .. Len(backlog) : backlog[i] \in Conns
  BY ElementOfSeq
<1>3. k \in 1 .. Len(backlog) /\ k \in Nat /\ k - 1 \in Int /\ k + 1 \in Int /\ Len(backlog) \in Int
  BY <1>1
<1>4. /\ a \in Seq(Conns) /\ Len(a) = k - 1
      /\ \A i \in 1 .. k - 1 : a[i] = backlog[i]
  <2>1. \A i \in 1 .. (k - 1) : backlog[i] \in Conns
    BY <1>2, <1>3
  <2>2. /\ a \in Seq(Conns) /\ Len(a) = IF 1 <= k - 1 THEN k - 1 - 1 + 1 ELSE 0
        /\ \A i \in 1 .. k - 1 - 1 + 1 : a[i] = backlog[1 + i - 1]
    BY <1>3, <2>1, SubSeqProperties
  <2>3. QED
    BY <1>3, <2>2
<1>5. /\ b \in Seq(Conns) /\ Len(b) = Len(backlog) - k
      /\ \A i \in 1 .. Len(backlog) - k : b[i] = backlog[k + i]
  <2>1. \A i \in (k + 1) .. Len(backlog) : backlog[i] \in Conns
    BY <1>2, <1>3
  <2>2. /\ b \in Seq(Conns)
        /\ Len(b) = IF k + 1 <= Len(backlog) THEN Len(backlog) - (k + 1) + 1 ELSE 0
        /\ \A i \in 1 .. Len(backlog) - (k + 1) + 1 : b[i] = backlog[k + 1 + i - 1]
    BY <1>3, <2>1, SubSeqProperties
  <2>3. QED
    BY <1>3, <2>2
<1> HIDE DEF a, b
<1>6. Without(k) = a \o b
  BY DEF Without, a, b
<1>7. /\ a \o b \in Seq(Conns)
      /\ Len(a \o b) = Len(a) + Len(b)
      /\ \A i \in 1 .. Len(a) + Len(b) : (a \o b)[i] = IF i <= Len(a) THEN a[i] ELSE b[i - Len(a)]
  BY <1>4, <1>5, ConcatProperties
<1>8. DOMAIN (a \o b) = 1 .. Len(a \o b)
  BY <1>7, LenProperties
<1>9. ASSUME NEW i \in 1 .. (Len(backlog) - 1)
      PROVE  (a \o b)[i] = IF i < k THEN backlog[i] ELSE backlog[i + 1]
  <2>1. i \in 1 .. Len(a) + Len(b) /\ i \in Int
    <3>1. Len(a) = k - 1 /\ Len(b) = Len(backlog) - k
      BY <1>3, <1>4, <1>5
    <3>2. \A n \in Nat : \A m \in 1 .. n : (m - 1) + (n - m) = n - 1
      OBVIOUS
    <3>3. Len(a) + Len(b) = Len(backlog) - 1
      BY <1>3, <3>1, <3>2
    <3>4. QED
      BY <3>3
  <2>2. CASE i < k
    <3>1. i <= Len(a) /\ i \in 1 .. k - 1
      BY <1>3, <1>4, <2>1, <2>2
    <3>2. QED
      BY <1>4, <1>7, <2>1, <2>2, <3>1
  <2>3. CASE ~(i < k)
    <3>1. /\ ~(i <= Len(a)) /\ i - Len(a) \in 1 .. Len(backlog) - k
          /\ k + (i - Len(a)) = i + 1
      <4>1. \A n \in Nat : \A m \in 1 .. n : \A x \in 1 .. (n - 1) : \A l \in Int :
                l = m - 1 /\ ~(x < m)
                    => ~(x <= l) /\ x - l \in 1 .. n - m /\ m + (x - l) = x + 1
        OBVIOUS
      <4>2. Len(a) = k - 1 /\ Len(a) \in Int
        BY <1>3, <1>4
      <4>3. QED
        BY <1>3, <2>3, <4>1, <4>2
    <3>2. QED
      BY <1>5, <1>7, <2>1, <2>3, <3>1
  <2>4. QED
    BY <2>2, <2>3
<1>10. DOMAIN (a \o b) = 1 .. (Len(backlog) - 1)
  BY <1>3, <1>4, <1>5, <1>7, <1>8
<1>11. ASSUME NEW i \in 1 .. (Len(backlog) - 1)
       PROVE  \E j \in DOMAIN backlog :
                  j # k /\ (a \o b)[i] = backlog[j] /\ j = IF i < k THEN i ELSE i + 1
  <2> DEFINE j == IF i < k THEN i ELSE i + 1
  <2>1. j \in 1 .. Len(backlog) /\ j # k
    BY <1>3
  <2>2. (a \o b)[i] = backlog[j]
    BY <1>9
  <2>3. QED
    BY <1>1, <2>1, <2>2
<1>12. ASSUME NEW j \in DOMAIN backlog, j # k
       PROVE  \E i \in 1 .. (Len(backlog) - 1) : (a \o b)[i] = backlog[j]
  <2>0. j \in 1 .. Len(backlog)
    BY <1>1
  <2>1. CASE j < k
    <3>1. j \in 1 .. (Len(backlog) - 1)
      BY <1>3, <2>0, <2>1
    <3>2. QED
      BY <1>9, <2>1, <3>1
  <2>2. CASE ~(j < k)
    <3>1. j - 1 \in 1 .. (Len(backlog) - 1) /\ ~(j - 1 < k) /\ j - 1 + 1 = j
      BY <1>3, <1>12, <2>0, <2>2
    <3>2. (a \o b)[j - 1] = backlog[j]
      BY <1>9, <3>1
    <3>3. QED
      BY <3>1, <3>2
  <2>3. QED
    BY <2>1, <2>2
<1>13. QED
  BY <1>1, <1>2, <1>6, <1>7, <1>10, <1>11, <1>12

---------------------------------------------------------------------------
(* The lock                                                                *)

LEMMA PreforkStep ==
    ASSUME which = "prefork", Types, Prefork, [Next]_vars PROVE Prefork'
<1> USE WorkerAssumption, ClientAssumption DEF Prefork, S7!LockIsForAccept
<1>0. backlog \in Seq(Conns)
  BY DEF Types
<1>1. ASSUME NEW w \in Workers, S7!Worker(w) PROVE Prefork'
  <2>1. CASE S7!Lock(w)
    BY <2>1 DEF S7!Lock
  <2>2. CASE S7!AcceptFails(w)
    BY <2>2 DEF S7!AcceptFails
  <2>3. CASE S7!Accept(w)
    <3>1. Head(backlog) \in Conns
      BY <1>0, <2>3, Same7, QueueHead DEF S7!Accept
    <3>2. QED
      BY <2>3, <3>1 DEF S7!Accept
  <2>4. CASE S7!Unlock(w)
    BY <2>4 DEF S7!Unlock
  <2>5. CASE S7!Serve(w)
    BY <2>5 DEF S7!Serve, S7!workerVars
  <2>6. CASE S7!Done(w) \/ S7!Killed(w)
    BY <2>6 DEF S7!Done, S7!Killed
  <2>7. QED
    BY <1>1, <2>1, <2>2, <2>3, <2>4, <2>5, <2>6 DEF S7!Worker
<1>2. CASE AClient \/ UNCHANGED vars
  BY <1>2 DEF AClient, Others, vars, pool
<1>3. QED
  BY <1>1, <1>2, StepsOf

LEMMA PrethreadStep ==
    ASSUME which = "prethread", Types, Prethread, [Next]_vars PROVE Prethread'
<1> USE WorkerAssumption, ClientAssumption DEF Prethread, S8!LockIsForAccept, S8!MarkIsOwner
<1>0. backlog \in Seq(Conns)
  BY DEF Types
<1>1. ASSUME NEW w \in Workers, S8!Worker(w) PROVE Prethread'
  <2> USE DEF S8!Goto
  <2>1. CASE S8!Lock(w)
    BY <2>1 DEF S8!Lock
  <2>2. CASE S8!Mark(w)
    BY <2>2 DEF S8!Mark
  <2>3. CASE S8!Accept(w)
    <3>1. Head(backlog) \in Conns
      BY <1>0, <2>3, Same8, QueueHead DEF S8!Accept
    <3>2. QED
      BY <2>3, <3>1 DEF S8!Accept
  <2>4. CASE S8!AcceptFails(w)
    BY <2>4 DEF S8!AcceptFails
  <2>5. CASE S8!Unmark(w)
    BY <2>5 DEF S8!Unmark
  <2>6. CASE S8!Unlock(w)
    BY <2>6 DEF S8!Unlock
  <2>7. CASE S8!Serve(w)
    BY <2>7 DEF S8!Serve
  <2>8. CASE S8!Done(w)
    BY <2>8 DEF S8!Done
  <2>9. CASE S8!Killed(w)
    BY <2>9 DEF S8!Killed
  <2>10. QED
    BY <1>1, <2>1, <2>2, <2>3, <2>4, <2>5, <2>6, <2>7, <2>8, <2>9 DEF S8!Worker
<1>2. CASE AClient \/ UNCHANGED vars
  BY <1>2 DEF AClient, Others, vars, pool
<1>3. QED
  BY <1>1, <1>2, StepsOf

---------------------------------------------------------------------------
(* The sequential servers                                                  *)

\* What a step of a conversation changes besides the streams.
LEMMA TalkMoves ==
    ASSUME NEW c, Talk(c)
    PROVE  /\ UNCHANGED <<phase, sent, got, backlog>>
           /\ \E v \in {"recv", "send"} : conv' = [conv EXCEPT ![c] = v]
  BY DEF Talk, Receive, Respond

\* accept() on the socket of s takes a connection made to it.
LEMMA AcceptTakes ==
    ASSUME backlog \in Seq(Conns), NEW s, SQ!AcceptOn(s) \/ SS!AcceptOn(s)
    PROVE  /\ \E k \in DOMAIN backlog :
                 acc' = backlog[k] /\ backlog' = Without(k) /\ family[backlog[k]] = s
           /\ acc' \in Conns /\ backlog' \in Seq(Conns)
           /\ mask' = mask \ {s}
           /\ pc = "accept" \/ (pc = "scan" /\ s \in mask)
<1>1. PICK k \in DOMAIN backlog :
          acc' = backlog[k] /\ backlog' = Without(k) /\ family[backlog[k]] = s
  BY DEF SQ!AcceptOn, SS!AcceptOn, SQ!RemoveAt, SS!RemoveAt, Without
<1>2. acc' \in Conns /\ backlog' \in Seq(Conns)
  BY <1>1, QueueRemove
<1>3. mask' = mask \ {s} /\ (pc = "accept" \/ (pc = "scan" /\ s \in mask))
  BY DEF SQ!AcceptOn, SS!AcceptOn, SQ!Turn, SS!Turn
<1>4. QED
  BY <1>1, <1>2, <1>3

\* The other sockets still have their connections.
LEMMA OthersWait ==
    ASSUME backlog \in Seq(Conns), NEW s, SQ!AcceptOn(s), UNCHANGED family
    PROVE  \A t : t # s /\ SQ!WaitsAt(t) => SQ!WaitsAt(t)'
<1>1. PICK k \in DOMAIN backlog :
          acc' = backlog[k] /\ backlog' = Without(k) /\ family[backlog[k]] = s
  BY AcceptTakes
<1>2. ASSUME NEW t, t # s, SQ!WaitsAt(t) PROVE SQ!WaitsAt(t)'
  <2>1. PICK j \in DOMAIN backlog : family[backlog[j]] = t
    BY <1>2 DEF SQ!WaitsAt
  <2>2. j # k
    BY <1>1, <1>2, <2>1
  <2>3. PICK i \in DOMAIN Without(k) : Without(k)[i] = backlog[j]
    BY <2>2, QueueRemove
  <2>4. i \in DOMAIN backlog' /\ family'[backlog'[i]] = t
    BY <1>1, <2>1, <2>3
  <2>5. QED
    BY <2>4 DEF SQ!WaitsAt
<1>3. QED
  BY <1>2

\* A connection that joins the queue takes none out.
LEMMA ConnectQueues ==
    ASSUME backlog \in Seq(Conns), NEW c \in Conns, Connect(c)
    PROVE  /\ backlog' \in Seq(Conns)
           /\ \A i \in DOMAIN backlog : i \in DOMAIN backlog' /\ backlog'[i] = backlog[i]
           /\ \A i \in DOMAIN backlog' :
                 \/ i \in DOMAIN backlog /\ backlog'[i] = backlog[i]
                 \/ i = Len(backlog) + 1 /\ i \notin DOMAIN backlog /\ backlog'[i] = c
<1>1. backlog' = Append(backlog, c)
  BY DEF Connect
<1>2. /\ backlog' \in Seq(Conns)
      /\ Len(backlog') = Len(backlog) + 1
      /\ \A i \in 1 .. Len(backlog) : backlog'[i] = backlog[i]
      /\ backlog'[Len(backlog) + 1] = c
  BY <1>1, AppendProperties
<1>3. /\ DOMAIN backlog = 1 .. Len(backlog) /\ DOMAIN backlog' = 1 .. Len(backlog')
      /\ Len(backlog) \in Nat
  BY <1>2, LenProperties
<1>4. QED
  BY <1>2, <1>3

LEMMA SequentialStep ==
    ASSUME which \in OneAtATime, Types, Sequentially, [Next]_vars PROVE Sequentially'
<1> USE ClientAssumption DEF Sequentially, Holding
<1>0. backlog \in Seq(Conns) /\ conv \in [Conns -> ConvStates] /\ which' = which
  BY StepsOf DEF Types
<1>1. Live \subseteq Conns /\ (pc \notin Holding => Live = {})
  BY <1>0 DEF Live
<1>2. SQ!Families' = SQ!Families
  BY <1>0 DEF SQ!Families
<1>3. CASE SQ!SetUp
  <2>1. UNCHANGED Live
    BY <1>3 DEF SQ!SetUp, Live, SQ!convVars
  <2>2. listening' \subseteq SQ!Families
    BY <1>3 DEF SQ!SetUp
  <2>3. QED
    BY <1>0, <1>2, <1>3, <2>1, <2>2 DEF SQ!SetUp, SQ!Top, SQ!convVars
<1>4. CASE SQ!Select \/ SQ!SelectFails \/ SQ!ScanEnds
  <2>1. UNCHANGED <<Live, conv, acc, listening, backlog, family, which>>
    BY <1>4 DEF SQ!Select, SQ!SelectFails, SQ!ScanEnds, Live, SQ!convVars, SQ!clientVars
  <2>2. \A s : SQ!WaitsAt(s)' <=> SQ!WaitsAt(s)
    BY <2>1 DEF SQ!WaitsAt
  <2>3. QED
    BY <1>2, <1>4, <2>1, <2>2 DEF SQ!Select, SQ!SelectFails, SQ!ScanEnds
<1>5. ASSUME NEW s \in SQ!Families, SQ!Accept(s) PROVE Sequentially'
  <2>1. SQ!AcceptOn(s) /\ pc' = "serve" /\ UNCHANGED <<family, listening, selected>>
    BY <1>5 DEF SQ!Accept
  <2>2. /\ acc' \in Conns /\ mask' = mask \ {s}
        /\ pc = "accept" \/ (pc = "scan" /\ s \in mask)
    BY <1>0, <2>1, AcceptTakes
  <2>3. conv' = [conv EXCEPT ![acc'] = "recv"]
    BY <1>5 DEF SQ!Accept, SQ!Begin
  <2>4. Live' \subseteq {acc'}
    BY <1>0, <1>1, <2>2, <2>3 DEF Live
  <2>5. which # "server"
    BY <1>5 DEF SQ!Accept
  <2>6. \A t : t # s /\ SQ!WaitsAt(t) => SQ!WaitsAt(t)'
    BY <1>0, <2>1, OthersWait
  <2>7. QED
    BY <1>0, <1>2, <2>1, <2>2, <2>4, <2>5, <2>6
<1>6. ASSUME NEW s \in SQ!Families, SQ!AcceptAndClose(s) PROVE Sequentially'
  <2>1. /\ SQ!AcceptOn(s) /\ which = "server"
        /\ UNCHANGED <<conv, pc, family, listening, selected>>
    BY <1>6 DEF SQ!AcceptAndClose, SQ!convVars
  <2>2. acc' \in Conns /\ mask' = mask \ {s} /\ pc = "accept"
    BY <1>0, <2>1, AcceptTakes
  <2>3. Live' = {}
    BY <1>1, <2>1, <2>2 DEF Live
  <2>4. QED
    BY <1>0, <1>2, <2>1, <2>2, <2>3
<1>7. ASSUME NEW s \in SQ!Families, SQ!AcceptFails(s) PROVE Sequentially'
  <2>1. UNCHANGED <<Live, conv, pc, acc, listening, backlog, family, selected>> /\ mask' = mask \ {s}
    BY <1>7 DEF SQ!AcceptFails, Live, SQ!convVars, SQ!clientVars
  <2>2. \A t : SQ!WaitsAt(t)' <=> SQ!WaitsAt(t)
    BY <2>1 DEF SQ!WaitsAt
  <2>3. QED
    BY <1>0, <1>2, <2>1, <2>2
<1>8. CASE SQ!Serve
  <2>1. Talk(acc) /\ pc = "serve" /\ UNCHANGED <<pc, acc, family, listening, mask, selected>>
    BY <1>8, SameSQ DEF SQ!Serve, SQ!seqVars
  <2>2. /\ UNCHANGED backlog
        /\ \E v \in {"recv", "send"} : conv' = [conv EXCEPT ![acc] = v]
    BY <2>1, TalkMoves
  <2>3. Live' \subseteq {acc}
    BY <1>0, <2>1, <2>2 DEF Live
  <2>4. \A t : SQ!WaitsAt(t)' <=> SQ!WaitsAt(t)
    BY <2>1, <2>2 DEF SQ!WaitsAt
  <2>5. QED
    BY <1>0, <1>2, <2>1, <2>3, <2>4
<1>9. ASSUME End(acc), pc \in Holding, UNCHANGED <<family, listening, mask, selected>>,
             \/ pc = "serve" /\ pc' \in {SQ!Back, "killed"}
             \/ which = "ssl" /\ pc' = "accept",
             acc' = NoConn
      PROVE  Sequentially'
  <2>1. conv' = [conv EXCEPT ![acc] = "ended"] /\ UNCHANGED backlog
    BY <1>9 DEF End, clientVars
  <2>2. Live' = {}
    BY <1>0, <1>9, <2>1 DEF Live
  <2>3. \A t : SQ!WaitsAt(t)' <=> SQ!WaitsAt(t)
    BY <1>9, <2>1 DEF SQ!WaitsAt
  <2>4. which # "server"
    BY <1>9
  <2>5. CASE pc = "serve" /\ pc' \in {SQ!Back, "killed"}
    BY <1>0, <1>2, <1>9, <2>2, <2>3, <2>4, <2>5 DEF SQ!Back
  <2>6. CASE which = "ssl" /\ pc' = "accept"
    BY <1>0, <1>2, <1>9, <2>2, <2>3, <2>4, <2>6
  <2>7. QED
    BY <1>9, <2>5, <2>6
<1>10. CASE SQ!Done \/ SQ!Kills
  BY <1>9, <1>10, SameSQ DEF SQ!Done, SQ!Kills, Leave
<1>11. CASE which = "ssl" /\ SS!SslStep
  <2>1. CASE SS!SslAccept
    <3>1. /\ acc' \in Conns /\ mask' = mask \ {"v4"} /\ pc = "accept"
          /\ pc' = "shake" /\ UNCHANGED <<conv, family, listening, selected>>
      BY <1>0, <1>11, <2>1, AcceptTakes DEF SS!SslAccept, SS!convVars
    <3>2. Live' = {}
      BY <1>1, <3>1 DEF Live
    <3>3. QED
      BY <1>0, <1>2, <1>11, <3>1, <3>2
  <2>2. CASE SS!Handshake
    <3>1. /\ conv' = [conv EXCEPT ![acc] = "recv"] /\ pc = "shake" /\ pc' = "serve"
          /\ UNCHANGED <<acc, family, listening, mask, selected>>
      BY <2>2 DEF SS!Handshake, SS!Begin
    <3>2. Live' \subseteq {acc}
      BY <1>0, <3>1 DEF Live
    <3>3. QED
      BY <1>0, <1>2, <1>11, <3>1, <3>2
  <2>3. CASE SS!HandshakeFails
    <3>1. /\ pc = "shake" /\ pc' = "accept" /\ acc' = NoConn
          /\ UNCHANGED <<conv, family, listening, mask, selected>>
      BY <2>3 DEF SS!HandshakeFails, SS!convVars
    <3>2. Live' = {}
      BY <3>1 DEF Live
    <3>3. QED
      BY <1>0, <1>2, <1>11, <3>1, <3>2
  <2>4. CASE SS!Shutdown
    <3>1. /\ pc = "serve" /\ conv[acc] = "recv" /\ pc' = "shutdown"
          /\ UNCHANGED <<conv, acc, family, listening, mask, selected>>
      BY <2>4 DEF SS!Shutdown, SS!convVars
    <3>2. Live' = Live /\ acc \in Live
      BY <3>1 DEF Live
    <3>3. QED
      BY <1>0, <1>2, <1>11, <3>1, <3>2
  <2>5. CASE SS!ShutdownEnds
    BY <1>9, <1>11, <2>5, SameSS DEF SS!ShutdownEnds
  <2>6. QED
    BY <1>11, <2>1, <2>2, <2>3, <2>4, <2>5 DEF SS!SslStep
<1>12. CASE which = "ssl" /\ \E c \in Conns : SS!ClientHello(c) \/ SS!CloseNotify(c)
  <2>1. UNCHANGED <<conv, pc, acc, family, listening, mask, selected>>
    BY <1>12 DEF SS!ClientHello, SS!CloseNotify, SS!seqVars, SS!convVars
  <2>2. Live' = Live
    BY <2>1 DEF Live
  <2>3. QED
    BY <1>0, <1>2, <1>12, <2>1, <2>2
<1>13. CASE which = "re-exec" /\ (RE!Sigaction \/ RE!Hangup \/ RE!SendHup)
  <2>1. CASE RE!Sigaction
    <3>1. /\ pc = "start" /\ pc' = "setup"
          /\ UNCHANGED <<conv, acc, family, listening, mask, selected>>
      BY <2>1 DEF RE!Sigaction, RE!convVars
    <3>2. Live' = Live
      BY <3>1 DEF Live
    <3>3. QED
      BY <1>0, <1>2, <1>13, <3>1, <3>2
  <2>2. CASE RE!Hangup
    <3>1. /\ conv' = [c \in Conns |-> IF c \in Live THEN "ended" ELSE conv[c]]
          /\ acc' = NoConn /\ listening' = {} /\ UNCHANGED <<mask, selected>>
          /\ pc' \in {"start", "deaf", "killed"}
      BY <2>2, SameRE DEF RE!Hangup, RE!sig_hangup_handler, RE!ExecFails, RE!HupKills, RE!CloseAll
    <3>2. Live' = {}
      BY <3>1 DEF Live
    <3>3. QED
      BY <1>0, <1>13, <3>1, <3>2
  <2>3. CASE RE!SendHup
    <3>1. UNCHANGED <<conv, pc, acc, family, listening, mask, selected>>
      BY <2>3 DEF RE!SendHup, RE!seqVars, RE!convVars
    <3>2. Live' = Live
      BY <3>1 DEF Live
    <3>3. QED
      BY <1>0, <1>2, <1>13, <3>1, <3>2
  <2>4. QED
    BY <1>13, <2>1, <2>2, <2>3
<1>14. CASE AClient \/ UNCHANGED vars
  <2>1. UNCHANGED <<conv, pc, acc, family, listening, mask, selected>>
    BY <1>14 DEF AClient, Others, vars, convVars, main, own1
  <2>2. Live' = Live
    BY <2>1 DEF Live
  <2>3. \A t : SQ!WaitsAt(t) => SQ!WaitsAt(t)'
    <3>1. CASE UNCHANGED backlog
      BY <2>1, <3>1 DEF SQ!WaitsAt
    <3>2. CASE \E c \in Conns : Connect(c)
      BY <1>0, <2>1, <3>2, ConnectQueues DEF SQ!WaitsAt
    <3>3. QED
      BY <1>14, <3>1, <3>2 DEF AClient, Client, SendLine, ReadReply, CloseConn, vars, clientVars
  <2>4. QED
    BY <1>0, <1>2, <2>1, <2>2, <2>3
<1>15. CASE SQ!Server \/ SQ!AcceptAny
  BY <1>3, <1>4, <1>5, <1>6, <1>7, <1>8, <1>10, <1>15 DEF SQ!Server, SQ!AcceptAny
<1>16. QED
  BY <1>11, <1>12, <1>13, <1>14, <1>15, StepsOf

---------------------------------------------------------------------------
(* What a step does to the conversations, whatever the server              *)

\* No line is read and none answered; a conversation begins or ends, or none does.
Settles ==
    /\ UNCHANGED <<phase, sent, read, out, got>>
    /\ backlog' \in Seq(Conns)
    /\ conv' \in [Conns -> ConvStates] /\ line' \in [Conns -> Replies]
    /\ \A c \in Conns :
           \/ conv'[c] = conv[c] /\ line'[c] = line[c]
           \/ conv'[c] \in {"recv", "ended", "lost"}

\* A connection is closed that was never in conversation.
Dismisses(c) ==
    /\ HangUpOn(c)
    /\ conv[c] = "none"
    /\ UNCHANGED <<sent, read, out, got, convVars>>
    /\ backlog' \in Seq(Conns)

\* re-exec.c closes whatever is open.
Restarts ==
    /\ phase' \in [Conns -> Phases]
    /\ UNCHANGED <<sent, read, out, got>>
    /\ backlog' \in Seq(Conns)
    /\ conv' \in [Conns -> ConvStates] /\ line' \in [Conns -> Replies]
    /\ \A c \in Conns : conv'[c] \in {"none", "ended", "lost"}
    /\ \A c \in Conns : conv'[c] = "none" => conv[c] = "none"

LEMMA NoLineIsReply == NoLine \in Replies
  BY ClientAssumption DEF NoLine, Replies

LEMMA SettlesIdle ==
    ASSUME Types, UNCHANGED <<phase, sent, read, out, got, convVars>>, backlog' \in Seq(Conns)
    PROVE  Settles
  BY DEF Types, Settles, convVars

LEMMA SettlesOne ==
    ASSUME Types, NEW c, NEW v \in {"recv", "ended", "lost"},
           conv' = [conv EXCEPT ![c] = v], line' \in {line, [line EXCEPT ![c] = NoLine]},
           UNCHANGED <<phase, sent, read, out, got>>, backlog' \in Seq(Conns)
    PROVE  Settles
<1>1. conv \in [Conns -> ConvStates] /\ line \in [Conns -> Replies]
  BY DEF Types
<1>2. conv' \in [Conns -> ConvStates] /\ line' \in [Conns -> Replies]
  BY <1>1, NoLineIsReply DEF ConvStates
<1>3. ASSUME NEW d \in Conns
      PROVE  \/ conv'[d] = conv[d] /\ line'[d] = line[d]
             \/ conv'[d] \in {"recv", "ended", "lost"}
  <2>1. CASE d = c
    BY <1>1, <2>1
  <2>2. CASE d # c
    BY <1>1, <2>2
  <2>3. QED
    BY <2>1, <2>2
<1>4. QED
  BY <1>2, <1>3 DEF Settles

LEMMA SettlesEnd ==
    ASSUME Types, NEW c, End(c) PROVE Settles
<1>1. backlog \in Seq(Conns)
  BY DEF Types
<1>2. QED
  BY <1>1, SettlesOne DEF End, clientVars

Kinds ==
    \/ Settles
    \/ \E c \in Conns : Talk(c) \/ Dismisses(c) \/ (Client(c) /\ UNCHANGED convVars)
    \/ which = "re-exec" /\ Restarts

LEMMA KindsIdle ==
    ASSUME Types, AClient \/ UNCHANGED vars \/ UNCHANGED <<clientVars, convVars>> PROVE Kinds
<1>1. backlog \in Seq(Conns)
  BY DEF Types
<1>2. CASE UNCHANGED vars \/ UNCHANGED <<clientVars, convVars>>
  BY <1>1, <1>2, SettlesIdle DEF Kinds, vars, clientVars, convVars
<1>3. CASE AClient
  BY <1>3 DEF AClient, Others, Kinds
<1>4. QED
  BY <1>2, <1>3

LEMMA KindsOf5 ==
    ASSUME which = "fork", Types, Reaping, [Next]_vars PROVE Kinds
<1>0. backlog \in Seq(Conns)
  BY DEF Types
<1> USE DEF Kinds, S5!convVars, S5!clientVars, convVars, clientVars
<1>1. CASE S5!Accept
  <2>1. AcceptFirst
    BY <1>1, Same5 DEF S5!Accept
  <2>2. backlog' \in Seq(Conns)
    BY <1>0, <2>1, QueueHead
  <2>3. QED
    BY <1>1, <2>1, <2>2, SettlesIdle DEF S5!Accept, AcceptFirst
<1>2. CASE S5!Fork
  BY <1>0, <1>2, SettlesOne DEF S5!Fork, S5!Begin
<1>3. CASE S5!CloseAcc
  <2>1. acc \in Conns
    BY <1>3 DEF S5!CloseAcc, Reaping
  <2>2. CASE conv[acc] = "none"
    BY <1>0, <1>3, <2>1, <2>2, Same5 DEF S5!CloseAcc, Dismisses
  <2>3. CASE conv[acc] # "none"
    BY <1>0, <1>3, <2>3, SettlesIdle DEF S5!CloseAcc
  <2>4. QED
    BY <2>2, <2>3
<1>4. CASE S5!ForkFails \/ S5!Waitpid \/ S5!SigChld \/ S5!HandlerReturns
  BY <1>4, KindsIdle DEF S5!ForkFails, S5!Waitpid, S5!SigChld, S5!HandlerReturns
<1>5. ASSUME NEW c \in Conns, S5!Child(c) PROVE Kinds
  BY <1>5, Same5, SettlesEnd DEF S5!Child, S5!Exit, Leave
<1>6. CASE AClient \/ UNCHANGED vars
  BY <1>6, KindsIdle
<1>7. QED
  BY <1>1, <1>2, <1>3, <1>4, <1>5, <1>6, StepsOf DEF S5!AcceptLoop

LEMMA KindsOf6 ==
    ASSUME which = "thread", Types, Threads, [Next]_vars PROVE Kinds /\ Threads'
<1>0. backlog \in Seq(Conns)
  BY DEF Types
<1> USE ClientAssumption DEF Kinds, S6!convVars, S6!clientVars, convVars, clientVars, Threads
<1>1. CASE S6!Accept
  <2>1. AcceptFirst
    BY <1>1, Same6 DEF S6!Accept
  <2>2. backlog' \in Seq(Conns) /\ Head(backlog) \in Conns
    BY <1>0, <2>1, QueueHead
  <2>3. QED
    BY <1>1, <2>1, <2>2, SettlesIdle DEF S6!Accept, AcceptFirst
<1>2. CASE S6!Create
  BY <1>0, <1>2, SettlesOne DEF S6!Create, S6!Begin
<1>3. CASE S6!CreateFails
  BY <1>0, <1>3, SettlesOne DEF S6!CreateFails
<1>4. ASSUME NEW c \in Conns, S6!Thread(c) PROVE Kinds /\ Threads'
  <2>1. CASE S6!Killed(c)
    BY <2>1, KindsIdle DEF S6!Killed
  <2>2. CASE (S6!Talk(c) \/ S6!Leave(c)) /\ UNCHANGED S6!mainVars
    BY <2>2, Same6, SettlesEnd DEF Leave, S6!mainVars
  <2>3. QED
    BY <1>4, <2>1, <2>2 DEF S6!Thread
<1>5. CASE AClient \/ UNCHANGED vars
  BY <1>5, KindsIdle DEF AClient, Others, vars, main
<1>6. QED
  BY <1>1, <1>2, <1>3, <1>4, <1>5, StepsOf DEF S6!AcceptLoop

LEMMA KindsOf7 ==
    ASSUME which = "prefork", Types, Prefork, [Next]_vars PROVE Kinds
<1>0. backlog \in Seq(Conns)
  BY DEF Types
<1> USE DEF Kinds, S7!convVars, S7!clientVars, convVars, clientVars
<1>1. ASSUME NEW w \in Workers, S7!Worker(w) PROVE Kinds
  <2>1. CASE S7!Lock(w) \/ S7!AcceptFails(w)
    BY <2>1, KindsIdle DEF S7!Lock, S7!AcceptFails
  <2>2. CASE S7!Accept(w)
    <3>1. AcceptFirst
      BY <2>2, Same7 DEF S7!Accept
    <3>2. backlog' \in Seq(Conns)
      BY <1>0, <3>1, QueueHead
    <3>3. QED
      BY <2>2, <3>1, <3>2, SettlesIdle DEF S7!Accept, AcceptFirst
  <2>3. CASE S7!Unlock(w)
    BY <1>0, <2>3, SettlesOne DEF S7!Unlock, S7!Begin
  <2>4. CASE S7!Serve(w)
    <3>1. serves[w] \in Conns
      BY <2>4 DEF S7!Serve, Prefork
    <3>2. QED
      BY <2>4, <3>1, Same7 DEF S7!Serve
  <2>5. CASE S7!Done(w) \/ S7!Killed(w)
    BY <2>5, Same7, SettlesEnd DEF S7!Done, S7!Killed, Leave
  <2>6. QED
    BY <1>1, <2>1, <2>2, <2>3, <2>4, <2>5 DEF S7!Worker
<1>2. CASE AClient \/ UNCHANGED vars
  BY <1>2, KindsIdle
<1>3. QED
  BY <1>1, <1>2, StepsOf

LEMMA KindsOf8 ==
    ASSUME which = "prethread", Types, Prethread, [Next]_vars PROVE Kinds
<1>0. backlog \in Seq(Conns)
  BY DEF Types
<1> USE DEF Kinds, S8!convVars, S8!clientVars, convVars, clientVars
<1>1. ASSUME NEW w \in Workers, S8!Worker(w) PROVE Kinds
  <2>1. CASE S8!Lock(w) \/ S8!Mark(w) \/ S8!AcceptFails(w) \/ S8!Unmark(w) \/ S8!Killed(w)
    BY <2>1, KindsIdle DEF S8!Lock, S8!Mark, S8!AcceptFails, S8!Unmark, S8!Killed
  <2>2. CASE S8!Accept(w)
    <3>1. AcceptFirst
      BY <2>2, Same8 DEF S8!Accept
    <3>2. backlog' \in Seq(Conns)
      BY <1>0, <3>1, QueueHead
    <3>3. QED
      BY <2>2, <3>1, <3>2, SettlesIdle DEF S8!Accept, AcceptFirst
  <2>3. CASE S8!Unlock(w)
    BY <1>0, <2>3, SettlesOne, KindsIdle DEF S8!Unlock, S8!Begin
  <2>4. CASE S8!Serve(w)
    <3>1. serves[w] \in Conns
      BY <2>4 DEF S8!Serve, S8!Goto, Prethread
    <3>2. QED
      BY <2>4, <3>1, Same8 DEF S8!Serve
  <2>5. CASE S8!Done(w)
    BY <2>5, Same8, SettlesEnd DEF S8!Done, Leave
  <2>6. QED
    BY <1>1, <2>1, <2>2, <2>3, <2>4, <2>5 DEF S8!Worker
<1>2. CASE AClient \/ UNCHANGED vars
  BY <1>2, KindsIdle
<1>3. QED
  BY <1>1, <1>2, StepsOf

LEMMA KindsOf1 ==
    ASSUME which \in OneAtATime, Types, Sequentially, which = "ssl" => Fresh, [Next]_vars PROVE Kinds
<1>0. backlog \in Seq(Conns)
  BY DEF Types
<1> USE DEF Kinds, convVars, clientVars
<1>1. CASE SQ!SetUp \/ SQ!Select \/ SQ!SelectFails \/ SQ!ScanEnds \/ \E s \in SQ!Families : SQ!AcceptFails(s)
  BY <1>1, KindsIdle DEF SQ!SetUp, SQ!Select, SQ!SelectFails, SQ!ScanEnds, SQ!AcceptFails,
                         SQ!convVars, SQ!clientVars
<1>2. ASSUME NEW s \in SQ!Families, SQ!Accept(s) PROVE Kinds
  <2>1. backlog' \in Seq(Conns)
    BY <1>0, <1>2, AcceptTakes DEF SQ!Accept
  <2>2. /\ conv' = [conv EXCEPT ![acc'] = "recv"] /\ UNCHANGED line
        /\ UNCHANGED <<phase, sent, read, out, got>>
    BY <1>2 DEF SQ!Accept, SQ!Begin
  <2>3. Settles
    BY <2>1, <2>2, SettlesOne
  <2>4. QED
    BY <2>3
<1>3. ASSUME NEW s \in SQ!Families, SQ!AcceptAndClose(s) PROVE Kinds
  <2>1. backlog' \in Seq(Conns)
    BY <1>0, <1>3, AcceptTakes DEF SQ!AcceptAndClose
  <2>2. PICK c \in Conns : HangUpOn(c)
    BY <1>3, SameSQ DEF SQ!AcceptAndClose
  <2>3. which = "server" /\ UNCHANGED <<sent, read, out, got, conv, line>>
    BY <1>3 DEF SQ!AcceptAndClose, SQ!convVars
  <2>4. Dismisses(c)
    BY <2>1, <2>2, <2>3 DEF Dismisses, Sequentially
  <2>5. QED
    BY <2>4
<1>4. CASE SQ!Serve
  <2>1. acc \in Conns
    BY <1>4 DEF SQ!Serve, Sequentially, Holding
  <2>2. QED
    BY <1>4, <2>1, SameSQ DEF SQ!Serve
<1>5. CASE SQ!Done \/ SQ!Kills
  BY <1>5, SameSQ, SettlesEnd DEF SQ!Done, SQ!Kills, Leave
<1>6. CASE which = "ssl" /\ SS!SslStep
  <2>1. CASE SS!SslAccept
    <3>1. backlog' \in Seq(Conns)
      BY <1>0, <2>1, AcceptTakes DEF SS!SslAccept
    <3>2. UNCHANGED <<phase, sent, read, out, got, conv, line>>
      BY <2>1 DEF SS!SslAccept, SS!convVars
    <3>3. QED
      BY <3>1, <3>2, SettlesIdle
  <2>2. CASE SS!Handshake
    BY <1>0, <2>2, SettlesOne DEF SS!Handshake, SS!Begin, SS!clientVars
  <2>3. CASE SS!HandshakeFails
    <3>1. acc \in Conns /\ conv[acc] = "none"
      BY <1>6, <2>3 DEF SS!HandshakeFails, Fresh
    <3>2. QED
      BY <1>0, <2>3, <3>1, SameSS DEF SS!HandshakeFails, SS!convVars, Dismisses
  <2>4. CASE SS!Shutdown
    BY <2>4, KindsIdle DEF SS!Shutdown, SS!convVars, SS!clientVars
  <2>5. CASE SS!ShutdownEnds
    BY <2>5, SameSS, SettlesEnd DEF SS!ShutdownEnds
  <2>6. QED
    BY <1>6, <2>1, <2>2, <2>3, <2>4, <2>5 DEF SS!SslStep
<1>7. CASE which = "ssl" /\ \E c \in Conns : SS!ClientHello(c) \/ SS!CloseNotify(c)
  BY <1>7, KindsIdle DEF SS!ClientHello, SS!CloseNotify, SS!convVars, SS!clientVars
<1>8. CASE which = "re-exec" /\ (RE!Sigaction \/ RE!Hangup \/ RE!SendHup)
  <2>1. CASE RE!Sigaction \/ RE!SendHup
    BY <2>1, KindsIdle DEF RE!Sigaction, RE!SendHup, RE!convVars, RE!clientVars
  <2>2. CASE RE!Hangup
    <3>1. RE!CloseAll
      BY <2>2 DEF RE!Hangup, RE!sig_hangup_handler, RE!ExecFails, RE!HupKills
    <3>2. /\ phase \in [Conns -> Phases] /\ conv \in [Conns -> ConvStates]
          /\ backlog' = << >> /\ UNCHANGED <<sent, read, out, got>>
      BY <3>1 DEF RE!CloseAll, Types
    <3>3. phase' \in [Conns -> Phases]
      BY <3>1, <3>2 DEF RE!CloseAll, Phases
    <3>4. /\ conv' = [c \in Conns |-> IF c \in Live THEN "ended" ELSE conv[c]]
          /\ line' = [c \in Conns |-> NoLine]
      BY <3>1, SameRE DEF RE!CloseAll, RE!NoLine, NoLine
    <3>5. line' \in [Conns -> Replies]
      BY <3>4, NoLineIsReply
    <3>6. \A c \in Conns : conv[c] \notin {"recv", "send"} => conv[c] \in {"none", "ended", "lost"}
      BY <3>2 DEF ConvStates
    <3>7. /\ conv' \in [Conns -> ConvStates]
          /\ \A c \in Conns : conv'[c] \in {"none", "ended", "lost"}
          /\ \A c \in Conns : conv'[c] = "none" => conv[c] = "none"
      BY <3>2, <3>4, <3>6 DEF Live, ConvStates
    <3>8. << >> \in Seq(Conns)
      OBVIOUS
    <3>9. QED
      BY <1>8, <3>2, <3>3, <3>5, <3>7, <3>8 DEF Restarts
  <2>3. QED
    BY <1>8, <2>1, <2>2
<1>9. CASE AClient \/ UNCHANGED vars
  BY <1>9, KindsIdle
<1>10. CASE SQ!Server \/ SQ!AcceptAny
  BY <1>1, <1>2, <1>3, <1>4, <1>5, <1>10 DEF SQ!Server, SQ!AcceptAny
<1>11. QED
  BY <1>6, <1>7, <1>8, <1>9, <1>10, StepsOf

\* Whatever the server, a step is one of these kinds.
LEMMA StepKinds ==
    ASSUME IInv, [Next]_vars PROVE Kinds
<1>1. which \in {"fork", "thread", "prefork", "prethread"} \cup OneAtATime
  BY ServersAssumption DEF IInv, Types
<1>2. QED
  BY <1>1, KindsOf5, KindsOf6, KindsOf7, KindsOf8, KindsOf1 DEF IInv

---------------------------------------------------------------------------
(* Types                                                                   *)

LEMMA TalkTypes ==
    ASSUME Types, NEW c \in Conns, Talk(c)
    PROVE  /\ read' \in Counts /\ \A d \in Conns : read'[d] <= sent'[d]
           /\ out' \in Streams
           /\ conv' \in [Conns -> ConvStates] /\ line' \in [Conns -> Replies]
<1>1. /\ read \in Counts /\ sent \in Counts /\ out \in Streams /\ \A d \in Conns : read[d] <= sent[d]
      /\ conv \in [Conns -> ConvStates] /\ line \in [Conns -> Replies]
  BY DEF Types
<1>2. CASE Receive(c)
  <2>1. PICK k \in 1 .. MaxLines : TakeLines(c, k)
    BY <1>2 DEF Receive
  <2>2. k \in 1 .. (sent[c] - read[c]) /\ read' = [read EXCEPT ![c] = @ + k] /\ UNCHANGED <<sent, out>>
    BY <1>2, <2>1 DEF Receive, TakeLines
  <2>3. read[c] \in Nat /\ sent[c] \in Nat /\ sent[c] <= MaxLines /\ MaxLines \in Nat
    BY <1>1, ClientAssumption DEF Counts
  <2>4. read[c] + k \in 0 .. MaxLines /\ read[c] + k <= sent[c]
    BY <2>2, <2>3
  <2>5. read' \in Counts /\ \A d \in Conns : read'[d] <= sent'[d]
    BY <1>1, <2>2, <2>4 DEF Counts
  <2>6. read[c] + 1 \in 0 .. MaxLines
    BY <2>2, <2>3
  <2>7. [conn |-> c, n |-> read[c] + 1, ok |-> TRUE] \in Replies
    BY <2>6 DEF Replies
  <2>8. conv' = [conv EXCEPT ![c] = "send"]
    BY <1>2 DEF Receive
  <2>9. line' \in [Conns -> Replies]
    BY <1>1, <1>2, <2>7 DEF Receive
  <2>10. QED
    BY <1>1, <2>2, <2>5, <2>8, <2>9 DEF ConvStates
<1>3. CASE Respond(c)
  <2>1. UNCHANGED <<sent, read>> /\ line' = [line EXCEPT ![c] = NoLine] /\ conv' = [conv EXCEPT ![c] = "recv"]
    BY <1>3 DEF Respond
  <2>2. line[c] \in Replies /\ out[c] \in Seq(Replies)
    BY <1>1 DEF Streams
  <2>3. Append(out[c], line[c]) \in Seq(Replies)
    BY <2>2
  <2>4. out' = [out EXCEPT ![c] = Append(@, line[c])] \/ UNCHANGED out
    BY <1>3 DEF Respond, Deliver
  <2>5. out' \in Streams
    BY <1>1, <2>3, <2>4 DEF Streams
  <2>6. QED
    BY <1>1, <2>1, <2>5, NoLineIsReply DEF ConvStates
<1>4. QED
  BY <1>2, <1>3 DEF Talk

LEMMA ClientTypes ==
    ASSUME Types, NEW c \in Conns, Client(c)
    PROVE  /\ phase' \in [Conns -> Phases]
           /\ sent' \in Counts /\ read' = read /\ \A d \in Conns : read'[d] <= sent'[d]
           /\ out' \in Streams /\ got' \in Streams
           /\ backlog' \in Seq(Conns)
<1>1. /\ phase \in [Conns -> Phases]
      /\ read \in Counts /\ sent \in Counts /\ \A d \in Conns : read[d] <= sent[d]
      /\ out \in Streams /\ got \in Streams /\ backlog \in Seq(Conns)
  BY DEF Types
<1>2. CASE Connect(c)
  <2>1. backlog' \in Seq(Conns)
    BY <1>1, <1>2, ConnectQueues
  <2>2. QED
    BY <1>1, <1>2, <2>1 DEF Connect, Phases
<1>3. CASE SendLine(c)
  <2>1. /\ sent' = [sent EXCEPT ![c] = @ + 1] /\ sent[c] < MaxLines
        /\ UNCHANGED <<phase, read, out, got, backlog>>
    BY <1>3 DEF SendLine
  <2>2. sent[c] \in Nat /\ read[c] \in Nat /\ read[c] <= sent[c] /\ MaxLines \in Nat
    BY <1>1, ClientAssumption DEF Counts
  <2>3. sent[c] + 1 \in 0 .. MaxLines /\ read[c] <= sent[c] + 1
    BY <2>1, <2>2
  <2>4. sent' \in Counts /\ \A d \in Conns : read[d] <= sent'[d]
    BY <1>1, <2>1, <2>3 DEF Counts
  <2>5. QED
    BY <1>1, <2>1, <2>4
<1>4. CASE ReadReply(c)
  <2>1. /\ got' = [got EXCEPT ![c] = Append(@, Head(out[c]))]
        /\ out' = [out EXCEPT ![c] = Tail(@)] /\ out[c] # << >>
        /\ UNCHANGED <<phase, sent, read, backlog>>
    BY <1>4 DEF ReadReply
  <2>2. out[c] \in Seq(Replies) /\ got[c] \in Seq(Replies)
    BY <1>1 DEF Streams
  <2>3. Append(got[c], Head(out[c])) \in Seq(Replies) /\ Tail(out[c]) \in Seq(Replies)
    BY <2>1, <2>2
  <2>4. out' \in Streams /\ got' \in Streams
    BY <1>1, <2>1, <2>3 DEF Streams
  <2>5. QED
    BY <1>1, <2>1, <2>4
<1>5. CASE CloseConn(c)
  BY <1>1, <1>5 DEF CloseConn, Phases
<1>6. QED
  BY <1>2, <1>3, <1>4, <1>5 DEF Client

LEMMA TypesStep ==
    ASSUME IInv, [Next]_vars PROVE Types'
<1>0. Types /\ which' = which
  BY StepsOf DEF IInv
<1>1. CASE Settles
  BY <1>0, <1>1 DEF Settles, Types
<1>2. ASSUME NEW c \in Conns, Talk(c) PROVE Types'
  <2>1. UNCHANGED <<phase, sent, got, backlog>>
    BY <1>2, TalkMoves
  <2>2. QED
    BY <1>0, <1>2, <2>1, TalkTypes DEF Types
<1>3. ASSUME NEW c \in Conns, Dismisses(c) PROVE Types'
  <2>1. phase' \in [Conns -> Phases]
    BY <1>0, <1>3 DEF Dismisses, HangUpOn, Types, Phases
  <2>2. QED
    BY <1>0, <1>3, <2>1 DEF Dismisses, Types, convVars
<1>4. ASSUME NEW c \in Conns, Client(c), UNCHANGED convVars PROVE Types'
  BY <1>0, <1>4, ClientTypes DEF Types, convVars
<1>5. CASE Restarts
  BY <1>0, <1>5 DEF Restarts, Types
<1>6. QED
  BY <1>1, <1>2, <1>3, <1>4, <1>5, StepKinds DEF Kinds

---------------------------------------------------------------------------
(* The answers                                                             *)

LEMMA SentTypes ==
    ASSUME Types, NEW c \in Conns
    PROVE  Sent(c) \in Seq(Replies) /\ LastReply(c) \in Nat
<1>1. got[c] \in Seq(Replies) /\ out[c] \in Seq(Replies)
  BY DEF Types, Streams
<1>2. Sent(c) \in Seq(Replies)
  BY <1>1, ConcatProperties DEF Sent
<1>3. CASE Sent(c) # << >>
  <2>1. Len(Sent(c)) \in Nat \ {0}
    BY <1>2, <1>3, EmptySeq
  <2>2. Sent(c)[Len(Sent(c))] \in Replies
    BY <1>2, <2>1, ElementOfSeq
  <2>3. Sent(c)[Len(Sent(c))].n \in 0 .. MaxLines
    BY <2>2 DEF Replies
  <2>4. QED
    BY <1>2, <1>3, <2>3, ClientAssumption DEF LastReply
<1>4. QED
  BY <1>2, <1>3 DEF LastReply

\* What a client reads was sent to it before.
LEMMA SentRead ==
    ASSUME Types, NEW c \in Conns, ReadReply(c)
    PROVE  \A d \in Conns : Sent(d)' = Sent(d)
<1>1. /\ got' = [got EXCEPT ![c] = Append(@, Head(out[c]))]
      /\ out' = [out EXCEPT ![c] = Tail(@)] /\ out[c] # << >>
  BY DEF ReadReply
<1>2. got \in Streams /\ out \in Streams /\ got[c] \in Seq(Replies) /\ out[c] \in Seq(Replies)
  BY DEF Types, Streams
<1> DEFINE g == got[c]
           o == out[c]
           h == Head(out[c])
           t == Tail(out[c])
<1>3. g \in Seq(Replies) /\ o \in Seq(Replies) /\ h \in Replies /\ t \in Seq(Replies) /\ o = << h >> \o t
  BY <1>1, <1>2
<1>4. << h >> \in Seq(Replies)
  BY <1>3
<1> HIDE DEF g, o, h, t
<1>5. Append(g, h) \o t = g \o o
  <2>1. Append(g, h) = g \o << h >>
    BY <1>3, AppendIsConcat
  <2>2. (g \o << h >>) \o t = g \o (<< h >> \o t)
    BY <1>3, <1>4, ConcatAssociative
  <2>3. QED
    BY <1>3, <2>1, <2>2
<1>6. Sent(c)' = Sent(c)
  <2>1. got'[c] = Append(g, h) /\ out'[c] = t
    BY <1>1, <1>2 DEF Streams, g, h, t
  <2>2. QED
    BY <1>5, <2>1 DEF Sent, g, o
<1>7. ASSUME NEW d \in Conns, d # c PROVE Sent(d)' = Sent(d)
  <2>1. got'[d] = got[d] /\ out'[d] = out[d]
    BY <1>1, <1>2, <1>7 DEF Streams
  <2>2. QED
    BY <2>1 DEF Sent
<1>8. QED
  BY <1>6, <1>7

\* What is sent is the last that was sent.
LEMMA SentAppend ==
    ASSUME Types, NEW c \in Conns, NEW l \in Replies,
           out' = [out EXCEPT ![c] = Append(@, l)], UNCHANGED got
    PROVE  /\ Sent(c)' = Append(Sent(c), l)
           /\ LastReply(c)' = l.n
           /\ \A d \in Conns : d # c => Sent(d)' = Sent(d)
<1>1. got \in Streams /\ out \in Streams /\ got[c] \in Seq(Replies) /\ out[c] \in Seq(Replies)
  BY DEF Types, Streams
<1> DEFINE g == got[c]
           o == out[c]
<1>2. g \in Seq(Replies) /\ o \in Seq(Replies) /\ g \o o \in Seq(Replies)
  BY <1>1, ConcatProperties
<1>3. << l >> \in Seq(Replies)
  OBVIOUS
<1>4. got'[c] = g /\ out'[c] = Append(o, l)
  BY <1>1 DEF Streams
<1>5. Sent(c) = g \o o
  BY DEF Sent
<1> HIDE DEF g, o
<1>6. g \o Append(o, l) = Append(g \o o, l)
  <2>1. Append(o, l) = o \o << l >> /\ Append(g \o o, l) = (g \o o) \o << l >>
    BY <1>2, AppendIsConcat
  <2>2. g \o (o \o << l >>) = (g \o o) \o << l >>
    BY <1>2, <1>3, ConcatAssociative
  <2>3. QED
    BY <2>1, <2>2
<1>7. Sent(c)' = Append(Sent(c), l)
  BY <1>4, <1>5, <1>6 DEF Sent
<1> DEFINE e == Sent(c)
<1>0. e \in Seq(Replies)
  BY <1>2, <1>5
<1> HIDE DEF e
<1>8. /\ Append(e, l) # << >>
      /\ Len(Append(e, l)) = Len(e) + 1
      /\ Append(e, l)[Len(e) + 1] = l
  BY <1>0, AppendProperties
<1>9. LastReply(c)' = l.n
  BY <1>7, <1>8 DEF LastReply, e
<1>10. ASSUME NEW d \in Conns, d # c PROVE Sent(d)' = Sent(d)
  BY <1>1, <1>10 DEF Sent, Streams
<1>11. QED
  BY <1>7, <1>9, <1>10

LEMMA FaithfulStep ==
    ASSUME IInv, [Next]_vars PROVE Faithful'
<1>0. Types /\ Faithful
  BY DEF IInv
<1>1. ASSUME NEW d \in Conns, Sent(d)' = Sent(d), read'[d] = read[d],
             \/ conv'[d] = conv[d] /\ line'[d] = line[d]
             \/ conv'[d] \in {"recv", "ended", "lost"}
      PROVE  FaithfulTo(d)'
  <2>1. LastReply(d)' = LastReply(d)
    BY <1>1 DEF LastReply
  <2>2. FaithfulTo(d)
    BY <1>0 DEF Faithful
  <2>3. CASE conv'[d] = conv[d] /\ line'[d] = line[d]
    BY <1>1, <2>1, <2>2, <2>3 DEF FaithfulTo
  <2>4. CASE conv'[d] \in {"recv", "ended", "lost"}
    BY <1>1, <2>1, <2>2, <2>4 DEF FaithfulTo
  <2>5. QED
    BY <1>1, <2>3, <2>4
<1>2. CASE Settles
  <2>1. \A d \in Conns : Sent(d)' = Sent(d)
    BY <1>2 DEF Settles, Sent
  <2>2. QED
    BY <1>1, <1>2, <2>1 DEF Settles, Faithful
<1>3. CASE Restarts
  <2>1. \A d \in Conns : Sent(d)' = Sent(d)
    BY <1>3 DEF Restarts, Sent
  <2>2. ASSUME NEW d \in Conns PROVE FaithfulTo(d)'
    <3>1. CASE conv'[d] = "none"
      <4>1. LastReply(d)' = LastReply(d)
        BY <2>1 DEF LastReply
      <4>2. conv[d] = "none" /\ read' = read
        BY <1>3, <3>1 DEF Restarts
      <4>3. QED
        BY <1>0, <2>1, <3>1, <4>1, <4>2 DEF Faithful, FaithfulTo
    <3>2. CASE conv'[d] \in {"ended", "lost"}
      BY <1>1, <1>3, <2>1, <3>2 DEF Restarts
    <3>3. QED
      BY <1>3, <3>1, <3>2 DEF Restarts
  <2>3. QED
    BY <2>2 DEF Faithful
<1>4. ASSUME NEW c \in Conns, Dismisses(c) PROVE Faithful'
  <2>1. UNCHANGED <<read, conv, line, out, got>>
    BY <1>4 DEF Dismisses, convVars
  <2>2. \A d \in Conns : Sent(d)' = Sent(d)
    BY <2>1 DEF Sent
  <2>3. QED
    BY <1>1, <2>1, <2>2 DEF Faithful
<1>5. ASSUME NEW c \in Conns, Client(c), UNCHANGED convVars PROVE Faithful'
  <2>1. UNCHANGED <<conv, line>>
    BY <1>5 DEF convVars
  <2>2. read' = read
    BY <1>0, <1>5, ClientTypes
  <2>3. \A d \in Conns : Sent(d)' = Sent(d)
    <3>1. CASE ReadReply(c)
      BY <1>0, <3>1, SentRead
    <3>2. CASE Connect(c) \/ SendLine(c) \/ CloseConn(c)
      BY <3>2 DEF Connect, SendLine, CloseConn, Sent
    <3>3. QED
      BY <1>5, <3>1, <3>2 DEF Client
  <2>4. QED
    BY <1>1, <2>1, <2>2, <2>3 DEF Faithful
<1>6. ASSUME NEW c \in Conns, Talk(c) PROVE Faithful'
  <2>0. conv \in [Conns -> ConvStates] /\ line \in [Conns -> Replies] /\ read \in Counts
    BY <1>0 DEF Types
  <2>1. FaithfulTo(c) /\ LastReply(c) \in Nat /\ read[c] \in Nat
    BY <1>0, <2>0, SentTypes, ClientAssumption DEF Faithful, Counts
  <2>2. CASE Receive(c)
    <3>1. PICK k \in 1 .. MaxLines : TakeLines(c, k)
      BY <2>2 DEF Receive
    <3>2. k \in Nat \ {0} /\ read' = [read EXCEPT ![c] = @ + k]
      BY <3>1, ClientAssumption DEF TakeLines
    <3>3. /\ line' = [line EXCEPT ![c] = [conn |-> c, n |-> read[c] + 1, ok |-> TRUE]]
          /\ conv' = [conv EXCEPT ![c] = "send"] /\ UNCHANGED <<out, got>>
      BY <2>2 DEF Receive
    <3>4. \A d \in Conns : Sent(d)' = Sent(d)
      BY <3>3 DEF Sent
    <3>5. LastReply(c)' = LastReply(c)
      BY <3>4 DEF LastReply
    <3>6. /\ line'[c] = [conn |-> c, n |-> read[c] + 1, ok |-> TRUE]
          /\ conv'[c] = "send" /\ read'[c] = read[c] + k
      BY <2>0, <3>2, <3>3 DEF Counts
    <3>7. LastReply(c) <= read[c] /\ LastReply(c) < read[c] + 1 /\ read[c] + 1 <= read[c] + k
          /\ read[c] + 1 \in Nat /\ LastReply(c) <= read[c] + k
      BY <2>1, <3>2 DEF FaithfulTo
    <3>8. FaithfulTo(c)'
      BY <3>5, <3>6, <3>7 DEF FaithfulTo
    <3>9. ASSUME NEW d \in Conns, d # c PROVE FaithfulTo(d)'
      <4>1. conv'[d] = conv[d] /\ line'[d] = line[d] /\ read'[d] = read[d]
        BY <2>0, <3>2, <3>3, <3>9 DEF Counts
      <4>2. QED
        BY <1>1, <3>4, <4>1
    <3>10. QED
      BY <3>8, <3>9 DEF Faithful
  <2>3. CASE Respond(c)
    <3>1. /\ conv[c] = "send" /\ conv' = [conv EXCEPT ![c] = "recv"]
          /\ line' = [line EXCEPT ![c] = NoLine] /\ UNCHANGED <<read, got>>
          /\ out' = [out EXCEPT ![c] = Append(@, line[c])] \/ UNCHANGED out
      BY <2>3 DEF Respond, Deliver
    <3>2. CASE UNCHANGED out
      <4>1. \A d \in Conns : Sent(d)' = Sent(d)
        BY <3>1, <3>2 DEF Sent
      <4>2. \A d \in Conns :
                \/ conv'[d] = conv[d] /\ line'[d] = line[d]
                \/ conv'[d] \in {"recv", "ended", "lost"}
        BY <2>0, <3>1
      <4>3. QED
        BY <1>1, <3>1, <4>1, <4>2 DEF Faithful
    <3>3. CASE out' = [out EXCEPT ![c] = Append(@, line[c])]
      <4>1. line[c] \in Replies /\ UNCHANGED got
        BY <2>0, <3>1
      <4>2. LastReply(c)' = line[c].n /\ \A d \in Conns : d # c => Sent(d)' = Sent(d)
        BY <1>0, <3>3, <4>1, SentAppend
      <4>3. line[c].n <= read[c]
        BY <2>1, <3>1 DEF FaithfulTo
      <4>4. conv'[c] = "recv"
        BY <2>0, <3>1
      <4>5. FaithfulTo(c)'
        BY <3>1, <4>2, <4>3, <4>4 DEF FaithfulTo
      <4>6. ASSUME NEW d \in Conns, d # c PROVE FaithfulTo(d)'
        <5>1. conv'[d] = conv[d] /\ line'[d] = line[d] /\ read'[d] = read[d]
          BY <2>0, <3>1, <4>6
        <5>2. QED
          BY <1>1, <4>2, <4>6, <5>1
      <4>7. QED
        BY <4>5, <4>6 DEF Faithful
    <3>4. QED
      BY <3>1, <3>2, <3>3
  <2>4. QED
    BY <1>6, <2>2, <2>3 DEF Talk
<1>7. QED
  BY <1>2, <1>3, <1>4, <1>5, <1>6, StepKinds DEF Kinds

---------------------------------------------------------------------------
(* A connection is accepted once                                           *)

\* A step that leaves the queue alone, and changes the conversation of one connection
\* that is in it already, or has just been accepted.
LEMMA FreshKept ==
    ASSUME Types, Fresh, UNCHANGED backlog,
           \A c \in Conns : phase'[c] = "new" => phase[c] = "new",
           NEW x, NEW v,
           \/ UNCHANGED conv
           \/ conv' = [conv EXCEPT ![x] = v] /\ x \in Conns /\ conv[x] # "none"
           \/ conv' = [conv EXCEPT ![x] = v] /\ x = acc /\ pc \in {"fork", "shake"},
           \/ pc' \notin {"fork", "shake"}
           \/ pc' = pc /\ acc' = acc /\ (UNCHANGED conv \/ (x \in Conns /\ conv[x] # "none"))
    PROVE  Fresh'
<1>1. /\ conv \in [Conns -> ConvStates] /\ backlog \in Seq(Conns)
      /\ \A i \in DOMAIN backlog : backlog[i] \in Conns
  BY DEF Types
<1>2. /\ \A i \in DOMAIN backlog : conv'[backlog[i]] = "none" /\ phase'[backlog[i]] # "new"
      /\ \A c \in Conns : phase'[c] = "new" => conv'[c] = "none"
  <2>1. CASE UNCHANGED conv
    BY <1>1, <2>1 DEF Fresh
  <2>2. CASE conv' = [conv EXCEPT ![x] = v] /\ x \in Conns /\ conv[x] # "none"
    BY <1>1, <2>2 DEF Fresh
  <2>3. CASE conv' = [conv EXCEPT ![x] = v] /\ x = acc /\ pc \in {"fork", "shake"}
    BY <1>1, <2>3 DEF Fresh
  <2>4. QED
    BY <2>1, <2>2, <2>3
<1>3. CASE pc' \notin {"fork", "shake"}
  BY <1>2, <1>3 DEF Fresh
<1>4. CASE pc' = pc /\ acc' = acc /\ UNCHANGED conv
  BY <1>2, <1>4 DEF Fresh
<1>5. CASE pc' = pc /\ acc' = acc /\ x \in Conns /\ conv[x] # "none"
  <2>1. pc \in {"fork", "shake"} => acc # x /\ conv'[acc] = "none"
    BY <1>1, <1>5 DEF Fresh
  <2>2. QED
    BY <1>2, <1>5, <2>1 DEF Fresh
<1>6. QED
  BY <1>3, <1>4, <1>5

\* A client connects once.
LEMMA FreshClient ==
    ASSUME Types, Fresh, AClient, UNCHANGED <<pc, acc>> PROVE Fresh'
<1>1. PICK c \in Conns : Client(c) /\ UNCHANGED conv
  BY DEF AClient, Others, convVars
<1>2. phase \in [Conns -> Phases] /\ backlog \in Seq(Conns)
  BY DEF Types
<1>3. CASE Connect(c)
  <2>1. phase[c] = "new" /\ phase' = [phase EXCEPT ![c] = "up"]
    BY <1>3 DEF Connect
  <2>2. \A i \in DOMAIN backlog' :
            \/ i \in DOMAIN backlog /\ backlog'[i] = backlog[i]
            \/ i = Len(backlog) + 1 /\ i \notin DOMAIN backlog /\ backlog'[i] = c
    BY <1>2, <1>3, ConnectQueues
  <2>3. conv[c] = "none" /\ \A i \in DOMAIN backlog : backlog[i] # c
    BY <2>1 DEF Fresh
  <2>4. phase'[c] # "new" /\ \A d \in Conns : d # c => phase'[d] = phase[d]
    BY <1>2, <2>1
  <2>5. \A i, j \in DOMAIN backlog' : backlog'[i] = backlog'[j] => i = j
    BY <2>2, <2>3 DEF Fresh
  <2>6. \A i \in DOMAIN backlog : backlog[i] \in Conns
    BY <1>2
  <2>7. \A i \in DOMAIN backlog' : conv'[backlog'[i]] = "none" /\ phase'[backlog'[i]] # "new"
    BY <1>1, <2>2, <2>3, <2>4, <2>6 DEF Fresh
  <2>8. \A d \in Conns : phase'[d] = "new" => conv'[d] = "none"
    BY <1>1, <2>4 DEF Fresh
  <2>9. pc' \in {"fork", "shake"} =>
            /\ acc' \in Conns /\ conv'[acc'] = "none" /\ phase'[acc'] # "new"
            /\ \A i \in DOMAIN backlog' : backlog'[i] # acc'
    BY <1>1, <2>1, <2>2, <2>4 DEF Fresh
  <2>10. QED
    BY <2>5, <2>7, <2>8, <2>9 DEF Fresh
<1>4. CASE SendLine(c) \/ ReadReply(c) \/ CloseConn(c)
  <2>1. UNCHANGED backlog /\ \A d \in Conns : phase'[d] = "new" => phase[d] = "new"
    BY <1>2, <1>4 DEF SendLine, ReadReply, CloseConn
  <2>2. QED
    BY <1>1, <2>1, FreshKept
<1>5. QED
  BY <1>1, <1>3, <1>4 DEF Client

LEMMA FreshStep5 ==
    ASSUME which = "fork", Types, Reaping, Fresh, [Next]_vars PROVE Fresh'
<1>0. /\ backlog \in Seq(Conns) /\ phase \in [Conns -> Phases] /\ conv \in [Conns -> ConvStates]
  BY DEF Types
<1> USE DEF S5!convVars, S5!clientVars
<1>1. CASE S5!Accept
  <2>1. AcceptFirst /\ acc' = Head(backlog) /\ UNCHANGED <<phase, conv>>
    BY <1>1, Same5 DEF S5!Accept, AcceptFirst
  <2>2. /\ Head(backlog) \in Conns /\ Head(backlog) = backlog[1] /\ 1 \in DOMAIN backlog
        /\ \A i \in DOMAIN backlog' :
              i + 1 \in DOMAIN backlog /\ backlog'[i] = backlog[i + 1] /\ i \in Nat \ {0}
    BY <1>0, <2>1, QueueHead
  <2>3. \A i, j \in DOMAIN backlog' : backlog'[i] = backlog'[j] => i = j
    <3>1. ASSUME NEW i \in DOMAIN backlog', NEW j \in DOMAIN backlog', backlog'[i] = backlog'[j] PROVE i = j
      <4>1. i + 1 = j + 1 /\ i \in Nat /\ j \in Nat
        BY <2>2, <3>1 DEF Fresh
      <4>2. QED
        BY <4>1
    <3>2. QED
      BY <3>1
  <2>4. \A i \in DOMAIN backlog' : backlog'[i] # acc'
    <3>1. ASSUME NEW i \in DOMAIN backlog' PROVE backlog'[i] # acc'
      <4>1. i + 1 # 1
        BY <2>2
      <4>2. QED
        BY <2>1, <2>2, <4>1 DEF Fresh
    <3>2. QED
      BY <3>1
  <2>5. QED
    BY <2>1, <2>2, <2>3, <2>4 DEF Fresh
<1>2. CASE S5!Fork
  BY <1>2, FreshKept DEF S5!Fork, S5!Begin
<1>3. CASE S5!CloseAcc
  <2>1. /\ pc' = "waitpid" /\ UNCHANGED <<conv, backlog>>
        /\ \A c \in Conns : phase'[c] = "new" => phase[c] = "new"
    BY <1>0, <1>3 DEF S5!CloseAcc, S5!HangUpOn
  <2>2. QED
    BY <2>1, FreshKept
<1>4. CASE S5!ForkFails \/ S5!Waitpid \/ S5!SigChld \/ S5!HandlerReturns
  <2>1. /\ UNCHANGED <<phase, conv, backlog>>
        /\ pc' \notin {"fork", "shake"} \/ UNCHANGED <<pc, acc>>
    BY <1>4 DEF S5!ForkFails, S5!Waitpid, S5!SigChld, S5!HandlerReturns
  <2>2. QED
    BY <2>1, FreshKept
<1>5. ASSUME NEW c \in Conns, S5!Child(c) PROVE Fresh'
  <2>1. CASE Talk(c) /\ UNCHANGED <<pc, acc>>
    <3>1. PICK v \in {"recv", "send"} : conv' = [conv EXCEPT ![c] = v]
      BY <2>1, TalkMoves
    <3>2. UNCHANGED <<phase, backlog>> /\ conv[c] # "none"
      BY <2>1, TalkMoves DEF Talk, Receive, Respond
    <3>3. QED
      BY <2>1, <3>1, <3>2, FreshKept
  <2>2. CASE Leave(c) /\ UNCHANGED <<pc, acc>>
    <3>1. conv' = [conv EXCEPT ![c] = "ended"] /\ UNCHANGED <<phase, backlog>> /\ conv[c] # "none"
      BY <2>2 DEF Leave, Over, End, clientVars
    <3>2. QED
      BY <2>2, <3>1, FreshKept
  <2>3. QED
    BY <1>5, <2>1, <2>2, Same5 DEF S5!Child, S5!Exit, S5!parentVars
<1>6. CASE AClient
  BY <1>6, FreshClient DEF AClient, Others, main
<1>7. CASE UNCHANGED vars
  BY <1>7, FreshKept DEF vars, clientVars, convVars, main
<1>8. QED
  BY <1>1, <1>2, <1>3, <1>4, <1>5, <1>6, <1>7, StepsOf DEF S5!AcceptLoop

LEMMA FreshStepSsl ==
    ASSUME which = "ssl", Types, Sequentially, Fresh, [Next]_vars PROVE Fresh'
<1>0. /\ backlog \in Seq(Conns) /\ phase \in [Conns -> Phases] /\ conv \in [Conns -> ConvStates]
      /\ which \in OneAtATime
  BY DEF Types, OneAtATime
<1>1. CASE SQ!SetUp \/ SQ!Select \/ SQ!SelectFails \/ SQ!ScanEnds \/ \E s \in SQ!Families : SQ!AcceptFails(s)
  <2>1. /\ UNCHANGED <<phase, conv, backlog>>
        /\ pc' \notin {"fork", "shake"} \/ UNCHANGED <<pc, acc>>
    BY <1>1 DEF SQ!SetUp, SQ!Select, SQ!SelectFails, SQ!ScanEnds, SQ!AcceptFails, SQ!Top, SQ!convVars,
       SQ!clientVars
  <2>2. QED
    BY <2>1, FreshKept
<1>2. CASE SQ!Serve
  <2>1. Talk(acc) /\ UNCHANGED <<pc, acc>>
    BY <1>2, SameSQ DEF SQ!Serve, SQ!seqVars
  <2>2. PICK v \in {"recv", "send"} : conv' = [conv EXCEPT ![acc] = v]
    BY <2>1, TalkMoves
  <2>3. UNCHANGED <<phase, backlog>> /\ conv[acc] # "none" /\ acc \in Conns
    BY <1>2, <2>1, TalkMoves DEF Talk, Receive, Respond, SQ!Serve, Sequentially, Holding
  <2>4. QED
    BY <2>1, <2>2, <2>3, FreshKept
<1>3. ASSUME End(acc), conv[acc] # "none", acc \in Conns, pc' \notin {"fork", "shake"} PROVE Fresh'
  <2>1. conv' = [conv EXCEPT ![acc] = "ended"] /\ UNCHANGED <<phase, backlog>>
    BY <1>3 DEF End, clientVars
  <2>2. QED
    BY <1>3, <2>1, FreshKept
<1>4. CASE SQ!Done \/ SQ!Kills
  <2>1. End(acc) /\ conv[acc] # "none" /\ pc = "serve" /\ pc' \in {SQ!Back, "killed"}
    BY <1>4, SameSQ DEF SQ!Done, SQ!Kills, Leave, Over, SigPipe
  <2>2. acc \in Conns
    BY <2>1 DEF Sequentially, Holding
  <2>3. QED
    BY <1>3, <2>1, <2>2 DEF SQ!Back
<1>5. CASE SQ!AcceptAny
  BY <1>5 DEF SQ!AcceptAny, SQ!Accept, SQ!AcceptAndClose
<1>6. CASE SS!SslAccept
  <2>1. PICK k \in DOMAIN backlog : acc' = backlog[k] /\ backlog' = Without(k)
    BY <1>0, <1>6, AcceptTakes DEF SS!SslAccept
  <2>2. UNCHANGED <<phase, conv>>
    BY <1>6 DEF SS!SslAccept, SS!convVars
  <2>3. \A i \in DOMAIN backlog' :
            \E j \in DOMAIN backlog :
                j # k /\ backlog'[i] = backlog[j] /\ j = IF i < k THEN i ELSE i + 1
    BY <1>0, <2>1, QueueRemove
  <2>4. acc' \in Conns
    BY <1>0, <2>1
  <2>5. k \in Int /\ \A i \in DOMAIN backlog' : i \in Int
    <3>1. backlog' \in Seq(Conns)
      BY <1>0, <2>1, QueueRemove
    <3>2. DOMAIN backlog = 1 .. Len(backlog) /\ DOMAIN backlog' = 1 .. Len(backlog')
      BY <1>0, <3>1, LenProperties
    <3>3. QED
      BY <3>2
  <2>6. ASSUME NEW i \in DOMAIN backlog', NEW j \in DOMAIN backlog', backlog'[i] = backlog'[j] PROVE i = j
    <3>1. (IF i < k THEN i ELSE i + 1) = (IF j < k THEN j ELSE j + 1)
      BY <2>3, <2>6 DEF Fresh
    <3>2. i \in Int /\ j \in Int
      BY <2>5
    <3>3. QED
      BY <2>5, <3>1, <3>2
  <2>7. QED
    BY <2>1, <2>2, <2>3, <2>4, <2>6 DEF Fresh
<1>7. CASE SS!Handshake
  BY <1>7, FreshKept DEF SS!Handshake, SS!Begin, SS!clientVars
<1>8. CASE SS!HandshakeFails
  <2>1. /\ pc' = "accept" /\ UNCHANGED <<conv, backlog>>
        /\ \A c \in Conns : phase'[c] = "new" => phase[c] = "new"
    BY <1>0, <1>8 DEF SS!HandshakeFails, SS!HangUpOn, SS!convVars
  <2>2. QED
    BY <2>1, FreshKept
<1>9. CASE SS!Shutdown
  BY <1>9, FreshKept DEF SS!Shutdown, SS!convVars, SS!clientVars
<1>10. CASE SS!ShutdownEnds
  <2>1. End(acc) /\ pc = "shutdown" /\ pc' = "accept"
    BY <1>10, SameSS DEF SS!ShutdownEnds
  <2>2. conv[acc] # "none" /\ acc \in Conns
    BY <2>1 DEF Sequentially, Live
  <2>3. QED
    BY <1>3, <2>1, <2>2
<1>11. CASE \E c \in Conns : SS!ClientHello(c) \/ SS!CloseNotify(c)
  <2>1. UNCHANGED <<phase, conv, backlog, pc, acc>>
    BY <1>11 DEF SS!ClientHello, SS!CloseNotify, SS!seqVars, SS!convVars, SS!clientVars
  <2>2. QED
    BY <2>1, FreshKept
<1>12. CASE AClient
  BY <1>12, FreshClient DEF AClient, Others, main
<1>13. CASE UNCHANGED vars
  BY <1>13, FreshKept DEF vars, clientVars, convVars, main
<1>14. CASE SQ!Server \/ SQ!AcceptAny
  BY <1>1, <1>2, <1>4, <1>5, <1>14 DEF SQ!Server
<1>15. QED
  BY <1>0, <1>6, <1>7, <1>8, <1>9, <1>10, <1>11, <1>12, <1>13, <1>14, StepsOf DEF SS!SslStep

---------------------------------------------------------------------------
(* The children of server5.c                                               *)

LEMMA SameCount == \A S : S5!Cardinality(S) = Cardinality(S)
  BY DEF Cardinality, S5!Cardinality

LEMMA ReapingStep ==
    ASSUME which = "fork", Types, Fresh, Reaping, [Next]_vars PROVE Reaping'
<1>0. conv \in [Conns -> ConvStates] /\ backlog \in Seq(Conns)
  BY DEF Types
<1>1. /\ IsFiniteSet(Live) /\ IsFiniteSet(zombies) /\ IsFiniteSet(Live \cup zombies)
      /\ Cardinality(Live) \in Nat /\ Cardinality(Live \cup zombies) \in Nat /\ peak \in Nat
      /\ Cardinality(Live) <= peak
      /\ Live \cap zombies = {}
  <2>1. IsFiniteSet(Live \cup zombies)
    BY FS_Union DEF Reaping
  <2>2. Live \cap zombies = {}
    BY DEF Reaping, Live
  <2>3. QED
    BY <2>1, <2>2, FS_CardinalityType DEF Reaping
<1> DEFINE Bound(l, z, p, k) == Cardinality(l \cup z) <= k + (IF p \in {"close", "waitpid"} THEN 1 ELSE 0)
           Owed(z, p, h) == /\ p \/ h => z # {}
                            /\ p /\ h => \E x, y \in z : x # y
<1>2. Bound(Live, zombies, pc, peak) /\ (~stolen => Owed(zombies, pending, handler))
  BY DEF Reaping
<1>3. ASSUME UNCHANGED conv, UNCHANGED <<peak, stolen>>,
             pc' \in {"accept", "fork", "close", "waitpid"}, acc' \in Conns \cup {NoConn},
             pc' \in {"fork", "close"} => acc' \in Conns,
             pc' \in {"close", "waitpid"} \/ pc \notin {"close", "waitpid"},
             UNCHANGED <<zombies, pending, handler>>
      PROVE  Reaping'
  <2>1. Live' = Live
    BY <1>3 DEF Live
  <2>2. Bound(Live', zombies', pc', peak')
    BY <1>1, <1>2, <1>3, <2>1
  <2>3. QED
    BY <1>1, <1>3, <2>1, <2>2 DEF Reaping
<1>4. ASSUME S5!AcceptLoop PROVE Reaping'
  <2> USE DEF S5!convVars, S5!clientVars, S5!historyVars
  <2>1. CASE S5!Accept
    <3>1. Head(backlog) \in Conns
      BY <1>0, <2>1, Same5, QueueHead DEF S5!Accept
    <3>2. QED
      BY <1>3, <2>1, <3>1 DEF S5!Accept
  <2>2. CASE S5!Fork
    <3>1. /\ pc = "fork" /\ pc' = "close" /\ conv' = [conv EXCEPT ![acc] = "recv"]
          /\ peak' = IF Cardinality(Live) = peak THEN peak + 1 ELSE peak
          /\ UNCHANGED <<acc, zombies, pending, handler, stolen>>
      <4>1. peak' = IF Cardinality(S5!Live) = peak THEN peak + 1 ELSE peak
        BY <2>2, SameCount DEF S5!Fork
      <4>2. S5!Live = Live
        BY Same5
      <4>3. peak' = IF Cardinality(Live) = peak THEN peak + 1 ELSE peak
        BY <4>1, <4>2, Zenon
      <4>4. QED
        BY <2>2, <4>3 DEF S5!Fork, S5!Begin
    <3>2. acc \in Conns /\ conv[acc] = "none"
      BY <3>1 DEF Fresh
    <3>3. Live' = Live \cup {acc} /\ acc \notin Live /\ acc \notin zombies
      BY <1>0, <3>1, <3>2 DEF Live, Reaping
    <3>4. IsFiniteSet(Live') /\ Cardinality(Live') = Cardinality(Live) + 1
      BY <1>1, <3>3, FS_AddElement
    <3>5. Live' \cup zombies = (Live \cup zombies) \cup {acc} /\ acc \notin Live \cup zombies
      BY <3>3
    <3>6. Cardinality(Live' \cup zombies) = Cardinality(Live \cup zombies) + 1
      BY <1>1, <3>5, FS_AddElement
    <3>7. peak' \in Nat /\ peak <= peak' /\ Cardinality(Live') <= peak'
      BY <1>1, <3>1, <3>4
    <3>8. Cardinality(Live \cup zombies) <= peak
      BY <1>1, <1>2, <3>1
    <3>9. Cardinality(Live' \cup zombies) <= peak' + 1
      BY <1>1, <3>6, <3>7, <3>8
    <3>10. Bound(Live', zombies', pc', peak')
      BY <3>1, <3>9
    <3>11. zombies \subseteq {c \in Conns : conv'[c] = "ended"}
      BY <1>0, <3>1, <3>3 DEF Reaping
    <3>12. QED
      BY <1>1, <3>1, <3>2, <3>4, <3>7, <3>10, <3>11 DEF Reaping
  <2>3. CASE S5!ForkFails
    <3>1. pc = "fork"
      BY <2>3 DEF S5!ForkFails
    <3>2. acc \in Conns
      BY <3>1 DEF Reaping
    <3>3. QED
      BY <1>3, <2>3, <3>1, <3>2 DEF S5!ForkFails
  <2>4. CASE S5!CloseAcc
    BY <1>3, <2>4 DEF S5!CloseAcc
  <2>5. CASE S5!Waitpid
    <3>1. /\ pc = "waitpid" /\ pc' = "accept" /\ ~handler
          /\ UNCHANGED <<conv, acc, pending, handler, peak>>
      BY <1>4, <2>5 DEF S5!Waitpid, S5!AcceptLoop
    <3>2. Live' = Live
      BY <3>1 DEF Live
    <3>3. CASE zombies = {} /\ UNCHANGED <<zombies, stolen>>
      <4>1. Live \cup zombies = Live
        BY <3>3
      <4>2. Bound(Live', zombies', pc', peak')
        BY <1>1, <3>1, <3>2, <3>3, <4>1
      <4>3. QED
        BY <1>1, <3>1, <3>2, <3>3, <4>2 DEF Reaping
    <3>4. CASE (\E z \in zombies : zombies' = zombies \ {z}) /\ stolen' = (stolen \/ pending)
      <4>1. PICK z \in zombies : zombies' = zombies \ {z}
        BY <3>4
      <4>2. Live \cup zombies' = (Live \cup zombies) \ {z} /\ z \in Live \cup zombies
        BY <1>1, <4>1
      <4>3. Cardinality(Live \cup zombies') = Cardinality(Live \cup zombies) - 1
        BY <1>1, <4>2, FS_RemoveElement
      <4>4. IsFiniteSet(zombies')
        BY <1>1, <4>1, FS_RemoveElement
      <4>5. Cardinality(Live \cup zombies) <= peak + 1
        BY <1>2, <3>1
      <4>6. Cardinality(Live \cup zombies') <= peak
        BY <1>1, <4>3, <4>5
      <4>7. Bound(Live', zombies', pc', peak')
        BY <1>1, <3>1, <3>2, <4>6
      <4>8. ~stolen' => ~pending
        BY <3>4 DEF Reaping
      <4>9. stolen' \in BOOLEAN
        BY <3>4 DEF Reaping
      <4>10. QED
        BY <1>1, <3>1, <3>2, <4>1, <4>4, <4>7, <4>8, <4>9 DEF Reaping
    <3>5. QED
      BY <2>5, <3>3, <3>4 DEF S5!Waitpid
  <2>6. QED
    BY <1>4, <2>1, <2>2, <2>3, <2>4, <2>5 DEF S5!AcceptLoop
<1>5. CASE S5!SigChld
  <2>1. /\ pending /\ ~handler /\ pending' = FALSE /\ handler' = TRUE
        /\ UNCHANGED <<conv, pc, acc, zombies, peak, stolen>>
    BY <1>5 DEF S5!SigChld, S5!convVars, S5!historyVars
  <2>2. Live' = Live
    BY <2>1 DEF Live
  <2>3. Bound(Live', zombies', pc', peak')
    BY <1>2, <2>1, <2>2
  <2>4. QED
    BY <1>1, <2>1, <2>2, <2>3 DEF Reaping
<1>6. CASE S5!HandlerReturns
  <2>1. /\ handler /\ handler' = FALSE /\ UNCHANGED <<conv, pc, acc, pending, peak, stolen>>
        /\ (\E z \in zombies : zombies' = zombies \ {z}) \/ UNCHANGED zombies
        /\ ~stolen => zombies # {}
    BY <1>2, <1>6 DEF S5!HandlerReturns, S5!HandlerReaps, S5!convVars, S5!historyVars
  <2>2. Live' = Live
    BY <2>1 DEF Live
  <2>3. zombies' \subseteq zombies /\ IsFiniteSet(zombies')
    BY <1>1, <2>1, FS_Subset
  <2>4. Cardinality(Live \cup zombies') <= Cardinality(Live \cup zombies)
        /\ Cardinality(Live \cup zombies') \in Nat
    <3>1. Live \cup zombies' \subseteq Live \cup zombies
      BY <2>3
    <3>2. QED
      BY <1>1, <3>1, FS_Subset, FS_CardinalityType
  <2>5. Bound(Live', zombies', pc', peak')
    BY <1>1, <1>2, <2>1, <2>2, <2>4
  <2>6. ~stolen => Owed(zombies', pending', handler')
    <3>1. CASE ~stolen /\ pending
      <4>1. \E x, y \in zombies : x # y
        BY <1>2, <2>1, <3>1
      <4>2. zombies' # {}
        BY <2>1, <4>1
      <4>3. QED
        BY <2>1, <4>2
    <3>2. CASE ~pending
      BY <2>1, <3>2
    <3>3. QED
      BY <3>1, <3>2
  <2>7. QED
    BY <1>1, <2>1, <2>2, <2>3, <2>5, <2>6 DEF Reaping
<1>7. ASSUME NEW c \in Conns, S5!Child(c) PROVE Reaping'
  <2>1. CASE Talk(c) /\ UNCHANGED <<pc, acc, zombies, pending, handler, peak, stolen>>
    <3>1. PICK v \in {"recv", "send"} : conv' = [conv EXCEPT ![c] = v]
      BY <2>1, TalkMoves
    <3>2. conv[c] \in {"recv", "send"}
      BY <2>1 DEF Talk, Receive, Respond
    <3>3. Live' = Live /\ {d \in Conns : conv'[d] = "ended"} = {d \in Conns : conv[d] = "ended"}
      BY <1>0, <3>1, <3>2 DEF Live
    <3>4. Bound(Live', zombies', pc', peak')
      BY <1>2, <2>1, <3>3
    <3>5. QED
      BY <1>1, <2>1, <3>3, <3>4 DEF Reaping
  <2>2. CASE S5!Exit(c)
    <3>1. /\ zombies' = zombies \cup {c} /\ pending' = TRUE
          /\ UNCHANGED <<pc, acc, handler, peak, stolen>>
          /\ conv' = [conv EXCEPT ![c] = "ended"] /\ c \in Live
      BY <2>2, Same5 DEF S5!Exit, S5!historyVars, Leave, Over, End, Live
    <3>2. Live' = Live \ {c} /\ c \notin zombies
      BY <1>0, <1>1, <3>1 DEF Live
    <3>3. IsFiniteSet(zombies') /\ IsFiniteSet(Live') /\ Cardinality(Live') = Cardinality(Live) - 1
      BY <1>1, <3>1, <3>2, FS_AddElement, FS_RemoveElement
    <3>4. Live' \cup zombies' = Live \cup zombies
      BY <3>1, <3>2
    <3>5. Bound(Live', zombies', pc', peak')
      BY <1>2, <3>1, <3>4
    <3>6. Cardinality(Live') <= peak'
      BY <1>1, <3>1, <3>3
    <3>7. zombies' \subseteq {d \in Conns : conv'[d] = "ended"}
      BY <1>0, <3>1 DEF Reaping
    <3>8. ~stolen => Owed(zombies', pending', handler')
      <4>1. zombies' # {}
        BY <3>1
      <4>2. ASSUME ~stolen, handler PROVE \E x, y \in zombies' : x # y
        <5>1. PICK x \in zombies : TRUE
          BY <1>2, <4>2
        <5>2. x # c
          BY <3>2, <5>1
        <5>3. QED
          BY <3>1, <5>1, <5>2
      <4>3. QED
        BY <3>1, <4>1, <4>2
    <3>9. QED
      BY <1>1, <3>1, <3>3, <3>5, <3>6, <3>7, <3>8 DEF Reaping
  <2>3. QED
    BY <1>7, <2>1, <2>2, Same5 DEF S5!Child, S5!parentVars, S5!historyVars
<1>8. CASE AClient \/ UNCHANGED vars
  <2>1. UNCHANGED <<conv, pc, acc, zombies, pending, handler, peak, stolen>>
    BY <1>8 DEF AClient, Others, vars, convVars, main, own5
  <2>2. QED
    BY <1>3, <2>1 DEF Reaping
<1>9. QED
  BY <1>4, <1>5, <1>6, <1>7, <1>8, StepsOf

---------------------------------------------------------------------------
(* The theorems                                                            *)

LEMMA InitIInv == Init => IInv
<1> SUFFICES ASSUME Init PROVE IInv
  OBVIOUS
<1>1. which \in Servers /\ which \in {"fork", "thread", "prefork", "prethread"} \cup OneAtATime
  BY ServersAssumption DEF Init
<1>2. /\ phase = [c \in Conns |-> "new"] /\ sent = [c \in Conns |-> 0] /\ read = [c \in Conns |-> 0]
      /\ out = [c \in Conns |-> << >>] /\ got = [c \in Conns |-> << >>] /\ backlog = << >>
      /\ conv = [c \in Conns |-> "none"] /\ line = [c \in Conns |-> NoLine]
  <2> USE DEF Init, S5!NoLine, S6!NoLine, S7!NoLine, S8!NoLine, SQ!NoLine, NoLine
  <2>1. CASE which = "fork"
    BY <2>1 DEF S5!Init, S5!ConvInit, S5!ClientInit
  <2>2. CASE which = "thread"
    BY <2>2 DEF S6!Init, S6!ConvInit, S6!ClientInit
  <2>3. CASE which = "prefork"
    BY <2>3 DEF S7!Init, S7!PoolInit, S7!ConvInit, S7!ClientInit
  <2>4. CASE which = "prethread"
    BY <2>4 DEF S8!Init, S8!PoolInit, S8!ConvInit, S8!ClientInit
  <2>5. CASE which \in OneAtATime
    BY <2>5 DEF SQ!Init, SQ!ConvInit, SQ!ClientInit
  <2>6. QED
    BY <1>1, <2>1, <2>2, <2>3, <2>4, <2>5
<1>3. << >> \in Seq(Conns) /\ << >> \in Seq(Replies) /\ DOMAIN << >> = {} /\ 0 \in 0 .. MaxLines
  BY ClientAssumption
<1>4. Types
  BY <1>1, <1>2, <1>3, NoLineIsReply DEF Types, Counts, Streams, Phases, ConvStates
<1>5. Faithful
  <2>1. ASSUME NEW c \in Conns PROVE FaithfulTo(c)
    <3>1. Sent(c) = << >>
      BY <1>2 DEF Sent
    <3>2. conv[c] = "none" /\ read[c] = 0
      BY <1>2
    <3>3. QED
      BY <3>1, <3>2 DEF FaithfulTo, LastReply
  <2>2. QED
    BY <2>1 DEF Faithful
<1>6. Live = {}
  BY <1>2 DEF Live
<1>7. ASSUME which = "prefork" PROVE Prefork
  BY <1>7, WorkerAssumption DEF Init, S7!Init, S7!PoolInit, Prefork, S7!LockIsForAccept
<1>8. ASSUME which = "prethread" PROVE Prethread
  BY <1>8, WorkerAssumption DEF Init, S8!Init, S8!PoolInit, Prethread, S8!LockIsForAccept, S8!MarkIsOwner
<1>9. ASSUME which = "thread" PROVE Threads
  BY <1>9 DEF Init, S6!Init, Threads
<1>10. ASSUME which \in {"fork", "ssl"} PROVE Fresh
  <2>1. pc \in {"accept", "setup", "start"}
    BY <1>10 DEF Init, S5!Init, SQ!Init, OneAtATime
  <2>2. DOMAIN backlog = {}
    BY <1>2
  <2>3. QED
    BY <1>2, <2>1, <2>2 DEF Fresh
<1>11. ASSUME which = "fork" PROVE Reaping
  <2>1. /\ pc = "accept" /\ acc = NoConn /\ zombies = {} /\ pending = FALSE /\ handler = FALSE
        /\ peak = 0 /\ stolen = FALSE
    BY <1>11 DEF Init, S5!Init
  <2>2. Live \cup zombies = {}
    BY <1>6, <2>1
  <2>3. IsFiniteSet({}) /\ Cardinality({}) = 0
    BY FS_EmptySet
  <2>4. IsFiniteSet(Live) /\ Cardinality(Live) = 0 /\ Cardinality(Live \cup zombies) = 0
    BY <1>6, <2>2, <2>3
  <2>5. Cardinality(Live) <= peak /\ Cardinality(Live \cup zombies) <= peak + 0
    BY <2>1, <2>4
  <2>6. QED
    BY <2>1, <2>3, <2>4, <2>5 DEF Reaping
<1>12. ASSUME which \in OneAtATime PROVE Sequentially
  <2>1. /\ pc = (IF which = "re-exec" THEN "start" ELSE "setup") /\ acc = NoConn
        /\ listening = {} /\ mask = {}
    BY <1>12 DEF Init, SQ!Init
  <2>2. QED
    BY <1>2, <1>6, <2>1 DEF Sequentially, Holding
<1>13. QED
  BY <1>4, <1>5, <1>7, <1>8, <1>9, <1>10, <1>11, <1>12 DEF IInv, OneAtATime

LEMMA StepIInv == IInv /\ [Next]_vars => IInv'
<1> SUFFICES ASSUME IInv, [Next]_vars PROVE IInv'
  OBVIOUS
<1>1. Types' /\ Faithful' /\ which' = which
  BY TypesStep, FaithfulStep, StepsOf
<1>2. /\ which = "prefork" => Prefork'
      /\ which = "prethread" => Prethread'
      /\ which \in OneAtATime => Sequentially'
      /\ which = "thread" => Threads'
  BY PreforkStep, PrethreadStep, SequentialStep, KindsOf6 DEF IInv
<1>3. which = "fork" => Fresh' /\ Reaping'
  BY FreshStep5, ReapingStep DEF IInv
<1>4. which = "ssl" => Fresh'
  BY FreshStepSsl DEF IInv, OneAtATime
<1>5. QED
  BY <1>1, <1>2, <1>3, <1>4 DEF IInv

\* The invariant on which the theorems below rest.
THEOREM InductiveInvariant == Spec => []IInv
<1>1. Init => IInv
  BY InitIInv
<1>2. IInv /\ [Next]_vars => IInv'
  BY StepIInv
<1>3. QED
  BY <1>1, <1>2, PTL DEF Spec

\* server7.c and server8.c: for any number of workers, the lock is held by the one that
\* is on its way through accept() and by nobody in a conversation, and the mark main()
\* reads without the mutex is the owner's or none.
THEOREM LockCorrect == Spec => []LockIsForAccept
<1>1. IInv => LockIsForAccept
  <2> SUFFICES ASSUME IInv PROVE LockIsForAccept
    OBVIOUS
  <2>1. /\ conv \in [Conns -> ConvStates] /\ line \in [Conns -> Replies]
        /\ \A c \in Conns : read[c] <= sent[c]
    BY DEF IInv, Types
  <2>2. ASSUME which = "prefork" PROVE S7!TypeOK /\ S7!LockIsForAccept
    BY <2>1, <2>2 DEF IInv, Prefork, S7!TypeOK, S7!PoolTypeOK, S7!ConvTypeOK, ConvStates, Replies, S7!Replies
  <2>3. ASSUME which = "prethread" PROVE S8!TypeOK /\ S8!LockIsForAccept /\ S8!MarkIsOwner
    BY <2>1, <2>3 DEF IInv, Prethread, S8!TypeOK, S8!PoolTypeOK, S8!ConvTypeOK, ConvStates, Replies, S8!Replies
  <2>4. QED
    BY <2>2, <2>3 DEF LockIsForAccept
<1>2. QED
  BY <1>1, InductiveInvariant, PTL

\* server5.c: for any number of connections, the children that nobody has waited for
\* stay bounded although SIGCHLDs are lost, and the handler's wait() holds up the accept
\* loop only after waitpid() has taken a child whose SIGCHLD was still to be handled.
THEOREM ReapedCorrect == Spec => []ChildrenAreReaped
<1>1. IInv => ChildrenAreReaped
  <2> SUFFICES ASSUME IInv PROVE ChildrenAreReaped
    OBVIOUS
  <2>1. /\ conv \in [Conns -> ConvStates] /\ line \in [Conns -> Replies]
        /\ \A c \in Conns : read[c] <= sent[c]
    BY DEF IInv, Types
  <2>2. ASSUME which = "fork" PROVE S5!TypeOK /\ S5!ProcessTableBounded /\ S5!StuckOnlyAfterRace
    <3>1. Reaping
      BY <2>2 DEF IInv
    <3>2. S5!TypeOK
      BY <2>1, <3>1 DEF Reaping, S5!TypeOK, S5!ConvTypeOK, ConvStates, Replies, S5!Replies
    <3>3. S5!ProcessTableBounded
      <4>1. S5!Live = Live
        BY Same5
      <4>2. Cardinality(Live \cup zombies) <= peak + (IF pc \in {"close", "waitpid"} THEN 1 ELSE 0)
        BY <3>1 DEF Reaping
      <4>3. QED
        BY <4>1, <4>2, SameCount DEF S5!ProcessTableBounded
    <3>4. S5!StuckOnlyAfterRace
      BY <3>1 DEF Reaping, S5!StuckOnlyAfterRace, S5!HandlerStuck
    <3>5. QED
      BY <3>2, <3>3, <3>4
  <2>3. ASSUME which = "thread" PROVE S6!TypeOK
    BY <2>1, <2>3 DEF IInv, Threads, S6!TypeOK, S6!ConvTypeOK, ConvStates, Replies, S6!Replies
  <2>4. QED
    BY <2>2, <2>3 DEF ChildrenAreReaped
<1>2. QED
  BY <1>1, InductiveInvariant, PTL

\* The sequential servers: nobody but the connection in acc is in conversation, and the
\* accept() that follows a select() which has not failed finds a connection, however
\* long the conversation between the two.
THEOREM OneAtATimeCorrect == Spec => []OneAtATimeAndReady
<1>1. IInv => OneAtATimeAndReady
  <2> SUFFICES ASSUME IInv, which \in OneAtATime PROVE SQ!TypeOK /\ SQ!AcceptIsReady /\ SQ!OneConversation
    BY DEF OneAtATimeAndReady
  <2>1. /\ conv \in [Conns -> ConvStates] /\ line \in [Conns -> Replies]
        /\ \A c \in Conns : read[c] <= sent[c]
    BY DEF IInv, Types
  <2>2. Sequentially
    BY DEF IInv
  <2>3. SQ!TypeOK
    BY <2>1, <2>2 DEF Sequentially, SQ!TypeOK, SQ!ConvTypeOK, ConvStates, Replies, SQ!Replies
  <2>4. SQ!AcceptIsReady /\ SQ!OneConversation
    BY <2>2, SameSQ DEF Sequentially, SQ!AcceptIsReady, SQ!OneConversation
  <2>5. QED
    BY <2>3, <2>4
<1>2. QED
  BY <1>1, InductiveInvariant, PTL

---------------------------------------------------------------------------
(* The echo service                                                        *)

\* A step that leaves the lines, the answers and the connections as they are.
LEMMA StutterStep ==
    ASSUME UNCHANGED <<phase, sent>>, \A c \in Conns : Sent(c)' = Sent(c)
    PROVE  UNCHANGED Service!evars
<1>1. [c \in Conns |-> Sent(c)]' = [c \in Conns |-> Sent(c)]
  OBVIOUS
<1>2. QED
  BY <1>1 DEF Service!evars

\* What is sent is an answer of the service.
LEMMA AnswerStep ==
    ASSUME IInv, NEW c \in Conns, Talk(c)
    PROVE  Service!Answer(c) \/ UNCHANGED Service!evars
<1>1. Types /\ FaithfulTo(c)
  BY DEF IInv, Faithful
<1>2. UNCHANGED <<phase, sent, got>>
  BY TalkMoves
<1>3. CASE Receive(c)
  BY <1>2, <1>3, StutterStep DEF Receive, Sent
<1>4. CASE Respond(c) /\ UNCHANGED out
  BY <1>2, <1>4, StutterStep DEF Sent
<1>5. CASE Respond(c) /\ phase[c] = "up" /\ out' = [out EXCEPT ![c] = Append(@, line[c])]
  <2>1. conv[c] = "send"
    BY <1>5 DEF Respond
  <2>2. /\ line[c] = [conn |-> c, n |-> line[c].n, ok |-> TRUE]
        /\ line[c].n \in Nat /\ LastReply(c) < line[c].n /\ line[c].n <= read[c]
    BY <1>1, <2>1 DEF FaithfulTo
  <2>3. /\ line[c] \in Replies /\ read[c] \in Nat /\ sent[c] \in Nat /\ read[c] <= sent[c]
    BY <1>1, ClientAssumption DEF Types, Counts
  <2>4. /\ Sent(c)' = Append(Sent(c), line[c])
        /\ \A d \in Conns : d # c => Sent(d)' = Sent(d)
    BY <1>1, <1>2, <1>5, <2>3, SentAppend
  <2>5. LastReply(c) \in Nat
    BY <1>1, SentTypes
  <2> DEFINE n == line[c].n
             answers == [d \in Conns |-> Sent(d)]
  <2>6. n \in (LastReply(c) + 1) .. sent[c]
    BY <2>2, <2>3, <2>5
  <2>7. answers[c] = Sent(c) /\ Service!LastAnswered(c) = LastReply(c)
    BY DEF Service!LastAnswered, LastReply
  <2>8. line[c] = Service!Echo(c, n)
    BY <2>2 DEF Service!Echo
  <2>9. answers' = [answers EXCEPT ![c] = Append(@, Service!Echo(c, n))]
    BY <2>4, <2>8
  <2>10. QED
    BY <1>2, <1>5, <2>6, <2>7, <2>9 DEF Service!Answer
<1>6. QED
  <2>1. Respond(c) => \/ UNCHANGED out
                      \/ phase[c] = "up" /\ out' = [out EXCEPT ![c] = Append(@, line[c])]
    BY DEF Respond, Deliver
  <2>2. QED
    BY <1>3, <1>4, <1>5, <2>1 DEF Talk

\* What a client does is what a client of the service does.
LEMMA ClientIsClient ==
    ASSUME Types, NEW c \in Conns, Client(c)
    PROVE  Service!Open(c) \/ Service!Ask(c) \/ Service!Leave(c) \/ UNCHANGED Service!evars
<1>1. CASE ReadReply(c)
  <2>1. \A d \in Conns : Sent(d)' = Sent(d)
    BY <1>1, SentRead
  <2>2. QED
    BY <1>1, <2>1, StutterStep DEF ReadReply
<1>2. CASE Connect(c) \/ SendLine(c) \/ CloseConn(c)
  <2>1. UNCHANGED <<out, got>>
    BY <1>2 DEF Connect, SendLine, CloseConn
  <2>2. [d \in Conns |-> Sent(d)]' = [d \in Conns |-> Sent(d)]
    BY <2>1 DEF Sent
  <2>3. QED
    BY <1>2, <2>2 DEF Connect, SendLine, CloseConn, Service!Open, Service!Ask, Service!Leave
<1>3. QED
  BY <1>1, <1>2 DEF Client

\* Every server of Servers but re-exec.c, which closes connections in the middle of a
\* conversation, answers as the echo service does: lines of the client that sent them,
\* at most once, in the order of sending, and it hangs up on nobody it has answered.
THEOREM EchoCorrect == ASSUME "re-exec" \notin Servers PROVE Spec => EchoRefined
<1>1. Init => Service!EInit
  <2> SUFFICES ASSUME Init PROVE Service!EInit
    OBVIOUS
  <2>1. /\ which \in {"fork", "thread", "prefork", "prethread"} \cup OneAtATime
    BY ServersAssumption DEF Init
  <2>2. /\ phase = [c \in Conns |-> "new"] /\ sent = [c \in Conns |-> 0]
        /\ out = [c \in Conns |-> << >>] /\ got = [c \in Conns |-> << >>]
    <3>1. CASE which = "fork"
      BY <3>1 DEF Init, S5!Init, S5!ConvInit, S5!ClientInit
    <3>2. CASE which = "thread"
      BY <3>2 DEF Init, S6!Init, S6!ConvInit, S6!ClientInit
    <3>3. CASE which = "prefork"
      BY <3>3 DEF Init, S7!Init, S7!PoolInit, S7!ConvInit, S7!ClientInit
    <3>4. CASE which = "prethread"
      BY <3>4 DEF Init, S8!Init, S8!PoolInit, S8!ConvInit, S8!ClientInit
    <3>5. CASE which \in OneAtATime
      BY <3>5 DEF Init, SQ!Init, SQ!ConvInit, SQ!ClientInit
    <3>6. QED
      BY <2>1, <3>1, <3>2, <3>3, <3>4, <3>5
  <2>3. ASSUME NEW c \in Conns PROVE Sent(c) = << >>
    BY <2>2 DEF Sent
  <2>4. QED
    BY <2>2, <2>3 DEF Service!EInit
<1>2. IInv /\ [Next]_vars => [Service!ENext]_Service!evars
  <2> SUFFICES ASSUME IInv, [Next]_vars PROVE Service!ENext \/ UNCHANGED Service!evars
    OBVIOUS
  <2>0. Types /\ Kinds /\ which # "re-exec"
    BY StepKinds DEF IInv, Types
  <2>1. CASE Settles
    BY <2>1, StutterStep DEF Settles, Sent
  <2>2. ASSUME NEW c \in Conns, Talk(c) PROVE Service!ENext \/ UNCHANGED Service!evars
    BY <2>2, AnswerStep DEF Service!ENext
  <2>3. ASSUME NEW c \in Conns, Client(c) PROVE Service!ENext \/ UNCHANGED Service!evars
    BY <2>0, <2>3, ClientIsClient DEF Service!ENext
  <2>4. ASSUME NEW c \in Conns, Dismisses(c) PROVE Service!ENext \/ UNCHANGED Service!evars
    <3>1. /\ conv[c] = "none" /\ UNCHANGED <<sent, out, got>> /\ phase \in [Conns -> Phases]
          /\ phase' = [phase EXCEPT ![c] = IF @ = "up" THEN "hungup" ELSE @]
      BY <2>0, <2>4 DEF Dismisses, HangUpOn, Types
    <3>2. Sent(c) = << >>
      BY <3>1 DEF IInv, Faithful, FaithfulTo
    <3>3. \A d \in Conns : Sent(d)' = Sent(d)
      BY <3>1 DEF Sent
    <3>4. [d \in Conns |-> Sent(d)]' = [d \in Conns |-> Sent(d)]
      BY <3>3
    <3>5. CASE phase[c] = "up"
      BY <3>1, <3>2, <3>4, <3>5 DEF Service!ENext, Service!TurnAway
    <3>6. CASE phase[c] # "up"
      BY <3>1, <3>3, <3>6, StutterStep
    <3>7. QED
      BY <3>5, <3>6
  <2>5. QED
    BY <2>0, <2>1, <2>2, <2>3, <2>4 DEF Kinds
<1>3. QED
  BY <1>1, <1>2, InductiveInvariant, PTL DEF Spec, EchoRefined, Service!ESpec
=============================================================================
