--------------------------- MODULE DatagramsProofs ---------------------------
(***************************************************************************)
(* Proofs about the UDP programs, for any number of clients, servers,      *)
(* lines and faults and any assignment of ports and hosts: a client is     *)
(* shown answers to its own lines, each once unless the network delivers   *)
(* something twice, and with as many ":OK" as there were failures and one. *)
(***************************************************************************)
EXTENDS Datagrams, TLAPS

Texts == [line : Clients \X (Nat \ {0}), oks : Nat]

\* Types, of what TypeOK leaves out as well.
Types ==
    /\ TypeOK
    /\ shown \in [Clients -> SUBSET (Nodes \X Texts)]
    /\ buf \in [Servers -> Texts \cup {[line |-> <<>>, oks |-> 0]}]
    /\ \A s \in Servers : from[s] # Nobody => buf[s] \in Texts
    /\ dups \in Nat /\ errors \in Nat
    /\ \A u \in Clients : pc[u] = "send" => taken[u] >= 1

\* x may hear an answer to a line of client v.
Own(v, x) == v = x \/ (mode = "broadcast" /\ Port[v] = Port[x])

\* A client sends its own lines, to servers; and the address beside a server's buffer is
\* one from which the line in it can have come.
OwnInv ==
    /\ \A d \in net :
           /\ d.src \in Clients => d.dst \in Servers /\ d.text.line[1] = d.src /\ d.text.oks = 0
           /\ d.src \in Servers => Own(d.text.line[1], d.dst)
    /\ \A s \in Servers : from[s] # Nobody => Own(buf[s].line[1], from[s])
    /\ AnswersAreOwn

\* Where the servers do not hear each other, what they answer are clients' lines.
ApartInv ==
    ServersApart =>
        /\ \A d \in net : d.dst \in Servers => d.src \in Clients
        /\ \A s \in Servers : from[s] \in Clients \cup {Nobody} /\ buf[s].oks <= 1 + errors
        /\ \A d \in net : d.text.oks <= 1 + errors

\* The line has been sent, or left out.
Past(line) ==
    LET u == line[1]
        n == line[2] IN
    n < taken[u] \/ (n = taken[u] /\ pc[u] # "send")

\* The line is on its way to server s; s has given the text as an answer.
Asked(s, line) == \E d \in net : d.dst = s /\ d.src \in Clients /\ d.text.line = line
Said(s, text) ==
    \/ \E d \in net : d.src = s /\ d.text = text
    \/ \E u \in Clients : <<s, text>> \in shown[u]

\* As long as nothing has come twice, a server is asked each line once: what it has
\* answered to and what it holds is not on its way to it, and of the line it holds it has
\* given no answer as long as the next one.
Once(s) ==
    /\ from[s] # Nobody => Past(buf[s].line) /\ ~Asked(s, buf[s].line)
    /\ \A text \in Texts :
           Said(s, text) => /\ Past(text.line) /\ ~Asked(s, text.line)
                            /\ text.line = buf[s].line => text.oks <= buf[s].oks
OnceInv ==
    ServersApart /\ dups = 0 =>
        /\ ~twice
        /\ \A d \in net : Past(d.text.line)
        /\ \A s \in Servers : Once(s)
        /\ \A d \in net : d.dst \in Clients => <<d.src, d.text>> \notin shown[d.dst]

IInv == Types /\ OwnInv /\ ApartInv /\ OnceInv

---------------------------------------------------------------------------
(* The clients' loops                                                      *)

LEMMA Constants == Home \in Servers /\ Targets \subseteq Servers /\ Nobody \notin Nodes
                   /\ Clients \cap Servers = {}
<1>1. \E s \in Servers : TRUE
  BY DatagramAssumption
<1>2. Home \in Servers
  BY <1>1 DEF Home
<1> QED  BY <1>2, DatagramAssumption DEF Targets

\* What a client's step does to its own place and counts.
LoopMove(u) ==
    /\ UNCHANGED <<typed, partial, closed>>
    /\ \E p \in Places : pc' = [pc EXCEPT ![u] = p]
    /\ ready' \in [Clients -> SUBSET {"soc", "stdin"}]
    /\ \/ UNCHANGED <<buffered, taken>> /\ pc'[u] # "send"
       \/ /\ pc[u] = "stdin"
          /\ buffered' \in [Clients -> Nat] /\ \A v \in Clients : buffered'[v] <= typed[v]
          /\ \/ taken' = taken /\ pc'[u] # "send"
             \/ taken' = [taken EXCEPT ![u] = @ + 1]
          /\ \A v \in Clients : taken'[v] <= buffered'[v]

LEMMA FgetsMoves ==
  ASSUME Types, NEW u \in Clients, Fgets(u), UNCHANGED inputVars
  PROVE  LoopMove(u)
<1>1. /\ typed \in [Clients -> Nat] /\ buffered \in [Clients -> Nat] /\ taken \in [Clients -> Nat]
      /\ \A v \in Clients : buffered[v] <= typed[v] /\ taken[v] <= buffered[v]
      /\ ready \in [Clients -> SUBSET {"soc", "stdin"}]
  BY DEF Types, TypeOK, LoopTypeOK
<1>2. UNCHANGED <<typed, partial, closed, ready>> /\ pc[u] = "stdin" /\ taken[u] < typed[u]
  BY DEF Fgets, inputVars
<1>3. \E p \in {"more", "send"} : pc' = [pc EXCEPT ![u] = p]
  BY DEF Fgets, Goto
<1>4. \/ taken' = taken /\ pc' = [pc EXCEPT ![u] = "more"]
      \/ taken' = [taken EXCEPT ![u] = @ + 1]
  BY DEF Fgets, Goto
<1>5. \/ taken[u] < buffered[u] /\ buffered' = buffered
      \/ \E k \in buffered[u] + 1 .. typed[u] : buffered' = [buffered EXCEPT ![u] = k]
  BY DEF Fgets
<1>6. /\ buffered' \in [Clients -> Nat] /\ \A v \in Clients : buffered'[v] <= typed[v]
      /\ \A v \in Clients : buffered[v] <= buffered'[v] /\ taken[u] < buffered'[u]
  <2>1. CASE taken[u] < buffered[u] /\ buffered' = buffered
    BY <1>1, <2>1
  <2>2. CASE ~(taken[u] < buffered[u] /\ buffered' = buffered)
    <3>1. PICK k \in buffered[u] + 1 .. typed[u] : buffered' = [buffered EXCEPT ![u] = k]
      BY <1>5, <2>2
    <3>2. k \in Nat /\ k > buffered[u] /\ k <= typed[u]
      BY <1>1, <3>1
    <3> QED  BY <1>1, <3>1, <3>2
  <2> QED  BY <2>1, <2>2
<1>7. \A v \in Clients : taken'[v] <= buffered'[v]
  BY <1>1, <1>4, <1>6
<1>8. pc' = [pc EXCEPT ![u] = "more"] => pc'[u] # "send"
  BY DEF Types, TypeOK, LoopTypeOK
<1> QED
  BY <1>1, <1>2, <1>3, <1>4, <1>6, <1>7, <1>8 DEF LoopMove, Places

LEMMA MoveKeeps ==
  ASSUME Types, NEW u \in Clients, LoopMove(u)
  PROVE  /\ LoopTypeOK'
         /\ \A v \in Clients : pc'[v] = "send" => taken'[v] >= 1
         /\ \A line \in Clients \X Nat : Past(line) => Past(line)'
<1>1. /\ typed \in [Clients -> Nat] /\ buffered \in [Clients -> Nat] /\ taken \in [Clients -> Nat]
      /\ \A v \in Clients : buffered[v] <= typed[v] /\ taken[v] <= buffered[v] /\ typed[v] <= MaxTyped[v]
      /\ partial \in [Clients -> BOOLEAN] /\ closed \in [Clients -> BOOLEAN]
      /\ pc \in [Clients -> Places]
      /\ \A v \in Clients : pc[v] = "send" => taken[v] >= 1
  BY DEF Types, TypeOK, LoopTypeOK
<1>2. UNCHANGED <<typed, partial, closed>> /\ ready' \in [Clients -> SUBSET {"soc", "stdin"}]
  BY DEF LoopMove
<1>3. PICK p \in Places : pc' = [pc EXCEPT ![u] = p]
  BY DEF LoopMove
<1>4. pc' \in [Clients -> Places] /\ pc'[u] = p /\ \A v \in Clients \ {u} : pc'[v] = pc[v]
  BY <1>1, <1>3
<1>5. /\ buffered' \in [Clients -> Nat] /\ \A v \in Clients : buffered'[v] <= typed[v]
      /\ \A v \in Clients : taken'[v] <= buffered'[v]
  BY <1>1 DEF LoopMove
<1>6. \/ taken' = taken /\ pc'[u] # "send"
      \/ taken' = [taken EXCEPT ![u] = @ + 1]
  BY DEF LoopMove
<1>7. taken' \in [Clients -> Nat] /\ \A v \in Clients : taken'[v] = taken[v] \/ taken'[v] = taken[v] + 1
  BY <1>1, <1>6
<1>8. LoopTypeOK'
  BY <1>1, <1>2, <1>4, <1>5, <1>7 DEF LoopTypeOK
<1>9. ASSUME NEW v \in Clients, pc'[v] = "send" PROVE taken'[v] >= 1
  BY <1>1, <1>4, <1>6, <1>9
<1>10. ASSUME NEW line \in Clients \X Nat, Past(line) PROVE Past(line)'
  <2>1. line[1] \in Clients /\ line[2] \in Nat
    OBVIOUS
  <2>2. PICK v, n : v = line[1] /\ n = line[2]
    OBVIOUS
  <2>3. n < taken[v] \/ (n = taken[v] /\ pc[v] # "send")
    BY <1>10, <2>2 DEF Past
  <2>4. n < taken'[v] \/ (n = taken'[v] /\ pc'[v] # "send")
    BY <1>1, <1>4, <1>6, <1>7, <2>1, <2>2, <2>3
  <2> QED  BY <2>2, <2>4 DEF Past
<1> QED  BY <1>8, <1>9, <1>10

---------------------------------------------------------------------------
(* The steps                                                               *)

\* Nothing is sent, received or shown; datagrams may be lost, and calls may fail.
Quiet ==
    /\ net' \subseteq net
    /\ ended' \subseteq Servers /\ refused' = refused
    /\ UNCHANGED <<how, mode, knows, buf, from, shown, twice, dups>>
    /\ errors' \in {errors, errors + 1}

\* What the clients' part of a step is, whatever else happens.
LoopStays == UNCHANGED <<typed, partial, closed, buffered, taken, pc, ready>>
LoopGoes == LoopStays \/ \E u \in Clients : LoopMove(u)

LEMMA PlaceMoves ==
  ASSUME Types, NEW u \in Clients, NEW p \in Places \ {"send"}, Goto(u, p),
         UNCHANGED <<typed, partial, closed, buffered, taken>>,
         ready' \in [Clients -> SUBSET {"soc", "stdin"}]
  PROVE  LoopMove(u)
<1>1. pc' = [pc EXCEPT ![u] = p] /\ pc'[u] # "send"
  BY DEF Types, TypeOK, LoopTypeOK, Goto
<1> QED  BY <1>1 DEF LoopMove

LEMMA ClientSteps ==
  ASSUME Types, NEW u \in Clients, Client(u) \/ SkipLine(u) \/ SocFails(u)
  PROVE  (Quiet /\ LoopGoes) \/ Receive(u) \/ Send(u)
<1>0. ready \in [Clients -> SUBSET {"soc", "stdin"}] /\ ended \subseteq Servers
  BY DEF Types, TypeOK, LoopTypeOK
<1>1. ASSUME Wait(u) PROVE Quiet /\ LoopGoes
  <2>1. /\ UNCHANGED <<typed, partial, closed, buffered, taken>>
        /\ ready' \in [Clients -> SUBSET {"soc", "stdin"}]
        /\ Goto(u, "soc") \/ Goto(u, "stdin")
    BY <1>0, <1>1 DEF Wait, Select, inputVars
  <2>2. LoopMove(u)
    BY <2>1, PlaceMoves DEF Places
  <2> QED  BY <1>0, <1>1, <2>2 DEF Wait, Quiet, LoopGoes, fixed, serverVars, clientVars
<1>2. ASSUME ReadLine(u) PROVE Quiet /\ LoopGoes
  <2>1. CASE Fgets(u)
    BY <1>0, <1>2, <2>1, FgetsMoves DEF ReadLine, Quiet, LoopGoes, fixed, serverVars, clientVars
  <2>2. CASE EndOfInput(u)
    <3>1. LoopMove(u)
      BY <1>0, <1>2, <2>2, PlaceMoves DEF ReadLine, EndOfInput, inputVars, Places
    <3> QED  BY <1>0, <1>2, <3>1 DEF ReadLine, Quiet, LoopGoes, fixed, serverVars, clientVars
  <2> QED  BY <1>2, <2>1, <2>2 DEF ReadLine
<1>3. ASSUME SkipLine(u) PROVE Quiet /\ LoopGoes
  <2>1. LoopMove(u)
    BY <1>0, <1>3, PlaceMoves DEF SkipLine, inputVars, Places
  <2> QED  BY <1>0, <1>3, <2>1 DEF SkipLine, Fails, Quiet, LoopGoes, fixed, serverVars, clientVars
<1>4. ASSUME SocFails(u) PROVE Quiet /\ LoopGoes
  <2>1. LoopMove(u)
    BY <1>0, <1>4, PlaceMoves DEF SocFails, inputVars, Places
  <2> QED  BY <1>0, <1>4, <2>1 DEF SocFails, Fails, Quiet, LoopGoes, fixed, serverVars, clientVars
<1> QED
  BY <1>1, <1>2, <1>3, <1>4 DEF Client, SendToOne, SendToAll, SendConnected, Loop

\* Every step is quiet, or is one of four.
LEMMA Steps ==
  ASSUME Types, [Next]_vars
  PROVE  \/ Quiet /\ LoopGoes
         \/ \E s \in Servers : Serve(s) \/ ServeAgain(s)
         \/ \E u \in Clients : Receive(u) \/ Send(u)
<1>0. ended \subseteq Servers
  BY DEF Types, TypeOK
<1>1. CASE Lose
  BY <1>0, <1>1 DEF Lose, Quiet, LoopGoes, LoopStays, inputVars, loopVars, fixed, serverVars, clientVars
<1>2. CASE \E s \in Servers : ServerEnds(s)
  BY <1>0, <1>2 DEF ServerEnds, Fails, Quiet, LoopGoes, LoopStays, inputVars, loopVars, fixed, clientVars
<1>3. CASE UNCHANGED vars
  BY <1>0, <1>3 DEF vars, Quiet, LoopGoes, LoopStays, inputVars, loopVars, fixed, serverVars, clientVars
<1> QED
  BY <1>1, <1>2, <1>3, ClientSteps DEF Next

\* After any step the clients' loops have their types, and what was past is past.
LEMMA GoesOn ==
  ASSUME Types, LoopGoes
  PROVE  /\ LoopTypeOK'
         /\ \A v \in Clients : pc'[v] = "send" => taken'[v] >= 1
         /\ \A line \in Clients \X Nat : Past(line) => Past(line)'
<1>1. CASE LoopStays
  BY <1>1 DEF LoopStays, Types, TypeOK, LoopTypeOK, Past
<1>2. CASE \E u \in Clients : LoopMove(u)
  BY <1>2, MoveKeeps
<1> QED  BY <1>1, <1>2 DEF LoopGoes

\* Serve(s) takes a line that was on its way to s, and holds it or answers it.
Answers(s, x) == {Datagram(s, y, buf'[s]) : y \in Hearers(x)}
Takes(s, d) ==
    /\ d \in net /\ d.dst = s
    /\ net' \subseteq net \cup Answers(s, d.src)
    /\ d \in net' => d \in Answers(s, d.src) \/ dups' > 0
    /\ from' = [from EXCEPT ![s] = d.src]
    /\ \/ buf' = [buf EXCEPT ![s] = d.text] /\ net' \subseteq net
       \/ buf' = [buf EXCEPT ![s] = [d.text EXCEPT !.oks = @ + 1]]

LEMMA ServeTakes ==
  ASSUME Types, NEW s \in Servers, Serve(s)
  PROVE  /\ \E d \in net : Takes(s, d)
         /\ LoopStays
         /\ UNCHANGED <<how, mode, knows, ended, shown, twice, refused, errors>>
         /\ dups' \in {dups, dups + 1}
<1>d. PICK d \in For(s) : \E rest \in Rests(d) :
           /\ Comes(d, rest)
           /\ from' = [from EXCEPT ![s] = d.src]
           /\ IF FromOneself(s, d.src)
              THEN buf' = [buf EXCEPT ![s] = d.text] /\ net' = rest
              ELSE Answer(s, d.src, d.text, rest)
  BY DEF Serve
<1>1. PICK rest \in Rests(d) :
           /\ Comes(d, rest)
           /\ from' = [from EXCEPT ![s] = d.src]
           /\ IF FromOneself(s, d.src)
              THEN buf' = [buf EXCEPT ![s] = d.text] /\ net' = rest
              ELSE Answer(s, d.src, d.text, rest)
  BY <1>d
<1>2. d \in net /\ d.dst = s
  BY DEF For
<1>3. /\ rest = net \ {d} \/ rest = net
      /\ rest = net \ {d} \/ dups' > 0
      /\ dups' \in {dups, dups + 1}
  BY <1>1 DEF Comes, Types
<1>4. Takes(s, d)
  <2>1. CASE FromOneself(s, d.src)
    <3>1. buf' = [buf EXCEPT ![s] = d.text] /\ net' = rest
      BY <1>1, <2>1
    <3> QED  BY <1>1, <1>2, <1>3, <3>1 DEF Takes
  <2>2. CASE ~FromOneself(s, d.src)
    <3>1. /\ buf' = [buf EXCEPT ![s] = [d.text EXCEPT !.oks = @ + 1]]
          /\ net' = rest \cup {Datagram(s, y, [d.text EXCEPT !.oks = @ + 1]) : y \in Hearers(d.src)}
      BY <1>1, <2>2 DEF Answer
    <3>2. buf'[s] = [d.text EXCEPT !.oks = @ + 1]
      BY <3>1 DEF Types
    <3>3. net' = rest \cup {Datagram(s, y, buf'[s]) : y \in Hearers(d.src)}
      BY <3>1, <3>2
    <3> QED  BY <1>1, <1>2, <1>3, <3>1, <3>3 DEF Takes, Answers
  <2> QED  BY <2>1, <2>2
<1> QED
  BY <1>2, <1>3, <1>4 DEF Serve, LoopStays, inputVars, loopVars, fixed, clientVars

\* ServeAgain(s) answers once more what s holds, or does nothing.
LEMMA ServeAgainIs ==
  ASSUME Types, NEW s \in Servers, ServeAgain(s)
  PROVE  /\ LoopStays
         /\ UNCHANGED <<how, mode, knows, from, ended, shown, twice, refused, dups>>
         /\ errors' = errors + 1
         /\ \/ UNCHANGED <<buf, net>>
            \/ /\ from[s] # Nobody
               /\ buf' = [buf EXCEPT ![s] = [buf[s] EXCEPT !.oks = @ + 1]]
               /\ net' = net \cup Answers(s, from[s])
<1>1. /\ LoopStays
      /\ UNCHANGED <<how, mode, knows, from, ended, shown, twice, refused, dups>>
      /\ errors' = errors + 1
  BY DEF ServeAgain, Fails, LoopStays, inputVars, loopVars, fixed, clientVars
<1>2. CASE from[s] = Nobody \/ FromOneself(s, from[s])
  BY <1>1, <1>2 DEF ServeAgain
<1>3. CASE ~(from[s] = Nobody \/ FromOneself(s, from[s]))
  <2>1. /\ buf' = [buf EXCEPT ![s] = [buf[s] EXCEPT !.oks = @ + 1]]
        /\ net' = net \cup {Datagram(s, y, [buf[s] EXCEPT !.oks = @ + 1]) : y \in Hearers(from[s])}
    BY <1>3 DEF ServeAgain, Answer
  <2>2. buf'[s] = [buf[s] EXCEPT !.oks = @ + 1]
    BY <2>1 DEF Types
  <2> QED  BY <1>1, <1>3, <2>1, <2>2 DEF Answers
<1> QED  BY <1>2, <1>3

\* Receive(u) shows a datagram that was on its way to u.
LEMMA ReceiveIs ==
  ASSUME Types, NEW u \in Clients, Receive(u)
  PROVE  /\ LoopMove(u)
         /\ UNCHANGED <<how, mode, knows, buf, from, ended, refused, errors>>
         /\ dups' \in {dups, dups + 1}
         /\ \E d \in net :
                /\ d.dst = u /\ net' \subseteq net /\ (d \in net' => dups' > 0)
                /\ shown' = [shown EXCEPT ![u] = @ \cup {<<d.src, d.text>>}]
                /\ twice' = (twice \/ <<d.src, d.text>> \in shown[u])
<1>d. PICK d \in For(u) : \E rest \in Rests(d) :
           /\ Comes(d, rest)
           /\ net' = rest
           /\ shown' = [shown EXCEPT ![u] = @ \cup {<<d.src, d.text>>}]
           /\ twice' = (twice \/ <<d.src, d.text>> \in shown[u])
  BY DEF Receive
<1>1. PICK rest \in Rests(d) : Comes(d, rest) /\ net' = rest
  BY <1>d
<1>2. d \in net /\ d.dst = u
  BY DEF For
<1>3. /\ net' \subseteq net /\ (d \in net' => dups' > 0)
      /\ dups' \in {dups, dups + 1}
  BY <1>1 DEF Comes, Types
<1>4. LoopMove(u)
  <2>1. ready' = ready /\ UNCHANGED <<typed, partial, closed, buffered, taken>>
        /\ (Goto(u, "stdin") \/ Goto(u, "select"))
    BY DEF Receive, SocDone, inputVars
  <2> QED  BY <2>1, PlaceMoves DEF Places, Types, TypeOK, LoopTypeOK
<1> QED
  BY <1>d, <1>2, <1>3, <1>4 DEF Receive, fixed, serverVars

\* Send(u) sends the line that was read last.
LEMMA SendIs ==
  ASSUME Types, NEW u \in Clients, Send(u)
  PROVE  /\ LoopMove(u)
         /\ UNCHANGED <<how, mode, knows, buf, from, ended, shown, twice, dups, errors>>
         /\ refused' \in [Clients -> BOOLEAN]
         /\ pc[u] = "send" /\ pc'[u] # "send" /\ taken' = taken
         /\ \A d \in net' : d \in net \/ \E s \in Servers : d = Datagram(u, s, Line(u, taken[u]))
<1>1. LoopMove(u) /\ pc'[u] # "send"
  <2>1. ready' = ready /\ UNCHANGED <<typed, partial, closed, buffered, taken>> /\ Goto(u, "select")
    BY DEF Send, inputVars
  <2>2. pc'[u] = "select"
    BY <2>1 DEF Goto, Types, TypeOK, LoopTypeOK
  <2> QED  BY <2>1, <2>2, PlaceMoves DEF Places, Types, TypeOK, LoopTypeOK
<1>2. refused' \in [Clients -> BOOLEAN]
  BY DEF Send, Types, TypeOK
<1>3. \A d \in net' : d \in net \/ \E s \in Servers : d = Datagram(u, s, Line(u, taken[u]))
  BY Constants DEF Send
<1> QED
  BY <1>1, <1>2, <1>3 DEF Send, fixed, serverVars

---------------------------------------------------------------------------
(* Types                                                                   *)

LEMMA TextFacts ==
  ASSUME NEW x, NEW y, NEW text \in Texts
  PROVE  /\ Datagram(x, y, text).src = x /\ Datagram(x, y, text).dst = y
         /\ Datagram(x, y, text).text = text
         /\ text.line \in Clients \X Nat /\ text.line[1] \in Clients /\ text.oks \in Nat
         /\ [text EXCEPT !.oks = @ + 1] \in Texts
         /\ [text EXCEPT !.oks = @ + 1].line = text.line
         /\ [text EXCEPT !.oks = @ + 1].oks = text.oks + 1
  BY DEF Datagram, Texts

LEMMA DatagramIs ==
  ASSUME NEW x, NEW y, NEW text
  PROVE  /\ Datagram(x, y, text).src = x /\ Datagram(x, y, text).dst = y
         /\ Datagram(x, y, text).text = text
  BY DEF Datagram

LEMMA NetFacts ==
  ASSUME Types, NEW d \in net
  PROVE  /\ d.src \in Nodes /\ d.dst \in Nodes /\ d.text \in Texts
         /\ d = Datagram(d.src, d.dst, d.text)
<1>1. d \in [src : Nodes, dst : Nodes, text : Texts]
  BY DEF Types, TypeOK, Texts
<1> QED  BY <1>1 DEF Datagram

LEMMA HearersAreNodes ==
  ASSUME NEW x \in Nodes
  PROVE  Hearers(x) \subseteq Nodes
  BY DEF Hearers

\* What is on its way after answers were sent.
LEMMA AnswersTyped ==
  ASSUME Types, NEW s \in Servers, NEW x \in Nodes, buf'[s] \in Texts,
         net' \subseteq net \cup Answers(s, x)
  PROVE  net' \subseteq [src : Nodes, dst : Nodes, text : Texts]
<1>1. \A y \in Nodes : Datagram(s, y, buf'[s]) \in [src : Nodes, dst : Nodes, text : Texts]
  BY DEF Datagram, Nodes
<1>2. net \subseteq [src : Nodes, dst : Nodes, text : Texts]
  BY DEF Types, TypeOK, Texts
<1> QED  BY <1>1, <1>2, HearersAreNodes DEF Answers

\* What serving leaves in a server's buffer.
LEMMA TakenText ==
  ASSUME Types, NEW s \in Servers, NEW d, Takes(s, d)
  PROVE  /\ buf' = [buf EXCEPT ![s] = buf'[s]] /\ buf'[s] \in Texts
         /\ buf'[s].line = d.text.line
         /\ (buf'[s] = d.text /\ net' \subseteq net) \/ buf'[s].oks = d.text.oks + 1
         /\ d.src \in Nodes /\ from'[s] = d.src /\ from' \in [Servers -> Nodes \cup {Nobody}]
         /\ \A t \in Servers \ {s} : buf'[t] = buf[t] /\ from'[t] = from[t]
<1>1. d \in net /\ d.src \in Nodes /\ d.text \in Texts
  BY NetFacts DEF Takes
<1>2. from \in [Servers -> Nodes \cup {Nobody}]
  BY DEF Types, TypeOK
<1>3. CASE buf' = [buf EXCEPT ![s] = d.text] /\ net' \subseteq net
  BY <1>1, <1>2, <1>3 DEF Takes, Types
<1>4. CASE buf' = [buf EXCEPT ![s] = [d.text EXCEPT !.oks = @ + 1]]
  <2> DEFINE a == [d.text EXCEPT !.oks = @ + 1]
  <2>1. a \in Texts /\ a.line = d.text.line /\ a.oks = d.text.oks + 1
    BY <1>1, TextFacts
  <2> HIDE DEF a
  <2>2. buf' = [buf EXCEPT ![s] = a]
    BY <1>4 DEF a
  <2> QED  BY <1>1, <1>2, <2>1, <2>2 DEF Takes, Types
<1> QED  BY <1>3, <1>4 DEF Takes

LEMMA TypesStep == Types /\ [Next]_vars => Types'
<1> SUFFICES ASSUME Types, [Next]_vars PROVE Types'
  OBVIOUS
<1>0. /\ how \in {"one", "all", "connected"} /\ mode \in {"unicast", "broadcast"} /\ knows \in BOOLEAN
      /\ net \subseteq [src : Nodes, dst : Nodes, text : Texts]
      /\ from \in [Servers -> Nodes \cup {Nobody}]
      /\ ended \subseteq Servers
      /\ refused \in [Clients -> BOOLEAN] /\ twice \in BOOLEAN
      /\ shown \in [Clients -> SUBSET (Nodes \X Texts)]
      /\ buf \in [Servers -> Texts \cup {[line |-> <<>>, oks |-> 0]}]
      /\ \A s \in Servers : from[s] # Nobody => buf[s] \in Texts
      /\ dups \in Nat /\ errors \in Nat
  BY DEF Types, TypeOK, Texts
<1>1. ASSUME LoopGoes,
             UNCHANGED <<how, mode, knows>>, ended' \subseteq Servers, refused' \in [Clients -> BOOLEAN],
             net' \subseteq [src : Nodes, dst : Nodes, text : Texts],
             from' \in [Servers -> Nodes \cup {Nobody}],
             buf' \in [Servers -> Texts \cup {[line |-> <<>>, oks |-> 0]}],
             \A s \in Servers : from'[s] # Nobody => buf'[s] \in Texts,
             shown' \in [Clients -> SUBSET (Nodes \X Texts)], twice' \in BOOLEAN,
             dups' \in Nat, errors' \in Nat
      PROVE  Types'
  <2>1. LoopTypeOK' /\ \A v \in Clients : pc'[v] = "send" => taken'[v] >= 1
    BY <1>1, GoesOn
  <2>2. TypeOK'
    BY <1>0, <1>1, <2>1 DEF TypeOK, Texts
  <2> QED  BY <1>1, <2>1, <2>2 DEF Types
<1>2. CASE Quiet /\ LoopGoes
  BY <1>0, <1>1, <1>2 DEF Quiet
<1>3. ASSUME NEW s \in Servers, Serve(s) PROVE Types'
  <2>1. PICK d \in net : Takes(s, d)
    BY <1>3, ServeTakes
  <2>2. net' \subseteq [src : Nodes, dst : Nodes, text : Texts]
    BY <2>1, TakenText, AnswersTyped DEF Takes
  <2>3. /\ LoopStays
        /\ UNCHANGED <<how, mode, knows, ended, shown, twice, refused, errors>>
        /\ dups' \in Nat
    BY <1>0, <1>3, ServeTakes
  <2>4. /\ from' \in [Servers -> Nodes \cup {Nobody}]
        /\ buf' \in [Servers -> Texts \cup {[line |-> <<>>, oks |-> 0]}]
        /\ \A t \in Servers : from'[t] # Nobody => buf'[t] \in Texts
    BY <1>0, <2>1, TakenText
  <2> QED  BY <1>0, <1>1, <2>2, <2>3, <2>4 DEF LoopGoes
<1>4. ASSUME NEW s \in Servers, ServeAgain(s) PROVE Types'
  <2>1. /\ LoopStays
        /\ UNCHANGED <<how, mode, knows, from, ended, shown, twice, refused, dups>>
        /\ errors' \in Nat
    BY <1>0, <1>4, ServeAgainIs
  <2>2. CASE UNCHANGED <<buf, net>>
    BY <1>0, <1>1, <2>1, <2>2 DEF LoopGoes
  <2>3. CASE /\ from[s] # Nobody
             /\ buf' = [buf EXCEPT ![s] = [buf[s] EXCEPT !.oks = @ + 1]]
             /\ net' = net \cup Answers(s, from[s])
    <3> DEFINE a == [buf[s] EXCEPT !.oks = @ + 1]
    <3>1. a \in Texts
      BY <1>0, <2>3, TextFacts
    <3> HIDE DEF a
    <3>2. buf' = [buf EXCEPT ![s] = a]
      BY <2>3 DEF a
    <3>3. /\ buf' \in [Servers -> Texts \cup {[line |-> <<>>, oks |-> 0]}] /\ buf'[s] \in Texts
          /\ \A t \in Servers : from'[t] # Nobody => buf'[t] \in Texts
      BY <1>0, <2>1, <3>1, <3>2
    <3>4. from[s] \in Nodes
      BY <1>0, <2>3
    <3>5. net' \subseteq [src : Nodes, dst : Nodes, text : Texts]
      BY <2>3, <3>3, <3>4, AnswersTyped
    <3> QED  BY <1>0, <1>1, <2>1, <3>3, <3>5 DEF LoopGoes
  <2> QED  BY <1>4, <2>2, <2>3, ServeAgainIs
<1>5. ASSUME NEW u \in Clients, Receive(u) PROVE Types'
  <2>1. PICK d \in net : /\ net' \subseteq net
                         /\ shown' = [shown EXCEPT ![u] = @ \cup {<<d.src, d.text>>}]
                         /\ twice' = (twice \/ <<d.src, d.text>> \in shown[u])
    BY <1>5, ReceiveIs
  <2>2. shown' \in [Clients -> SUBSET (Nodes \X Texts)]
    BY <1>0, <2>1, NetFacts
  <2>3. twice' \in BOOLEAN
    BY <2>1
  <2>4. /\ LoopGoes /\ UNCHANGED <<how, mode, knows, buf, from, ended, refused, errors>>
        /\ dups' \in Nat
    BY <1>0, <1>5, ReceiveIs DEF LoopGoes
  <2> QED  BY <1>0, <1>1, <2>1, <2>2, <2>3, <2>4
<1>6. ASSUME NEW u \in Clients, Send(u) PROVE Types'
  <2>1. taken[u] \in Nat \ {0}
    BY <1>6, SendIs DEF Types, TypeOK, LoopTypeOK
  <2>2. \A s \in Servers : Datagram(u, s, Line(u, taken[u])) \in [src : Nodes, dst : Nodes, text : Texts]
    BY <2>1 DEF Datagram, Line, Texts, Nodes
  <2>3. net' \subseteq [src : Nodes, dst : Nodes, text : Texts]
    BY <1>0, <1>6, <2>2, SendIs
  <2> QED  BY <1>0, <1>1, <1>6, <2>3, SendIs DEF LoopGoes
<1> QED
  BY <1>2, <1>3, <1>4, <1>5, <1>6, Steps

---------------------------------------------------------------------------
(* The answers are for those who hear them                                 *)

LEMMA HearersOwn ==
  ASSUME Types, NEW v \in Clients, NEW x \in Nodes, Own(v, x), NEW y \in Hearers(x)
  PROVE  Own(v, y)
  BY DEF Own, Hearers, Types, TypeOK

\* What OwnInv says of a datagram.
OwnGood(d) ==
    /\ d.src \in Clients => d.dst \in Servers /\ d.text.line[1] = d.src /\ d.text.oks = 0
    /\ d.src \in Servers => Own(d.text.line[1], d.dst)

\* Whatever has been taken, the line is one of those who hear an answer to it.
LEMMA TakenOwn ==
  ASSUME Types, OwnInv, NEW s \in Servers, NEW d \in net, d.dst = s
  PROVE  Own(d.text.line[1], d.src)
<1>1. d.src \in Nodes /\ d.text.line[1] \in Clients
  BY NetFacts, TextFacts
<1>2. CASE d.src \in Clients
  BY <1>2 DEF OwnInv, Own
<1>3. CASE d.src \in Servers
  <2>1. Own(d.text.line[1], s)
    BY <1>3 DEF OwnInv
  <2>2. mode = "broadcast" /\ Port[d.text.line[1]] = Port[s]
    BY <1>1, <2>1, Constants DEF Own
  <2>3. Port[s] = Port[d.src]
    BY <1>3, DatagramAssumption
  <2> QED  BY <2>2, <2>3 DEF Own
<1> QED  BY <1>1, <1>2, <1>3 DEF Nodes

\* An answer to a node that may hear the line is heard by such nodes only.
LEMMA AnswerGood ==
  ASSUME Types, NEW s \in Servers, NEW x \in Nodes, buf'[s] \in Texts,
         Own(buf'[s].line[1], x), NEW d \in Answers(s, x)
  PROVE  OwnGood(d) /\ d.src = s /\ d.text = buf'[s] /\ d.dst \in Hearers(x)
<1>1. PICK y \in Hearers(x) : d = Datagram(s, y, buf'[s])
  BY DEF Answers
<1>2. d.src = s /\ d.dst = y /\ d.text = buf'[s] /\ buf'[s].line[1] \in Clients
  <2>1. d.src = s /\ d.dst = y /\ d.text = buf'[s]
    BY <1>1, DatagramIs
  <2> QED  BY <2>1 DEF Texts
<1>3. Own(buf'[s].line[1], y)
  BY <1>2, HearersOwn
<1> QED  BY <1>2, <1>3, Constants DEF OwnGood

LEMMA OwnStep == Types /\ OwnInv /\ [Next]_vars => OwnInv'
<1> SUFFICES ASSUME Types, OwnInv, [Next]_vars PROVE OwnInv'
  OBVIOUS
<1>0. /\ \A d \in net : OwnGood(d)
      /\ \A s \in Servers : from[s] # Nobody => Own(buf[s].line[1], from[s])
      /\ \A u \in Clients : \A a \in shown[u] : Own(a[2].line[1], u)
  BY DEF OwnInv, OwnGood, AnswersAreOwn, Own
<1>1. ASSUME mode' = mode,
             \A d \in net' : OwnGood(d),
             \A s \in Servers : from'[s] # Nobody => Own(buf'[s].line[1], from'[s]),
             \A u \in Clients : \A a \in shown'[u] : Own(a[2].line[1], u)
      PROVE  OwnInv'
  BY <1>1 DEF OwnInv, OwnGood, AnswersAreOwn, Own
<1>2. CASE Quiet /\ LoopGoes
  BY <1>0, <1>1, <1>2 DEF Quiet
<1>3. ASSUME NEW s \in Servers, Serve(s) PROVE OwnInv'
  <2>1. PICK d \in net : Takes(s, d)
    BY <1>3, ServeTakes
  <2>2. /\ buf'[s] \in Texts /\ buf'[s].line = d.text.line
        /\ d.src \in Nodes /\ from'[s] = d.src
        /\ \A t \in Servers \ {s} : buf'[t] = buf[t] /\ from'[t] = from[t]
    BY <2>1, TakenText
  <2>3. Own(d.text.line[1], d.src)
    BY <2>1, TakenOwn DEF Takes
  <2>4. \A e \in net' : OwnGood(e)
    BY <1>0, <2>1, <2>2, <2>3, AnswerGood DEF Takes
  <2>5. mode' = mode /\ shown' = shown
    BY <1>3, ServeTakes
  <2> QED  BY <1>0, <1>1, <2>2, <2>3, <2>4, <2>5
<1>4. ASSUME NEW s \in Servers, ServeAgain(s) PROVE OwnInv'
  <2>1. mode' = mode /\ shown' = shown /\ from' = from
    BY <1>4, ServeAgainIs
  <2>2. CASE UNCHANGED <<buf, net>>
    BY <1>0, <1>1, <2>1, <2>2
  <2>3. CASE /\ from[s] # Nobody
             /\ buf' = [buf EXCEPT ![s] = [buf[s] EXCEPT !.oks = @ + 1]]
             /\ net' = net \cup Answers(s, from[s])
    <3> DEFINE a == [buf[s] EXCEPT !.oks = @ + 1]
    <3>1. a \in Texts /\ a.line = buf[s].line
      BY <2>3, TextFacts DEF Types
    <3> HIDE DEF a
    <3>2. buf' = [buf EXCEPT ![s] = a]
      BY <2>3 DEF a
    <3>3. /\ buf'[s] \in Texts /\ from[s] \in Nodes
          /\ \A t \in Servers : buf'[t].line = buf[t].line
      BY <2>3, <3>1, <3>2 DEF Types, TypeOK
    <3>4. \A e \in net' : OwnGood(e)
      BY <1>0, <2>3, <3>3, AnswerGood
    <3> QED  BY <1>0, <1>1, <2>1, <3>3, <3>4
  <2> QED  BY <1>4, <2>2, <2>3, ServeAgainIs
<1>5. ASSUME NEW u \in Clients, Receive(u) PROVE OwnInv'
  <2>1. PICK d \in net : /\ d.dst = u /\ net' \subseteq net
                         /\ shown' = [shown EXCEPT ![u] = @ \cup {<<d.src, d.text>>}]
    BY <1>5, ReceiveIs
  <2>2. d.src \in Nodes /\ (d.src \in Clients => d.dst \in Servers)
    BY <1>0, <2>1, NetFacts DEF OwnGood
  <2>3. d.src \in Servers
    BY <2>1, <2>2, Constants DEF Nodes
  <2>4. Own(d.text.line[1], u)
    BY <1>0, <2>1, <2>3 DEF OwnGood
  <2>5. \A v \in Clients : \A a \in shown'[v] : Own(a[2].line[1], v)
    BY <1>0, <2>1, <2>4 DEF Types
  <2> QED  BY <1>0, <1>1, <1>5, <2>1, <2>5, ReceiveIs
<1>6. ASSUME NEW u \in Clients, Send(u) PROVE OwnInv'
  <2>1. taken[u] \in Nat \ {0}
    BY <1>6, SendIs DEF Types, TypeOK, LoopTypeOK
  <2>2. Line(u, taken[u]) \in Texts /\ Line(u, taken[u]).line[1] = u /\ Line(u, taken[u]).oks = 0
    BY <2>1 DEF Line, Texts
  <2>3. \A s \in Servers : OwnGood(Datagram(u, s, Line(u, taken[u])))
    BY <2>2, DatagramIs, Constants DEF OwnGood
  <2> QED  BY <1>0, <1>1, <1>6, <2>3, SendIs
<1> QED
  BY <1>2, <1>3, <1>4, <1>5, <1>6, Steps

---------------------------------------------------------------------------
(* The servers apart                                                       *)

LEMMA HearersApart ==
  ASSUME Types, ServersApart, NEW x \in Clients
  PROVE  Hearers(x) \subseteq Clients
  BY DatagramAssumption DEF Types, TypeOK, ServersApart, PortsApart, Hearers, Nodes

\* What ApartInv says of a datagram, when k calls have failed.
ApartGood(d, k) == (d.dst \in Servers => d.src \in Clients) /\ d.text.oks <= 1 + k

LEMMA AnswerApart ==
  ASSUME Types, ServersApart, NEW s \in Servers, NEW x \in Clients, buf'[s] \in Texts,
         NEW d \in Answers(s, x)
  PROVE  d.dst \in Clients /\ d.src = s /\ d.text = buf'[s]
<1>1. PICK y \in Hearers(x) : d = Datagram(s, y, buf'[s])
  BY DEF Answers
<1> QED  BY <1>1, DatagramIs, HearersApart

LEMMA ApartStep == Types /\ OwnInv /\ ApartInv /\ [Next]_vars => ApartInv'
<1> SUFFICES ASSUME Types, OwnInv, ApartInv, [Next]_vars, ServersApart' PROVE ApartInv'
  BY DEF ApartInv
<1>a. mode' = mode
  BY Steps, ServeTakes, ServeAgainIs, ReceiveIs, SendIs DEF Quiet
<1>b. ServersApart
  BY <1>a DEF ServersApart, PortsApart
<1>0. /\ \A d \in net : ApartGood(d, errors)
      /\ \A s \in Servers : from[s] \in Clients \cup {Nobody} /\ buf[s].oks <= 1 + errors
      /\ errors \in Nat
  BY <1>b DEF ApartInv, ApartGood, Types
<1>1. ASSUME \A d \in net' : ApartGood(d, errors'),
             \A s \in Servers : from'[s] \in Clients \cup {Nobody} /\ buf'[s].oks <= 1 + errors'
      PROVE  ApartInv'
  BY <1>1 DEF ApartInv, ApartGood
\* As calls fail, what was allowed is allowed.
<1>m. ASSUME errors' \in {errors, errors + 1}
      PROVE  /\ \A d \in net : ApartGood(d, errors')
             /\ \A s \in Servers : buf[s].oks <= 1 + errors'
  <2>1. \A d \in net : d.text.oks \in Nat
    BY NetFacts, TextFacts
  <2>2. \A s \in Servers : buf[s].oks \in Nat
    BY DEF Types, Texts
  <2> QED  BY <1>m, <1>0, <2>1, <2>2 DEF ApartGood
<1>2. CASE Quiet /\ LoopGoes
  BY <1>0, <1>1, <1>2, <1>m DEF Quiet
<1>3. ASSUME NEW s \in Servers, Serve(s) PROVE ApartInv'
  <2>1. PICK d \in net : Takes(s, d)
    BY <1>3, ServeTakes
  <2>2. d.src \in Clients /\ d.text.oks = 0
    BY <1>0, <2>1 DEF Takes, ApartGood, OwnInv
  <2>3. /\ buf'[s] \in Texts /\ buf'[s].oks <= 1 /\ from'[s] = d.src
        /\ \A t \in Servers \ {s} : buf'[t] = buf[t] /\ from'[t] = from[t]
    BY <2>1, <2>2, TakenText
  <2>4. errors' = errors
    BY <1>3, ServeTakes
  <2>5. \A e \in net' : ApartGood(e, errors)
    <3> SUFFICES ASSUME NEW e \in net' PROVE ApartGood(e, errors)
      OBVIOUS
    <3>1. CASE e \in net
      BY <1>0, <3>1
    <3>2. CASE e \in Answers(s, d.src)
      <4>1. e.dst \in Clients /\ e.text = buf'[s]
        BY <1>b, <2>2, <2>3, <3>2, AnswerApart
      <4>2. buf'[s].oks <= 1 + errors
        BY <1>0, <2>3 DEF Texts
      <4> QED  BY <4>1, <4>2, Constants DEF ApartGood
    <3> QED  BY <2>1, <3>1, <3>2 DEF Takes
  <2>6. \A t \in Servers : from'[t] \in Clients \cup {Nobody} /\ buf'[t].oks <= 1 + errors
    <3>1. buf'[s].oks <= 1 + errors
      BY <1>0, <2>3 DEF Texts
    <3> QED  BY <1>0, <2>2, <2>3, <3>1
  <2> QED  BY <1>1, <2>4, <2>5, <2>6
<1>4. ASSUME NEW s \in Servers, ServeAgain(s) PROVE ApartInv'
  <2>1. errors' = errors + 1 /\ from' = from
    BY <1>4, ServeAgainIs
  <2>2. CASE UNCHANGED <<buf, net>>
    BY <1>0, <1>1, <1>m, <2>1, <2>2
  <2>3. CASE /\ from[s] # Nobody
             /\ buf' = [buf EXCEPT ![s] = [buf[s] EXCEPT !.oks = @ + 1]]
             /\ net' = net \cup Answers(s, from[s])
    <3> DEFINE a == [buf[s] EXCEPT !.oks = @ + 1]
    <3>1. a \in Texts /\ a.oks = buf[s].oks + 1 /\ buf[s].oks \in Nat
      BY <2>3, TextFacts DEF Types
    <3> HIDE DEF a
    <3>2. buf' = [buf EXCEPT ![s] = a]
      BY <2>3 DEF a
    <3>3. /\ buf'[s] = a /\ from[s] \in Clients
          /\ \A t \in Servers \ {s} : buf'[t] = buf[t]
      BY <1>0, <2>3, <3>2 DEF Types
    <3>4. a.oks <= 1 + errors'
      BY <1>0, <2>1, <3>1
    <3>5. \A e \in Answers(s, from[s]) : ApartGood(e, errors')
      BY <1>b, <3>1, <3>3, <3>4, AnswerApart, Constants DEF ApartGood
    <3>6. \A t \in Servers : buf'[t].oks <= 1 + errors'
      BY <1>m, <2>1, <3>3, <3>4
    <3> QED  BY <1>0, <1>1, <1>m, <2>1, <2>3, <3>5, <3>6
  <2> QED  BY <1>4, <2>2, <2>3, ServeAgainIs
<1>5. ASSUME NEW u \in Clients, Receive(u) PROVE ApartInv'
  BY <1>0, <1>1, <1>5, ReceiveIs
<1>6. ASSUME NEW u \in Clients, Send(u) PROVE ApartInv'
  <2>1. taken[u] \in Nat \ {0}
    BY <1>6, SendIs DEF Types, TypeOK, LoopTypeOK
  <2>2. Line(u, taken[u]) \in Texts /\ Line(u, taken[u]).oks = 0
    BY <2>1 DEF Line, Texts
  <2>3. \A s \in Servers : ApartGood(Datagram(u, s, Line(u, taken[u])), errors)
    BY <1>0, <2>2, DatagramIs DEF ApartGood
  <2> QED  BY <1>0, <1>1, <1>6, <2>3, SendIs
<1> QED
  BY <1>2, <1>3, <1>4, <1>5, <1>6, Steps

---------------------------------------------------------------------------
(* Each answer once                                                        *)

\* What a server has been asked stays answered as long as it is not asked the line again
\* and gives no other answer.
LEMMA OnceKeeps ==
  ASSUME Types, LoopGoes, NEW s \in Servers, Once(s),
         buf'[s] = buf[s], from'[s] = from[s],
         \A text \in Texts : Said(s, text)' => Said(s, text),
         \A line \in Clients \X Nat : Past(line) /\ Asked(s, line)' => Asked(s, line)
  PROVE  Once(s)'
<1>1. \A line \in Clients \X Nat : Past(line) => Past(line)'
  BY GoesOn
<1>2. \A text \in Texts : text.line \in Clients \X Nat
  BY TextFacts
<1>3. from[s] # Nobody => buf[s].line \in Clients \X Nat
  BY <1>2 DEF Types
<1>4. from'[s] # Nobody => Past(buf[s].line)' /\ ~Asked(s, buf[s].line)'
  BY <1>1, <1>3 DEF Once
<1>5. \A text \in Texts :
          Said(s, text)' => /\ Past(text.line)' /\ ~Asked(s, text.line)'
                            /\ text.line = buf'[s].line => text.oks <= buf'[s].oks
  BY <1>1, <1>2 DEF Once
<1> QED  BY <1>4, <1>5 DEF Once

\* A server gives an answer it has not given; the others have no part in it.
LEMMA OnceAnswered ==
  ASSUME Types, OwnInv, LoopStays, ServersApart, UNCHANGED shown,
         \A t \in Servers : Once(t),
         \A d \in net : Past(d.text.line),
         \A d \in net : d.dst \in Clients => <<d.src, d.text>> \notin shown[d.dst],
         NEW s \in Servers, NEW x \in Clients, NEW a \in Texts,
         buf'[s] = a, from'[s] = x,
         \A t \in Servers \ {s} : buf'[t] = buf[t] /\ from'[t] = from[t],
         net' \subseteq net \cup Answers(s, x),
         Past(a.line), ~Asked(s, a.line)',
         \A text \in Texts : Said(s, text) /\ text.line = a.line => text.oks < a.oks
  PROVE  /\ \A d \in net' : Past(d.text.line)'
         /\ \A t \in Servers : Once(t)'
         /\ \A d \in net' : d.dst \in Clients => <<d.src, d.text>> \notin shown'[d.dst]
<1>0. ASSUME NEW e \in net'
      PROVE  e \in net \/ (e.dst \in Clients /\ e.src = s /\ e.text = a)
  <2>1. buf'[s] \in Texts
    OBVIOUS
  <2> QED  BY <1>0, <2>1, AnswerApart
<1>1. LoopGoes
  BY DEF LoopGoes
<1>2. \A line \in Clients \X Nat : Past(line) => Past(line)'
  BY <1>1, GoesOn
<1>3. \A text \in Texts : text.line \in Clients \X Nat
  BY TextFacts
<1>4. ASSUME NEW t \in Servers, NEW line, Asked(t, line)' PROVE Asked(t, line)
  <2>1. PICK e \in net' : e.dst = t /\ e.src \in Clients /\ e.text.line = line
    BY <1>4 DEF Asked
  <2> QED  BY <1>0, <2>1, Constants DEF Asked
<1>5. ASSUME NEW t \in Servers, NEW text, Said(t, text)'
      PROVE  Said(t, text) \/ (t = s /\ text = a)
  <2>1. CASE \E e \in net' : e.src = t /\ e.text = text
    BY <1>0, <2>1 DEF Said
  <2>2. CASE \E u \in Clients : <<t, text>> \in shown'[u]
    BY <2>2 DEF Said
  <2> QED  BY <1>5, <2>1, <2>2 DEF Said
<1>6. ASSUME NEW t \in Servers \ {s} PROVE Once(t)'
  BY <1>1, <1>4, <1>5, OnceKeeps
<1>7. Once(s)'
  <2>1. Past(a.line)'
    BY <1>2, <1>3
  <2>2. Past(buf[s].line)' /\ ~Asked(s, buf[s].line)'
    BY <2>1 DEF Past, Asked
  <2>3. ASSUME NEW text \in Texts, Said(s, text)'
        PROVE  /\ Past(text.line)' /\ ~Asked(s, text.line)'
               /\ text.line = a.line => text.oks <= a.oks
    <3>1. CASE Said(s, text)
      <4>1. Past(text.line) /\ ~Asked(s, text.line)
        BY <3>1 DEF Once
      <4>2. Past(text.line)'
        BY <1>2, <1>3, <4>1
      <4>3. ~Asked(s, text.line)'
        BY <1>4, <4>1
      <4>4. text.line = a.line => text.oks <= a.oks
        BY <3>1 DEF Texts
      <4> QED  BY <4>2, <4>3, <4>4
    <3>2. CASE text = a
      BY <2>1, <3>2 DEF Texts
    <3> QED  BY <1>5, <2>3, <3>1, <3>2
  <2>4. \A text \in Texts :
            Said(s, text)' => /\ Past(text.line)' /\ ~Asked(s, text.line)'
                              /\ text.line = buf'[s].line => text.oks <= buf'[s].oks
    BY <2>3
  <2> QED  BY <2>2, <2>4 DEF Once
<1>8. ASSUME NEW e \in net' PROVE Past(e.text.line)'
  <2>1. CASE e \in net
    BY <1>2, <1>3, <2>1, NetFacts
  <2>2. CASE e.text = a
    <3>1. Past(a.line)'
      BY <1>2, <1>3
    <3> QED  BY <2>2, <3>1 DEF Past
  <2> QED  BY <1>0, <2>1, <2>2
<1>9. ASSUME NEW e \in net', e.dst \in Clients PROVE <<e.src, e.text>> \notin shown'[e.dst]
  <2>1. CASE e \in net
    BY <1>9, <2>1
  <2>2. CASE e.src = s /\ e.text = a
    <3>1. ~Said(s, a)
      BY DEF Texts
    <3> QED  BY <1>9, <2>2, <3>1 DEF Said
  <2> QED  BY <1>0, <1>9, <2>1, <2>2
<1> QED  BY <1>6, <1>7, <1>8, <1>9

LEMMA OnceStep == IInv /\ [Next]_vars => OnceInv'
<1> SUFFICES ASSUME IInv, [Next]_vars, ServersApart', dups' = 0 PROVE OnceInv'
  BY DEF OnceInv
<1>t. Types /\ OwnInv /\ ApartInv /\ OnceInv
  BY DEF IInv
<1>a. mode' = mode /\ dups' \in {dups, dups + 1}
  BY <1>t, Steps, ServeTakes, ServeAgainIs, ReceiveIs, SendIs DEF Quiet
<1>b. ServersApart /\ dups = 0
  BY <1>t, <1>a DEF ServersApart, PortsApart, Types
<1>0. /\ ~twice
      /\ \A d \in net : Past(d.text.line)
      /\ \A s \in Servers : Once(s)
      /\ \A d \in net : d.dst \in Clients => <<d.src, d.text>> \notin shown[d.dst]
  BY <1>b, <1>t DEF OnceInv
<1>1. ASSUME ~twice',
             \A d \in net' : Past(d.text.line)',
             \A s \in Servers : Once(s)',
             \A d \in net' : d.dst \in Clients => <<d.src, d.text>> \notin shown'[d.dst]
      PROVE  OnceInv'
  BY <1>1 DEF OnceInv, Past, Once, Asked, Said
<1>n. \A d \in net : d.text \in Texts /\ d.text.line \in Clients \X Nat
  BY <1>t, NetFacts, TextFacts
\* Where nothing is sent.
<1>q. ASSUME LoopGoes, net' \subseteq net, UNCHANGED <<buf, from>>, ~twice',
             \A s \in Servers : \A text \in Texts : Said(s, text)' => Said(s, text),
             \A d \in net' : d.dst \in Clients => <<d.src, d.text>> \notin shown'[d.dst]
      PROVE  OnceInv'
  <2>1. \A line \in Clients \X Nat : Past(line) => Past(line)'
    BY <1>q, <1>t, GoesOn
  <2>2. ASSUME NEW d \in net' PROVE Past(d.text.line)'
    BY <1>0, <1>n, <1>q, <2>1
  <2>3. ASSUME NEW s \in Servers PROVE Once(s)'
    <3>1. ASSUME NEW line, Asked(s, line)' PROVE Asked(s, line)
      BY <1>q, <3>1 DEF Asked
    <3> QED  BY <1>0, <1>q, <1>t, <3>1, OnceKeeps
  <2> QED  BY <1>1, <1>q, <2>2, <2>3
<1>2. CASE Quiet /\ LoopGoes
  <2>1. ASSUME NEW s \in Servers, NEW text \in Texts, Said(s, text)' PROVE Said(s, text)
    BY <1>2, <2>1 DEF Quiet, Said
  <2> QED  BY <1>0, <1>2, <1>q, <2>1 DEF Quiet
<1>3. ASSUME NEW s \in Servers, Serve(s) PROVE OnceInv'
  <2>1. PICK d \in net : Takes(s, d)
    BY <1>3, <1>t, ServeTakes
  <2>2. LoopStays /\ shown' = shown /\ twice' = twice
    BY <1>3, <1>t, ServeTakes
  <2>3. d.src \in Clients /\ d.text.line[1] = d.src /\ d.text.oks = 0
    BY <1>b, <1>t, <2>1 DEF Takes, ApartInv, OwnInv
  <2>4. PICK a \in Texts : a = buf'[s]
    BY <1>t, <2>1, TakenText
  <2>5. /\ a.line = d.text.line /\ from'[s] = d.src
        /\ (a = d.text /\ net' \subseteq net) \/ a.oks = 1
        /\ \A t \in Servers \ {s} : buf'[t] = buf[t] /\ from'[t] = from[t]
    BY <1>t, <2>1, <2>3, <2>4, TakenText
  <2>6. \A e \in Answers(s, d.src) : e.dst \in Clients /\ e.src = s
    BY <1>b, <1>t, <2>3, <2>4, AnswerApart
  <2>7. d \notin net'
    BY <2>1, <2>6, Constants DEF Takes
  <2>8. ASSUME Asked(s, a.line)' PROVE FALSE
    <3>1. PICK e \in net' : e.dst = s /\ e.src \in Clients /\ e.text.line = d.text.line
      BY <2>5, <2>8 DEF Asked
    <3>2. e \in net
      BY <2>1, <2>6, <3>1, Constants DEF Takes
    <3>3. e.src = d.src /\ e.text.oks = 0
      BY <1>t, <2>3, <3>1, <3>2 DEF OwnInv
    <3>4. e.text = d.text
      BY <1>n, <2>3, <3>1, <3>2, <3>3 DEF Texts
    <3>5. e = d
      BY <1>t, <2>1, <3>1, <3>2, <3>3, <3>4, NetFacts DEF Takes
    <3> QED  BY <2>7, <3>1, <3>5
  <2>9. ASSUME NEW text \in Texts, Said(s, text), text.line = a.line PROVE FALSE
    <3>1. Asked(s, a.line)
      BY <2>1, <2>3, <2>5 DEF Takes, Asked
    <3> QED  BY <1>0, <2>9, <3>1 DEF Once
  <2>10. Past(a.line)
    BY <1>0, <2>5
  <2>11. net' \subseteq net \cup Answers(s, d.src)
    BY <2>1 DEF Takes
  <2>12. /\ \A e \in net' : Past(e.text.line)'
         /\ \A t \in Servers : Once(t)'
         /\ \A e \in net' : e.dst \in Clients => <<e.src, e.text>> \notin shown'[e.dst]
    BY <1>0, <1>b, <1>t, <2>2, <2>3, <2>4, <2>5, <2>8, <2>9, <2>10, <2>11, OnceAnswered
  <2> QED  BY <1>0, <1>1, <2>2, <2>12
<1>4. ASSUME NEW s \in Servers, ServeAgain(s) PROVE OnceInv'
  <2>1. LoopStays /\ shown' = shown /\ twice' = twice /\ from' = from
    BY <1>4, <1>t, ServeAgainIs
  <2>2. CASE UNCHANGED <<buf, net>>
    <3>1. ASSUME NEW t \in Servers, NEW text \in Texts, Said(t, text)' PROVE Said(t, text)
      BY <2>1, <2>2, <3>1 DEF Said
    <3> QED  BY <1>0, <1>q, <2>1, <2>2, <3>1 DEF LoopGoes
  <2>3. CASE /\ from[s] # Nobody
             /\ buf' = [buf EXCEPT ![s] = [buf[s] EXCEPT !.oks = @ + 1]]
             /\ net' = net \cup Answers(s, from[s])
    <3>1. PICK b \in Texts : b = buf[s]
      BY <1>t, <2>3 DEF Types
    <3>2. PICK a \in Texts : a = [b EXCEPT !.oks = @ + 1]
      BY TextFacts
    <3>3. a.line = b.line /\ a.oks = b.oks + 1 /\ b.oks \in Nat
      BY <3>2, TextFacts
    <3>4. buf' = [buf EXCEPT ![s] = a]
      BY <2>3, <3>1, <3>2
    <3>5. buf'[s] = a /\ \A t \in Servers \ {s} : buf'[t] = buf[t]
      BY <1>t, <3>4 DEF Types
    <3>6. from[s] \in Clients
      BY <1>b, <1>t, <2>3 DEF ApartInv
    <3>7. \A e \in Answers(s, from[s]) : e.dst \in Clients /\ e.src = s
      BY <1>b, <1>t, <3>5, <3>6, AnswerApart
    <3>8. Past(a.line) /\ ~Asked(s, a.line)
      BY <1>0, <2>3, <3>1, <3>3 DEF Once
    <3>9. ~Asked(s, a.line)'
      BY <2>3, <3>7, <3>8, Constants DEF Asked
    <3>10. \A text \in Texts : Said(s, text) /\ text.line = a.line => text.oks < a.oks
      <4>1. \A text \in Texts : Said(s, text) /\ text.line = b.line => text.oks <= b.oks
        BY <1>0, <3>1 DEF Once
      <4>2. \A text \in Texts : text.oks \in Nat
        BY TextFacts
      <4> QED  BY <3>3, <4>1, <4>2
    <3>11. net' \subseteq net \cup Answers(s, from[s])
      BY <2>3
    <3>12. /\ \A e \in net' : Past(e.text.line)'
           /\ \A t \in Servers : Once(t)'
           /\ \A e \in net' : e.dst \in Clients => <<e.src, e.text>> \notin shown'[e.dst]
      BY <1>0, <1>b, <1>t, <2>1, <3>5, <3>6, <3>8, <3>9, <3>10, <3>11, OnceAnswered
    <3> QED  BY <1>0, <1>1, <2>1, <3>12
  <2> QED  BY <1>4, <1>t, <2>2, <2>3, ServeAgainIs
<1>5. ASSUME NEW u \in Clients, Receive(u) PROVE OnceInv'
  <2>1. PICK d \in net :
            /\ d.dst = u /\ net' \subseteq net /\ (d \in net' => dups' > 0)
            /\ shown' = [shown EXCEPT ![u] = @ \cup {<<d.src, d.text>>}]
            /\ twice' = (twice \/ <<d.src, d.text>> \in shown[u])
    BY <1>5, <1>t, ReceiveIs
  <2>2. LoopGoes /\ UNCHANGED <<buf, from>>
    BY <1>5, <1>t, ReceiveIs DEF LoopGoes
  <2>3. ~twice'
    BY <1>0, <2>1
  <2>4. d \notin net'
    BY <2>1
  <2>5. /\ shown'[u] = shown[u] \cup {<<d.src, d.text>>}
        /\ \A v \in Clients \ {u} : shown'[v] = shown[v]
    BY <1>t, <2>1 DEF Types
  <2>6. ASSUME NEW s \in Servers, NEW text \in Texts, Said(s, text)' PROVE Said(s, text)
    <3>1. CASE \E e \in net' : e.src = s /\ e.text = text
      BY <2>1, <3>1 DEF Said
    <3>2. CASE \E v \in Clients : <<s, text>> \in shown'[v]
      BY <2>5, <3>2 DEF Said
    <3> QED  BY <2>6, <3>1, <3>2 DEF Said
  <2>7. ASSUME NEW e \in net', e.dst \in Clients PROVE <<e.src, e.text>> \notin shown'[e.dst]
    <3>1. e \in net /\ e # d
      BY <2>1, <2>4
    <3>2. CASE e.dst = u /\ e.src = d.src /\ e.text = d.text
      BY <1>t, <2>1, <3>1, <3>2, NetFacts
    <3>3. CASE ~(e.dst = u /\ e.src = d.src /\ e.text = d.text)
      BY <1>0, <2>5, <2>7, <3>1, <3>3
    <3> QED  BY <3>2, <3>3
  <2> QED  BY <1>q, <2>1, <2>2, <2>3, <2>6, <2>7
<1>6. ASSUME NEW u \in Clients, Send(u) PROVE OnceInv'
  <2>1. /\ LoopGoes /\ UNCHANGED <<buf, from, shown, twice>>
        /\ pc[u] = "send" /\ pc'[u] # "send" /\ taken' = taken
    BY <1>6, <1>t, SendIs DEF LoopGoes
  <2>2. taken[u] \in Nat \ {0}
    BY <1>t, <2>1 DEF Types, TypeOK, LoopTypeOK
  <2>3. PICK text \in Texts : text = Line(u, taken[u]) /\ text.line = <<u, taken[u]>>
    <3>1. Line(u, taken[u]) \in Texts /\ Line(u, taken[u]).line = <<u, taken[u]>>
      BY <2>2 DEF Line, Texts
    <3> QED  BY <3>1
  <2>4. ASSUME NEW e \in net'
        PROVE  e \in net \/ (e.src = u /\ e.dst \in Servers /\ e.text = text)
    BY <1>6, <1>t, <2>3, SendIs, DatagramIs
  <2>5. ~Past(text.line) /\ Past(text.line)'
    BY <2>1, <2>2, <2>3 DEF Past
  <2>6. \A line \in Clients \X Nat : Past(line) => Past(line)'
    BY <1>t, <2>1, GoesOn
  <2>7. ASSUME NEW s \in Servers PROVE Once(s)'
    <3>1. ASSUME NEW line \in Clients \X Nat, Past(line), Asked(s, line)' PROVE Asked(s, line)
      <4>1. PICK e \in net' : e.dst = s /\ e.src \in Clients /\ e.text.line = line
        BY <3>1 DEF Asked
      <4>2. e.text # text
        BY <2>5, <3>1, <4>1
      <4> QED  BY <2>4, <4>1, <4>2 DEF Asked
    <3>2. ASSUME NEW said \in Texts, Said(s, said)' PROVE Said(s, said)
      BY <2>1, <2>4, <3>2, Constants DEF Said
    <3> QED  BY <1>0, <1>t, <2>1, <3>1, <3>2, OnceKeeps
  <2>8. ASSUME NEW e \in net' PROVE Past(e.text.line)'
    <3>1. CASE e \in net
      BY <1>0, <1>n, <2>6, <3>1
    <3>2. CASE e.text = text
      BY <2>5, <3>2 DEF Past
    <3> QED  BY <2>4, <3>1, <3>2
  <2>9. ASSUME NEW e \in net', e.dst \in Clients PROVE <<e.src, e.text>> \notin shown'[e.dst]
    BY <1>0, <2>1, <2>4, <2>9, Constants
  <2> QED  BY <1>0, <1>1, <2>1, <2>7, <2>8, <2>9
<1> QED
  BY <1>t, <1>2, <1>3, <1>4, <1>5, <1>6, Steps

---------------------------------------------------------------------------
(* The theorems                                                            *)

LEMMA InitIInv == Init => IInv
<1> SUFFICES ASSUME Init PROVE IInv
  OBVIOUS
<1>1. /\ typed = MaxTyped /\ partial = [u \in Clients |-> FALSE]
      /\ closed = [u \in Clients |-> u \in Files]
      /\ buffered = [u \in Clients |-> 0] /\ taken = [u \in Clients |-> 0]
      /\ ready = [u \in Clients |-> {}] /\ pc = [u \in Clients |-> "select"]
  BY DEF Init, LoopInit
<1>2. /\ net = {} /\ dups = 0 /\ errors = 0 /\ ended = {} /\ twice = FALSE
      /\ buf = [s \in Servers |-> [line |-> <<>>, oks |-> 0]]
      /\ from = [s \in Servers |-> Nobody]
      /\ shown = [u \in Clients |-> {}] /\ refused = [u \in Clients |-> FALSE]
      /\ how \in {"one", "all", "connected"} /\ mode \in {"unicast", "broadcast"} /\ knows \in BOOLEAN
  BY DEF Init
<1>3. LoopTypeOK
  BY <1>1, LoopAssumption DEF LoopTypeOK, Places
<1>4. TypeOK
  BY <1>2, <1>3 DEF TypeOK
<1>5. shown \in [Clients -> SUBSET (Nodes \X Texts)]
      /\ buf \in [Servers -> Texts \cup {[line |-> <<>>, oks |-> 0]}]
  BY <1>2
<1>6. Types
  BY <1>1, <1>2, <1>4, <1>5 DEF Types
<1>7. OwnInv
  BY <1>2 DEF OwnInv, AnswersAreOwn
<1>8. ApartInv
  BY <1>2 DEF ApartInv
<1>9. \A s \in Servers : Once(s)
  BY <1>2 DEF Once, Said
<1>10. OnceInv
  BY <1>2, <1>9 DEF OnceInv
<1> QED  BY <1>6, <1>7, <1>8, <1>10 DEF IInv

\* The inductive invariant: what is typed, who may hear what, that servers apart answer
\* only clients, and that a server is asked and answers each line once.
THEOREM InductiveInvariant == Spec => []IInv
<1>1. Init => IInv
  BY InitIInv
<1>2. IInv /\ [Next]_vars => IInv'
  BY TypesStep, OwnStep, ApartStep, OnceStep DEF IInv
<1> QED  BY <1>1, <1>2, PTL DEF Spec

\* Every variable of the clients, of the servers and of the network keeps its type.
THEOREM TypeCorrect == Spec => []TypeOK
<1>1. IInv => TypeOK
  BY DEF IInv, Types
<1> QED  BY <1>1, InductiveInvariant, PTL

\* A client is shown answers to its own lines only (or, of broadcast ones, to lines of
\* clients with its port), whatever is lost, comes twice, is reordered or fails.
THEOREM OwnCorrect == Spec => []AnswersAreOwn
<1>1. IInv => AnswersAreOwn
  BY DEF IInv, OwnInv
<1> QED  BY <1>1, InductiveInvariant, PTL

\* Unless servers hear each other, nothing is shown twice that the network has not
\* delivered twice, and an answer has one ":OK" and at most one more for each failure.
THEOREM OnceCorrect == Spec => []OneAnswerEach
<1>1. IInv => OneAnswerEach
  <2>1. IInv => ShownOnce
    BY DEF IInv, OnceInv, ShownOnce, Types
  <2>2. IInv => AnswersDoNotGrow
    BY DEF IInv, ApartInv, AnswersDoNotGrow
  <2> QED  BY <2>1, <2>2 DEF OneAnswerEach
<1> QED  BY <1>1, InductiveInvariant, PTL

=============================================================================
