---------------------------- MODULE HttpdProofs ----------------------------
(***************************************************************************)
(* Proofs about httpd/httpd2.c, for any number of connections, whatever    *)
(* their clients send, files of any size and any number of changes and     *)
(* failures.                                                               *)
(***************************************************************************)
EXTENDS Httpd, SequenceTheorems, TLAPS

FieldTokens == {"field"} \cup Lengths

\* Lines 2 .. n are fields of a header.
Fields(s, n) == \A i \in 2 .. n : s[i] \in FieldTokens

---------------------------------------------------------------------------
(* What a request is: facts about sequences of tokens                      *)

\* The last Content-Length before a line is one and the same.
LEMMA LengthIsUnique ==
  ASSUME NEW s \in Seq(Tokens), NEW b \in Nat, b <= Len(s) + 1,
         NEW l, NEW m, IsLength(s, b, l), IsLength(s, b, m)
  PROVE  l = m
<1>1. \A i \in 2 .. b - 1 : s[i] \in Tokens
  BY LenProperties
<1>2. "none" \notin Tokens
  BY DEF Tokens, Methods
<1>3. ASSUME NEW j \in 2 .. b - 1, s[j] \in Lengths, \A i \in j + 1 .. b - 1 : s[i] \notin Lengths,
             NEW k \in 2 .. b - 1, s[k] \in Lengths, \A i \in k + 1 .. b - 1 : s[i] \notin Lengths
      PROVE  j = k
  BY <1>3
<1>4. QED
  BY <1>1, <1>2, <1>3 DEF IsLength

\* How a header line moves the Content-Length that counts.
LEMMA FieldMovesLength ==
  ASSUME NEW s \in Seq(Tokens), NEW t \in Nat, 1 <= t, t < Len(s),
         NEW l, IsLength(s, t + 1, l)
  PROVE  /\ s[t + 1] = "field" => IsLength(s, t + 2, l)
         /\ s[t + 1] \in Lengths => IsLength(s, t + 2, s[t + 1])
<1>1. "field" \notin Lengths
  BY DEF Lengths
<1>2. Len(s) \in Nat
  BY LenProperties
<1>3. \A i \in 2 .. (t + 2) - 1 : i = t + 1 \/ i \in 2 .. (t + 1) - 1
  OBVIOUS
<1>4. t + 1 \in 2 .. (t + 2) - 1 /\ (t + 1) + 1 .. (t + 2) - 1 = {}
  OBVIOUS
<1>5. ASSUME s[t + 1] \in Lengths PROVE IsLength(s, t + 2, s[t + 1])
  BY <1>4, <1>5 DEF IsLength
<1>6. ASSUME s[t + 1] = "field", l = "none", \A i \in 2 .. (t + 1) - 1 : s[i] \notin Lengths
      PROVE  IsLength(s, t + 2, l)
  BY <1>1, <1>3, <1>6 DEF IsLength
<1>7. ASSUME s[t + 1] = "field",
             NEW j \in 2 .. (t + 1) - 1, s[j] = l, l \in Lengths,
             \A i \in j + 1 .. (t + 1) - 1 : s[i] \notin Lengths
      PROVE  IsLength(s, t + 2, l)
  <2>1. j \in 2 .. (t + 2) - 1
    OBVIOUS
  <2>2. \A i \in j + 1 .. (t + 2) - 1 : i = t + 1 \/ i \in j + 1 .. (t + 1) - 1
    OBVIOUS
  <2>3. QED
    BY <1>1, <1>7, <2>1, <2>2 DEF IsLength
<1>8. QED
  BY <1>5, <1>6, <1>7 DEF IsLength

\* A request that begins with t lines of a header goes on with another one or with
\* its end, and that end says how long it is.
LEMMA HeaderGoesOn ==
  ASSUME NEW s \in Seq(Tokens), NEW t \in Nat, 1 <= t, Fields(s, t),
         NEW n, IsRequest(s, n)
  PROVE  /\ t < Len(s)
         /\ s[t + 1] \in FieldTokens \cup {"blank"}
         /\ s[t + 1] = "blank" =>
              \/ n = t + 1 /\ (IsLength(s, t + 1, "none") \/ IsLength(s, t + 1, "zero"))
              \/ n = t + 2 /\ n <= Len(s) /\ IsLength(s, t + 1, "one")
<1>1. PICK b \in 2 .. n :
           /\ s[b] = "blank"
           /\ \A i \in 2 .. b - 1 : s[i] \in FieldTokens
           /\ \/ n = b /\ (IsLength(s, b, "none") \/ IsLength(s, b, "zero"))
              \/ n = b + 1 /\ IsLength(s, b, "one")
  BY DEF IsRequest, FieldTokens
<1>2. n \in 1 .. Len(s) /\ Len(s) \in Nat
  BY LenProperties DEF IsRequest
<1>3. "blank" \notin FieldTokens
  BY DEF FieldTokens, Lengths
<1>4. b > t
  BY <1>1, <1>2, <1>3 DEF Fields
<1>5. b > t + 1 => s[t + 1] \in FieldTokens
  BY <1>1, <1>2, <1>4
<1>6. QED
  BY <1>1, <1>2, <1>3, <1>4, <1>5

\* There is at most one request at the beginning of a sequence.
LEMMA RequestIsUnique ==
  ASSUME NEW s \in Seq(Tokens), NEW n, NEW m, IsRequest(s, n), IsRequest(s, m)
  PROVE  n = m
<1>1. PICK b \in 2 .. n :
           /\ s[b] = "blank"
           /\ \A i \in 2 .. b - 1 : s[i] \in FieldTokens
           /\ \/ n = b /\ (IsLength(s, b, "none") \/ IsLength(s, b, "zero"))
              \/ n = b + 1 /\ IsLength(s, b, "one")
  BY DEF IsRequest, FieldTokens
<1>2. n \in 1 .. Len(s) /\ Len(s) \in Nat
  BY LenProperties DEF IsRequest
<1>3. /\ b - 1 \in Nat /\ 1 <= b - 1 /\ (b - 1) + 1 = b /\ (b - 1) + 2 = b + 1
      /\ Fields(s, b - 1) /\ b <= Len(s) + 1
  BY <1>1, <1>2 DEF Fields
<1>4. \/ m = b /\ (IsLength(s, b, "none") \/ IsLength(s, b, "zero"))
      \/ m = b + 1 /\ IsLength(s, b, "one")
  BY <1>1, <1>3, HeaderGoesOn
<1>5. ~(IsLength(s, b, "one") /\ (IsLength(s, b, "none") \/ IsLength(s, b, "zero")))
  BY <1>3, LengthIsUnique
<1>6. QED
  BY <1>1, <1>4, <1>5

\* An empty line after fields, and the body their last Content-Length announces.
LEMMA RequestIsWhole ==
  ASSUME NEW s \in Seq(Tokens), NEW b \in Nat, 2 <= b, b <= Len(s),
         s[1] \in Methods, Fields(s, b - 1), s[b] = "blank"
  PROVE  /\ (IsLength(s, b, "none") \/ IsLength(s, b, "zero")) => IsRequest(s, b)
         /\ IsLength(s, b, "one") /\ b < Len(s) => IsRequest(s, b + 1)
<1>1. Len(s) \in Nat /\ b \in 1 .. Len(s) /\ b \in 2 .. b /\ b \in 2 .. b + 1
      /\ (b < Len(s) => b + 1 \in 1 .. Len(s))
  BY LenProperties
<1>2. QED
  BY <1>1 DEF IsRequest, Fields, FieldTokens

---------------------------------------------------------------------------
(* The inductive invariant                                                 *)

\* What waits in the queue is somebody's connection, once, and has no child yet.
QueueIsNew ==
    /\ \A j, k \in DOMAIN backlog : backlog[j] = backlog[k] => j = k
    /\ \A k \in DOMAIN backlog :
           /\ at[backlog[k]] = "none" /\ backlog[k] # sock
           /\ client[backlog[k]] # "new"
    /\ sock # NoConn => client[sock] # "new"
    /\ main = "fork" => at[sock] = "none"
    /\ \A c \in Conns : at[c] # "none" => client[c] # "new"

Reading == {"none", "line", "field", "body", "respond"}

\* How far c's child has come in its request.
Parsed(c) ==
    /\ at[c] \in {"none", "line"} => taken[c] = 0 /\ length[c] = "none"
    /\ at[c] \in {"field", "body"} => script[c][1] \in Methods
    /\ at[c] = "field" =>
           /\ taken[c] >= 1
           /\ Fields(script[c], taken[c])
           /\ IsLength(script[c], taken[c] + 1, length[c])
    /\ (at[c] = "body" /\ Unsplit(script[c])) =>
           /\ taken[c] >= 2
           /\ Fields(script[c], taken[c] - 1)
           /\ script[c][taken[c]] = "blank"
           /\ IsLength(script[c], taken[c], "one")
    /\ (at[c] \in {"respond", "open", "copy", "flush"} /\ Unsplit(script[c]))
           => IsRequest(script[c], taken[c])

\* What there is of its response.
Composed(c) ==
    /\ at[c] \in Reading => status[c] = "none" /\ made[c] = 0
    /\ at[c] \in {"open", "copy", "flush"} => status[c] # "none"
    /\ at[c] \in {"open", "copy"} =>
           /\ status[c] = "200" /\ method[c] # "HEAD"
           /\ made[c] >= 1
           /\ c \notin disturbed => now[c] = size[c]
    /\ at[c] = "open" => made[c] = 1
    /\ (at[c] = "copy" /\ c \notin disturbed) => kind[c] = "regular" /\ made[c] <= now[c] + 1
    /\ (at[c] = "flush" /\ c \notin disturbed) => made[c] = Whole(c)

Delivered(c) ==
    \/ got[c] = made[c] /\ made[c] = Whole(c)
    \/ status[c] = "200" /\ method[c] # "HEAD" /\ kind[c] # "regular"

\* What it leaves when it ends.
Ended(c) ==
    /\ (at[c] \in Finished /\ status[c] # "none" /\ Unsplit(script[c]))
           => IsRequest(script[c], taken[c])
    /\ (at[c] = "exited" /\ c \notin disturbed /\ Unsplit(script[c]) /\ HasRequest(script[c]))
           => status[c] # "none"
    /\ (/\ at[c] \in Finished /\ client[c] # "gone" /\ c \notin disturbed
        /\ Unsplit(script[c]) /\ IsRequest(script[c], Len(script[c]))) => Delivered(c)

ChildOK(c) == Parsed(c) /\ Composed(c) /\ Ended(c)

IInv == TypeOK /\ QueueIsNew /\ \A c \in Conns : ChildOK(c)

---------------------------------------------------------------------------
(* Steps that leave a child as it is                                       *)

\* Nothing c's child is about has changed, except that more may have come in its way.
Same(c) ==
    /\ UNCHANGED <<at[c], taken[c], method[c], length[c], status[c], size[c], made[c],
                   sent[c], got[c], kind[c], now[c], script[c]>>
    /\ at[c] \in Finished => (client[c] = "gone" => client'[c] = "gone")
    /\ c \in disturbed => c \in disturbed'

LEMMA SameStays ==
  ASSUME NEW c \in Conns, ChildOK(c), Same(c)
  PROVE  ChildOK(c)'
<1>1. Parsed(c)'
  BY DEF ChildOK, Same, Parsed
<1>2. Composed(c)'
  BY DEF ChildOK, Same, Composed, Whole
<1>3. Ended(c)'
  <2>1. Delivered(c)' <=> Delivered(c)
    BY DEF Same, Delivered, Whole
  <2>2. QED
    BY <2>1 DEF ChildOK, Same, Ended
<1>4. QED
  BY <1>1, <1>2, <1>3 DEF ChildOK

\* The end of a process changes clients and the queue only where nobody was accepted.
LEMMA QueueFacts ==
  ASSUME TypeOK, NEW last \in BOOLEAN, QueueAfter(last)
  PROVE  /\ backlog' = backlog \/ backlog' = <<>>
         /\ backlog' \in Seq(Conns)
         /\ client' \in [Conns -> {"new", "on", "shut", "gone", "refused"}]
         /\ \A c \in Conns : client'[c] = client[c] \/ (Queued(c) /\ client'[c] = "refused")
<1>1. CASE last
  BY <1>1, EmptySeq DEF TypeOK, QueueAfter
<1>2. CASE ~last
  BY <1>2 DEF TypeOK, QueueAfter
<1>3. QED
  BY <1>1, <1>2

---------------------------------------------------------------------------
(* Types                                                                   *)

\* The end of a child keeps the types, wherever it comes.
LEMMA EndChildTypes ==
  ASSUME TypeOK, NEW c \in Conns, NEW place \in Finished, NEW units \in Nat, units <= made[c],
         EndChild(c, place, units),
         taken' \in [Conns -> Nat], \A d \in Conns : taken'[d] <= Len(script[d]),
         failures' \in Nat, disturbed' \subseteq Conns
  PROVE  TypeOK'
<1> USE DEF TypeOK, EndChild, parentVars, fileVars
<1>1. /\ backlog' \in Seq(Conns)
      /\ client' \in [Conns -> {"new", "on", "shut", "gone", "refused"}]
  BY QueueFacts
<1>2. at' \in [Conns -> {"none"} \cup Working \cup Finished]
  OBVIOUS
<1>3. sent' \in [Conns -> Nat] /\ \A d \in Conns : sent'[d] <= made[d]
  OBVIOUS
<1>4. got' \in [Conns -> Nat]
  <2>1. PICK u \in IF client[c] = "gone" THEN {0}
                   ELSE IF taken'[c] < Len(script[c]) THEN 0 .. units ELSE {units} :
                 got' = [got EXCEPT ![c] = u]
    OBVIOUS
  <2>2. u \in Nat
    OBVIOUS
  <2>3. QED
    BY <2>1, <2>2
<1>5. QED
  BY <1>1, <1>2, <1>3, <1>4

LEMMA TakeTypes ==
  ASSUME TypeOK, NEW c \in Conns, HasToken(c), Take(c)
  PROVE  /\ taken' = [taken EXCEPT ![c] = taken[c] + 1]
         /\ taken' \in [Conns -> Nat]
         /\ \A d \in Conns : taken'[d] <= Len(script[d])
         /\ taken[c] + 1 \in 1 .. Len(script[c]) /\ Token(c) \in Tokens
         /\ taken'[c] = taken[c] + 1
<1>1. script[c] \in Seq(Tokens) /\ Len(script[c]) \in Nat /\ taken[c] \in Nat
  BY LenProperties DEF TypeOK
<1>2. taken[c] + 1 \in 1 .. Len(script[c]) /\ Token(c) \in Tokens
  BY <1>1, LenProperties DEF HasToken, Token
<1>3. QED
  BY <1>1, <1>2 DEF Take, TypeOK

\* Leaving without a token more, and leaving with one.
LEMMA ExitTypes ==
  ASSUME TypeOK, NEW c \in Conns, Exit(c),
         (taken' = taken) \/ (HasToken(c) /\ Take(c)),
         failures' \in Nat, disturbed' \subseteq Conns
  PROVE  TypeOK'
<1>1. taken' \in [Conns -> Nat] /\ \A d \in Conns : taken'[d] <= Len(script[d])
  BY TakeTypes DEF TypeOK
<1>2. made[c] \in Nat /\ "exited" \in Finished
  BY DEF TypeOK, Finished
<1>3. QED
  BY <1>1, <1>2, EndChildTypes DEF Exit

LEMMA StartTypes == TypeOK /\ Start => TypeOK'
<1> SUFFICES ASSUME TypeOK, Start PROVE TypeOK'
  OBVIOUS
<1>1. PICK from, to :
         /\ StartStep(from, to)
         /\ from \notin {"fork", "close"} /\ to \notin {"fork", "close"}
         /\ to \in {"environment", "signals", "listen", "daemon", "accept", "exited"}
         /\ root' \in {"docroot", "relative", "elsewhere"}
  BY DEF Start, Options, SetupEnvironment, InstallSignalHandlers, ListenSocket, BecomeDaemon, TypeOK
<1>2. QED
  BY <1>1 DEF TypeOK, StartStep, netVars, childVars, requestVars, responseVars, fileVars

LEMMA ServeTypes == TypeOK /\ (Serve \/ ServerExits) => TypeOK'
<1> SUFFICES ASSUME TypeOK, Serve \/ ServerExits PROVE TypeOK'
  OBVIOUS
<1> USE DEF TypeOK, parentVars, netVars, childVars, requestVars, responseVars, fileVars
<1>1. ASSUME Accept PROVE TypeOK'
  <2>1. Head(backlog) \in Conns /\ Tail(backlog) \in Seq(Conns)
    BY <1>1, HeadTailProperties DEF Accept
  <2>2. QED
    BY <1>1, <2>1, HttpdAssumption DEF Accept
<1>2. ASSUME Fork PROVE TypeOK'
  BY <1>2, HttpdAssumption DEF Fork, Working
<1>3. ASSUME CloseSock PROVE TypeOK'
  BY <1>3 DEF CloseSock
<1>4. ASSUME ServerExits PROVE TypeOK'
  <2>1. /\ backlog' \in Seq(Conns)
        /\ client' \in [Conns -> {"new", "on", "shut", "gone", "refused"}]
    BY <1>4, QueueFacts DEF ServerExits
  <2>2. QED
    BY <1>4, <2>1 DEF ServerExits
<1>5. QED
  BY <1>1, <1>2, <1>3, <1>4 DEF Serve

\* A connection nobody has used has no child that has read anything.
LEMMA NewIsFresh ==
  ASSUME IInv, NEW c \in Conns, client[c] = "new"
  PROVE  at[c] = "none" /\ taken[c] = 0 /\ ~Queued(c) /\ sock # c
<1>1. at[c] = "none" /\ ~Queued(c)
  BY DEF IInv, QueueIsNew, Queued
<1>2. sock # c
  BY HttpdAssumption DEF IInv, QueueIsNew
<1>3. QED
  BY <1>1, <1>2 DEF IInv, ChildOK, Parsed

LEMMA ConnectTypes ==
  ASSUME IInv, NEW c \in Conns, Connect(c)
  PROVE  TypeOK'
<1> TypeOK
  BY DEF IInv
<1>1. client' \in [Conns -> {"new", "on", "shut", "gone", "refused"}]
  BY DEF Connect, TypeOK
<1>2. backlog' \in Seq(Conns)
  <2>1. backlog' = backlog \/ backlog' = Append(backlog, c)
    BY DEF Connect
  <2>2. backlog \in Seq(Conns)
    BY DEF TypeOK
  <2>3. Append(backlog, c) \in Seq(Conns)
    BY <2>2, AppendProperties
  <2>4. QED
    BY <2>1, <2>2, <2>3
<1>3. /\ script' \in [Conns -> Seq(Tokens)]
      /\ \A d \in Conns : taken[d] <= Len(script'[d])
  <2>1. CASE script' = script
    BY <2>1 DEF TypeOK
  <2>2. ASSUME NEW s \in Scripts[c], script' = [script EXCEPT ![c] = s]
        PROVE  /\ script' \in [Conns -> Seq(Tokens)]
               /\ \A d \in Conns : taken[d] <= Len(script'[d])
    <3>1. s \in Seq(Tokens) /\ Len(s) \in Nat
      BY HttpdAssumption, LenProperties
    <3>2. taken[c] = 0
      BY NewIsFresh DEF Connect
    <3>3. script \in [Conns -> Seq(Tokens)] /\ \A d \in Conns : taken[d] <= Len(script[d])
      BY DEF TypeOK
    <3>4. /\ script' \in [Conns -> Seq(Tokens)]
          /\ \A d \in Conns : script'[d] = IF d = c THEN s ELSE script[d]
      BY <2>2, <3>1, <3>3
    <3>5. QED
      BY <3>1, <3>2, <3>3, <3>4
  <2>3. QED
    BY <2>1, <2>2 DEF Connect
<1>4. QED
  BY <1>1, <1>2, <1>3
     DEF Connect, TypeOK, parentVars, childVars, requestVars, responseVars, fileVars

LEMMA ClientTypes ==
  ASSUME TypeOK, NEW c \in Conns, Depart(c) \/ ChangeFile(c)
  PROVE  TypeOK'
<1> USE DEF parentVars, netVars, childVars, requestVars, responseVars, fileVars
<1>1. ASSUME Depart(c) PROVE TypeOK'
  BY <1>1 DEF Depart, TypeOK
<1>2. ASSUME ChangeFile(c) PROVE TypeOK'
  <2>1. now \in [Conns -> Nat] /\ kind \in [Conns -> Kinds]
    BY DEF TypeOK
  <2>2. now' \in [Conns -> Nat] /\ kind' \in [Conns -> Kinds]
    <3>1. CASE \E n \in Sizes \ {now[c]} : now' = [now EXCEPT ![c] = n] /\ UNCHANGED kind
      BY <2>1, <3>1, HttpdAssumption
    <3>2. CASE \E k \in Kinds \ {"regular"} : kind' = [kind EXCEPT ![c] = k] /\ UNCHANGED now
      BY <2>1, <3>2
    <3>3. QED
      BY <1>2, <3>1, <3>2 DEF ChangeFile
  <2>3. changes' \in Nat /\ disturbed' \subseteq Conns
    BY <1>2 DEF ChangeFile, TypeOK
  <2>4. UNCHANGED <<main, root, sock, backlog, client, script, at, taken, method, length,
                    status, size, made, sent, got, failures>>
    BY <1>2 DEF ChangeFile
  <2>5. QED
    BY <2>2, <2>3, <2>4 DEF TypeOK
<1>3. QED
  BY <1>1, <1>2

\* The steps of a child that goes on.
LEMMA ReadTypes ==
  ASSUME TypeOK, NEW c \in Conns,
         ReadRequestLine(c) \/ ReadHeaderField(c) \/ EndHeader(c) \/ BadHeader(c) \/ ReadBody(c)
  PROVE  TypeOK'
<1>1. ASSUME NoRead(c) \/ (HasToken(c) /\ LogExit(c)) PROVE TypeOK'
  BY <1>1, ExitTypes DEF NoRead, LogExit, TypeOK
<1> USE DEF Goes, parentVars, netVars, responseVars
<1>2. ASSUME HasToken(c), Take(c), NEW m \in Methods, NEW l \in Lengths, NEW place \in Working,
             Goes(c, place), UNCHANGED <<responseVars, kind, now>>,
             method' \in {method, [method EXCEPT ![c] = m]},
             length' \in {length, [length EXCEPT ![c] = l]}
      PROVE  TypeOK'
  <2>1. taken' \in [Conns -> Nat] /\ \A d \in Conns : taken'[d] <= Len(script[d])
    BY <1>2, TakeTypes
  <2>2. /\ method' \in [Conns -> {"none"} \cup Methods]
        /\ length' \in [Conns -> Lengths]
        /\ at' \in [Conns -> {"none"} \cup Working \cup Finished]
    <3>1. /\ method \in [Conns -> {"none"} \cup Methods]
          /\ length \in [Conns -> Lengths]
          /\ at \in [Conns -> {"none"} \cup Working \cup Finished]
      BY DEF TypeOK
    <3>2. QED
      BY <1>2, <3>1
  <2>3. UNCHANGED <<main, root, sock, backlog, client, script, status, size, made, sent, got,
                    kind, now, changes, failures, disturbed>>
    BY <1>2
  <2>4. QED
    BY <2>1, <2>2, <2>3 DEF TypeOK
<1>3. {"line", "field", "body", "respond"} \subseteq Working /\ "none" \in Lengths /\ "GET" \in Methods
  BY DEF Working, Lengths, Methods
<1>4. ASSUME ReadRequestLine(c) PROVE TypeOK'
  BY <1>1, <1>2, <1>3, <1>4 DEF ReadRequestLine
<1>5. ASSUME ReadHeaderField(c) PROVE TypeOK'
  <2>1. length' = length \/ (Token(c) \in Lengths /\ length' = [length EXCEPT ![c] = Token(c)])
    <3>1. length' = [length EXCEPT ![c] = IF Token(c) = "field" THEN length[c] ELSE Token(c)]
      BY <1>5 DEF ReadHeaderField
    <3>2. length = [length EXCEPT ![c] = length[c]]
      BY DEF TypeOK
    <3>3. QED
      BY <1>5, <3>1, <3>2 DEF ReadHeaderField
  <2>2. QED
    BY <1>2, <1>3, <1>5, <2>1 DEF ReadHeaderField
<1>6. ASSUME EndHeader(c) PROVE TypeOK'
  <2>1. HasToken(c)
    BY <1>6 DEF EndHeader
  <2>2. LogExit(c) \/ \E place \in {"body", "respond"} :
            /\ Take(c) /\ Goes(c, place)
            /\ UNCHANGED <<method, length, responseVars, kind, now>>
    BY <1>6 DEF EndHeader
  <2>3. QED
    BY <1>1, <1>2, <1>3, <2>1, <2>2
<1>7. ASSUME BadHeader(c) PROVE TypeOK'
  BY <1>1, <1>7 DEF BadHeader
<1>8. ASSUME ReadBody(c) PROVE TypeOK'
  BY <1>1, <1>2, <1>3, <1>8 DEF ReadBody
<1>9. QED
  BY <1>4, <1>5, <1>6, <1>7, <1>8

LEMMA RespondTypes ==
  ASSUME IInv, NEW c \in Conns,
         FileResponse(c) \/ MethodNotAllowed(c) \/ NotImplemented(c)
           \/ OpenFile(c) \/ CopyBlock(c) \/ EndOfFile(c) \/ Flush(c) \/ SigPipe(c) \/ CallFails(c)
  PROVE  TypeOK'
<1> TypeOK /\ ChildOK(c)
  BY DEF IInv
<1>1. ASSUME at[c] = "respond", NEW code \in Statuses, NEW units \in Nat, NEW place \in Working,
             Answer(c, code, units, place),
             size' \in [Conns -> Nat], now' \in [Conns -> Nat], kind' \in [Conns -> Kinds]
      PROVE  TypeOK'
  <2>1. sent[c] = 0
    BY <1>1 DEF TypeOK, ChildOK, Composed, Reading
  <2>2. made' \in [Conns -> Nat] /\ \A d \in Conns : sent[d] <= made'[d]
    BY <1>1, <2>1 DEF TypeOK, Answer
  <2>3. QED
    BY <1>1, <2>2 DEF TypeOK, Answer, Goes, parentVars, netVars, requestVars
<1>2. ASSUME Exit(c), UNCHANGED taken, failures' \in Nat, disturbed' \subseteq Conns
      PROVE  TypeOK'
  BY <1>2, ExitTypes
<1>3. /\ {"open", "copy", "flush"} \subseteq Working
      /\ {"200", "404", "405", "501"} \subseteq Statuses
  BY DEF Working, Statuses
<1>4. ASSUME FileResponse(c) PROVE TypeOK'
  <2>1. at[c] = "respond"
    BY <1>4 DEF FileResponse
  <2>2. PICK k \in Kinds, n \in Sizes :
           /\ kind' = [kind EXCEPT ![c] = k]
           /\ IF k \in {"regular", "unreadable"}
              THEN /\ size' = [size EXCEPT ![c] = n]
                   /\ now' = [now EXCEPT ![c] = n]
                   /\ Answer(c, "200", 1, IF method[c] = "HEAD" THEN "flush" ELSE "open")
              ELSE /\ Answer(c, "404", IF method[c] = "HEAD" THEN 1 ELSE 2, "flush")
                   /\ UNCHANGED <<size, now>>
    BY <1>4 DEF FileResponse, Kinds
  <2>3. size' \in [Conns -> Nat] /\ now' \in [Conns -> Nat] /\ kind' \in [Conns -> Kinds]
    <3>1. n \in Nat
      BY HttpdAssumption
    <3>2. kind' \in [Conns -> Kinds]
      <4>1. kind' = [kind EXCEPT ![c] = k]
        BY <2>2
      <4>2. kind \in [Conns -> Kinds]
        BY DEF TypeOK
      <4>3. QED
        BY <4>1, <4>2
    <3>3. CASE k \in {"regular", "unreadable"}
      <4>1. size' = [size EXCEPT ![c] = n] /\ now' = [now EXCEPT ![c] = n]
        BY <2>2, <3>3
      <4>2. size \in [Conns -> Nat] /\ now \in [Conns -> Nat]
        BY DEF TypeOK
      <4>3. QED
        BY <3>1, <3>2, <4>1, <4>2
    <3>4. CASE k \notin {"regular", "unreadable"}
      BY <2>2, <3>2, <3>4 DEF TypeOK
    <3>5. QED
      BY <3>3, <3>4
  <2>4. \E code \in Statuses, units \in Nat, place \in Working : Answer(c, code, units, place)
    BY <1>3, <2>2
  <2>5. QED
    BY <1>1, <2>1, <2>3, <2>4
<1>5. ASSUME MethodNotAllowed(c) \/ NotImplemented(c) PROVE TypeOK'
  <2>1. size' \in [Conns -> Nat] /\ now' \in [Conns -> Nat] /\ kind' \in [Conns -> Kinds]
    BY <1>5 DEF MethodNotAllowed, NotImplemented, TypeOK
  <2>2. QED
    BY <1>1, <1>3, <1>5, <2>1 DEF MethodNotAllowed, NotImplemented
<1>6. ASSUME OpenFile(c) PROVE TypeOK'
  <2>1. CASE Goes(c, "copy") /\ UNCHANGED <<requestVars, responseVars, kind, now>>
    BY <1>3, <2>1 DEF TypeOK, Goes, parentVars, netVars, requestVars, responseVars
  <2>2. CASE UNCHANGED <<taken, failures, disturbed>> /\ Exit(c)
    BY <1>2, <2>2 DEF TypeOK
  <2>3. QED
    BY <1>6, <2>1, <2>2 DEF OpenFile
<1>7. ASSUME CopyBlock(c) PROVE TypeOK'
  <2>1. made' = [made EXCEPT ![c] = made[c] + 1] /\ sent' \in {sent, [sent EXCEPT ![c] = made[c] + 1]}
    BY <1>7 DEF CopyBlock
  <2>2. /\ made' \in [Conns -> Nat] /\ sent' \in [Conns -> Nat]
        /\ \A d \in Conns : sent'[d] <= made'[d]
    <3>1. CASE sent' = sent
      BY <2>1, <3>1 DEF TypeOK
    <3>2. CASE sent' = [sent EXCEPT ![c] = made[c] + 1]
      BY <2>1, <3>2 DEF TypeOK
    <3>3. QED
      BY <2>1, <3>1, <3>2
  <2>3. QED
    BY <1>3, <1>7, <2>2 DEF CopyBlock, TypeOK, Goes, parentVars, netVars, requestVars
<1>8. ASSUME EndOfFile(c) PROVE TypeOK'
  BY <1>3, <1>8 DEF EndOfFile, TypeOK, Goes, parentVars, netVars, requestVars, responseVars
<1>9. ASSUME Flush(c) PROVE TypeOK'
  BY <1>2, <1>9 DEF Flush, TypeOK
<1>10. ASSUME SigPipe(c) PROVE TypeOK'
  <2>1. "killed" \in Finished /\ sent[c] \in Nat /\ sent[c] <= made[c]
    BY DEF Finished, TypeOK
  <2>2. QED
    BY <1>10, <2>1, EndChildTypes DEF SigPipe, TypeOK
<1>11. ASSUME CallFails(c) PROVE TypeOK'
  <2>1. failures' \in Nat /\ disturbed' \subseteq Conns
    BY <1>11 DEF CallFails, TypeOK
  <2>2. QED
    BY <1>2, <1>11, <2>1 DEF CallFails
<1>12. QED
  BY <1>4, <1>5, <1>6, <1>7, <1>8, <1>9, <1>10, <1>11

LEMMA TypeStep == IInv /\ [Next]_vars => TypeOK'
<1> SUFFICES ASSUME IInv, [Next]_vars PROVE TypeOK'
  OBVIOUS
<1>1. TypeOK
  BY DEF IInv
<1>2. ASSUME UNCHANGED vars PROVE TypeOK'
  BY <1>1, <1>2 DEF TypeOK, vars, parentVars, netVars, childVars, requestVars, responseVars, fileVars
<1>3. ASSUME NEW c \in Conns, Service(c) \/ SigPipe(c) \/ CallFails(c) PROVE TypeOK'
  BY <1>1, <1>3, ReadTypes, RespondTypes DEF Service
<1>4. ASSUME NEW c \in Conns, Connect(c) \/ Depart(c) \/ ChangeFile(c) PROVE TypeOK'
  BY <1>1, <1>4, ConnectTypes, ClientTypes
<1>5. QED
  BY <1>1, <1>2, <1>3, <1>4, StartTypes, ServeTypes DEF Next

---------------------------------------------------------------------------
(* What the steps of a child leave alone                                   *)

\* Only the child for c has done something.
OnlyChild(c) ==
    /\ at[c] \in Working
    /\ UNCHANGED <<main, sock, script>>
    /\ backlog' = backlog \/ backlog' = <<>>
    /\ \A d \in Conns : client'[d] = client[d] \/ (Queued(d) /\ client'[d] = "refused")
    /\ \A d \in Conns \ {c} :
           /\ UNCHANGED <<at[d], taken[d], method[d], length[d], status[d], size[d], made[d],
                          sent[d], got[d], kind[d], now[d]>>
           /\ d \in disturbed => d \in disturbed'

LEMMA EndIsOnlyChild ==
  ASSUME TypeOK, NEW c \in Conns, NEW place, NEW units, EndChild(c, place, units),
         at[c] \in Working, disturbed \subseteq disturbed',
         taken' = taken \/ Take(c)
  PROVE  /\ OnlyChild(c)
         /\ at'[c] = place /\ sent'[c] = units
         /\ \E u \in IF client[c] = "gone" THEN {0}
                     ELSE IF taken'[c] < Len(script[c]) THEN 0 .. units ELSE {units} :
                got'[c] = u
         /\ UNCHANGED <<script, method, length, status, size, made, kind, now>>
<1>1. QueueAfter(main = "exited" /\ Live = {c})
  BY DEF EndChild
<1>2. (main = "exited" /\ Live = {c}) \in BOOLEAN
  OBVIOUS
<1>3. /\ backlog' = backlog \/ backlog' = <<>>
      /\ \A d \in Conns : client'[d] = client[d] \/ (Queued(d) /\ client'[d] = "refused")
  BY <1>1, <1>2, QueueFacts
<1>4. PICK u \in IF client[c] = "gone" THEN {0}
                 ELSE IF taken'[c] < Len(script[c]) THEN 0 .. units ELSE {units} :
               got' = [got EXCEPT ![c] = u]
  BY DEF EndChild
<1>5. got'[c] = u /\ \A d \in Conns \ {c} : got'[d] = got[d]
  BY <1>4 DEF TypeOK
<1>6. at'[c] = place /\ sent'[c] = units
      /\ \A d \in Conns \ {c} : at'[d] = at[d] /\ sent'[d] = sent[d] /\ taken'[d] = taken[d]
  BY DEF EndChild, TypeOK, Take
<1>7. UNCHANGED <<main, sock, script, method, length, status, size, made, kind, now>>
  BY DEF EndChild, parentVars, fileVars
<1>8. QED
  BY <1>3, <1>4, <1>5, <1>6, <1>7 DEF OnlyChild

LEMMA GoingIsOnlyChild ==
  ASSUME TypeOK, NEW c \in Conns, NEW place, Goes(c, place), at[c] \in Working,
         \A d \in Conns \ {c} :
             UNCHANGED <<taken[d], method[d], length[d], status[d], size[d], made[d],
                         sent[d], got[d], kind[d], now[d]>>
  PROVE  OnlyChild(c) /\ at'[c] = place /\ UNCHANGED <<client, script, disturbed>>
<1>1. at'[c] = place /\ \A d \in Conns \ {c} : at'[d] = at[d]
  BY DEF Goes, TypeOK
<1>2. UNCHANGED <<main, sock, backlog, client, script, disturbed>>
  BY DEF Goes, parentVars, netVars
<1>3. QED
  BY <1>1, <1>2 DEF OnlyChild

---------------------------------------------------------------------------
(* The child reads                                                         *)

\* A child that ends without an answer may do so if there is no request.
LEMMA EndsUnanswered ==
  ASSUME IInv, NEW c \in Conns, Exit(c), at[c] \in Reading \cap Working,
         taken' = taken \/ Take(c), disturbed \subseteq disturbed',
         c \in disturbed' \/ (Unsplit(script[c]) => ~HasRequest(script[c]))
  PROVE  OnlyChild(c) /\ ChildOK(c)'
<1> TypeOK /\ ChildOK(c)
  BY DEF IInv
<1>1. OnlyChild(c) /\ at'[c] = "exited" /\ UNCHANGED <<script, status, made>>
  BY EndIsOnlyChild DEF Exit
<1>2. status'[c] = "none"
  BY <1>1 DEF ChildOK, Composed
<1>3. IsRequest(script[c], Len(script[c])) => HasRequest(script[c])
  BY DEF IsRequest, HasRequest
<1>4. Parsed(c)' /\ Composed(c)'
  BY <1>1 DEF Parsed, Composed, Reading
<1>5. Ended(c)'
  BY <1>1, <1>2, <1>3 DEF Ended
<1>6. QED
  BY <1>1, <1>4, <1>5 DEF ChildOK

\* What c's child has read is the beginning of what the client has sent.
LEMMA ReadFacts ==
  ASSUME TypeOK, NEW c \in Conns
  PROVE  /\ script[c] \in Seq(Tokens) /\ Len(script[c]) \in Nat
         /\ taken[c] \in Nat /\ taken[c] <= Len(script[c])
         /\ Eof(c) => taken[c] = Len(script[c])
         /\ HasToken(c) => taken[c] + 1 \in 1 .. Len(script[c]) /\ Token(c) \in Tokens
         /\ HasToken(c) /\ Take(c) => taken'[c] = taken[c] + 1
         /\ Take(c) => \A d \in Conns \ {c} : taken'[d] = taken[d]
<1>1. script[c] \in Seq(Tokens) /\ Len(script[c]) \in Nat
      /\ taken[c] \in Nat /\ taken[c] <= Len(script[c])
  BY LenProperties DEF TypeOK
<1>2. Eof(c) => taken[c] = Len(script[c])
  BY <1>1 DEF Eof, HasToken
<1>3. Take(c) => taken'[c] = taken[c] + 1 /\ \A d \in Conns \ {c} : taken'[d] = taken[d]
  BY DEF Take, TypeOK
<1>4. HasToken(c) => taken[c] + 1 \in 1 .. Len(script[c]) /\ Token(c) \in Tokens
  BY <1>1, LenProperties DEF HasToken, Token
<1>5. QED
  BY <1>1, <1>2, <1>3, <1>4

LEMMA RequestLineStep ==
  ASSUME IInv, NEW c \in Conns, ReadRequestLine(c)
  PROVE  OnlyChild(c) /\ ChildOK(c)'
<1> TypeOK /\ ChildOK(c)
  BY DEF IInv
<1>1. at[c] = "line" /\ taken[c] = 0 /\ length[c] = "none" /\ at[c] \in Reading \cap Working
  BY DEF ReadRequestLine, ChildOK, Parsed, Reading, Working
<1>2. ASSUME HasToken(c), Token(c) \in Methods, Take(c), Goes(c, "field"),
             method' = [method EXCEPT ![c] = Token(c)], UNCHANGED <<length, responseVars, kind, now>>
      PROVE  OnlyChild(c) /\ ChildOK(c)'
  <2>1. OnlyChild(c) /\ at'[c] = "field" /\ script' = script
    BY <1>1, <1>2, ReadFacts, GoingIsOnlyChild DEF responseVars, TypeOK
  <2>2. taken'[c] = 1 /\ script[c][1] \in Methods /\ length'[c] = "none"
    BY <1>1, <1>2, ReadFacts DEF Token
  <2>3. Fields(script[c], 1) /\ IsLength(script[c], 1 + 1, "none")
    BY DEF Fields, IsLength
  <2>4. Parsed(c)'
    BY <2>1, <2>2, <2>3 DEF Parsed
  <2>5. Composed(c)' /\ Ended(c)'
    BY <1>1, <1>2, <2>1 DEF ChildOK, Composed, Ended, Reading, Finished, responseVars
  <2>6. QED
    BY <2>1, <2>4, <2>5 DEF ChildOK
<1>3. ASSUME HasToken(c), Token(c) \notin Methods, LogExit(c) PROVE OnlyChild(c) /\ ChildOK(c)'
  <2>1. ~HasRequest(script[c])
    BY <1>1, <1>3 DEF HasRequest, IsRequest, Token
  <2>2. QED
    BY <1>1, <1>3, <2>1, EndsUnanswered DEF LogExit
<1>4. ASSUME NoRead(c) PROVE OnlyChild(c) /\ ChildOK(c)'
  <2>1. ~HasRequest(script[c])
    BY <1>1, <1>4, ReadFacts DEF HasRequest, NoRead
  <2>2. QED
    BY <1>1, <1>4, <2>1, EndsUnanswered DEF NoRead
<1>5. QED
  BY <1>2, <1>3, <1>4 DEF ReadRequestLine

LEMMA HeaderFieldStep ==
  ASSUME IInv, NEW c \in Conns, ReadHeaderField(c)
  PROVE  OnlyChild(c) /\ ChildOK(c)'
<1> TypeOK /\ ChildOK(c)
  BY DEF IInv
<1>1. /\ at[c] = "field" /\ taken[c] >= 1 /\ script[c][1] \in Methods
      /\ Fields(script[c], taken[c]) /\ IsLength(script[c], taken[c] + 1, length[c])
      /\ at[c] \in Reading \cap Working
  BY DEF ReadHeaderField, ChildOK, Parsed, Reading, Working
<1>2. /\ HasToken(c) /\ Token(c) \in FieldTokens /\ Take(c) /\ Goes(c, "field")
      /\ length' = [length EXCEPT ![c] = IF Token(c) = "field" THEN @ ELSE Token(c)]
      /\ UNCHANGED <<method, responseVars, kind, now>>
  BY DEF ReadHeaderField, FieldTokens
<1>3. OnlyChild(c) /\ at'[c] = "field" /\ script' = script
  BY <1>1, <1>2, ReadFacts, GoingIsOnlyChild DEF responseVars, TypeOK
<1>4. length'[c] = IF Token(c) = "field" THEN length[c] ELSE Token(c)
  BY <1>2 DEF TypeOK
<1>5. taken'[c] = taken[c] + 1 /\ Token(c) = script[c][taken[c] + 1]
  BY <1>2, ReadFacts DEF Token
<1>6. IsLength(script[c], taken[c] + 2, length'[c])
  <2>1. taken[c] < Len(script[c])
    BY <1>2 DEF HasToken
  <2>2. /\ Token(c) = "field" => IsLength(script[c], taken[c] + 2, length[c])
        /\ Token(c) \in Lengths => IsLength(script[c], taken[c] + 2, Token(c))
    BY <1>1, <1>5, <2>1, ReadFacts, FieldMovesLength
  <2>3. QED
    BY <1>2, <1>4, <2>2 DEF FieldTokens
<1>7. Fields(script[c], taken[c] + 1)
  BY <1>1, <1>2, <1>5, ReadFacts DEF Fields
<1>8. Parsed(c)'
  BY <1>1, <1>3, <1>5, <1>6, <1>7, ReadFacts DEF Parsed
<1>9. Composed(c)' /\ Ended(c)'
  BY <1>1, <1>2, <1>3 DEF ChildOK, Composed, Ended, Reading, Finished, responseVars
<1>10. QED
  BY <1>3, <1>8, <1>9 DEF ChildOK

LEMMA EndHeaderStep ==
  ASSUME IInv, NEW c \in Conns, EndHeader(c)
  PROVE  OnlyChild(c) /\ ChildOK(c)'
<1> TypeOK /\ ChildOK(c)
  BY DEF IInv
<1>1. /\ at[c] = "field" /\ taken[c] >= 1 /\ script[c][1] \in Methods
      /\ Fields(script[c], taken[c]) /\ IsLength(script[c], taken[c] + 1, length[c])
      /\ at[c] \in Reading \cap Working
  BY DEF EndHeader, ChildOK, Parsed, Reading, Working
<1>2. /\ HasToken(c) /\ Token(c) \in {"blank", "nl"} /\ Token(c) = script[c][taken[c] + 1]
      /\ taken[c] + 1 <= Len(script[c])
  BY ReadFacts DEF EndHeader, Token
<1>3. Unsplit(script[c]) => script[c][taken[c] + 1] = "blank"
  BY <1>2, ReadFacts DEF Unsplit
<1>4. ASSUME length[c] \in {"none", "zero", "one"}, Take(c),
             Goes(c, IF length[c] = "one" THEN "body" ELSE "respond"),
             UNCHANGED <<method, length, responseVars, kind, now>>
      PROVE  OnlyChild(c) /\ ChildOK(c)'
  <2>1. /\ OnlyChild(c) /\ script' = script
        /\ at'[c] = IF length[c] = "one" THEN "body" ELSE "respond"
        /\ taken'[c] = taken[c] + 1
    BY <1>1, <1>2, <1>4, ReadFacts, GoingIsOnlyChild DEF responseVars, TypeOK
  <2>2. ASSUME length[c] # "one", Unsplit(script[c]) PROVE IsRequest(script[c], taken[c] + 1)
    BY <1>1, <1>2, <1>3, <1>4, <2>2, ReadFacts, RequestIsWhole
  <2>3. Parsed(c)'
    BY <1>1, <1>3, <1>4, <2>1, <2>2, ReadFacts DEF Parsed
  <2>4. Composed(c)' /\ Ended(c)'
    BY <1>1, <1>4, <2>1 DEF ChildOK, Composed, Ended, Reading, Finished, responseVars
  <2>5. QED
    BY <2>1, <2>3, <2>4 DEF ChildOK
<1>5. ASSUME length[c] \in {"minus", "huge"}, LogExit(c) PROVE OnlyChild(c) /\ ChildOK(c)'
  <2>1. Unsplit(script[c]) => ~HasRequest(script[c])
    <3>1. SUFFICES ASSUME Unsplit(script[c]), NEW n, IsRequest(script[c], n) PROVE FALSE
      BY DEF HasRequest
    <3>2. \E l \in {"none", "zero", "one"} : IsLength(script[c], taken[c] + 1, l)
      BY <1>1, <1>3, <3>1, ReadFacts, HeaderGoesOn
    <3>3. QED
      BY <1>1, <1>2, <1>5, <3>2, ReadFacts, LengthIsUnique
  <2>2. QED
    BY <1>1, <1>5, <2>1, EndsUnanswered DEF LogExit
<1>6. QED
  BY <1>4, <1>5 DEF EndHeader

LEMMA BadHeaderStep ==
  ASSUME IInv, NEW c \in Conns, BadHeader(c)
  PROVE  OnlyChild(c) /\ ChildOK(c)'
<1> TypeOK /\ ChildOK(c)
  BY DEF IInv
<1>1. /\ at[c] = "field" /\ taken[c] >= 1 /\ Fields(script[c], taken[c])
      /\ at[c] \in Reading \cap Working
  BY DEF BadHeader, ChildOK, Parsed, Reading, Working
<1>2. ASSUME HasRequest(script[c])
      PROVE  taken[c] < Len(script[c]) /\ script[c][taken[c] + 1] \in FieldTokens \cup {"blank"}
  BY <1>1, <1>2, ReadFacts, HeaderGoesOn DEF HasRequest
<1>3. ASSUME HasToken(c), Token(c) \in Methods \cup {"bad", "byte"}, LogExit(c)
      PROVE  OnlyChild(c) /\ ChildOK(c)'
  <2>1. Token(c) = script[c][taken[c] + 1] /\ Token(c) \notin FieldTokens \cup {"blank"}
    BY <1>3 DEF Token, FieldTokens, Lengths, Methods
  <2>2. ~HasRequest(script[c])
    BY <1>2, <2>1
  <2>3. QED
    BY <1>1, <1>3, <2>2, EndsUnanswered DEF LogExit
<1>4. ASSUME NoRead(c) PROVE OnlyChild(c) /\ ChildOK(c)'
  <2>1. ~HasRequest(script[c])
    BY <1>2, <1>4, ReadFacts DEF NoRead
  <2>2. QED
    BY <1>1, <1>4, <2>1, EndsUnanswered DEF NoRead
<1>5. QED
  BY <1>3, <1>4 DEF BadHeader

LEMMA BodyStep ==
  ASSUME IInv, NEW c \in Conns, ReadBody(c)
  PROVE  OnlyChild(c) /\ ChildOK(c)'
<1> TypeOK /\ ChildOK(c)
  BY DEF IInv
<1>1. /\ at[c] = "body" /\ script[c][1] \in Methods /\ at[c] \in Reading \cap Working
      /\ Unsplit(script[c]) =>
            /\ taken[c] >= 2 /\ Fields(script[c], taken[c] - 1)
            /\ script[c][taken[c]] = "blank" /\ IsLength(script[c], taken[c], "one")
  BY DEF ReadBody, ChildOK, Parsed, Reading, Working
<1>2. ASSUME HasToken(c), Take(c), Goes(c, "respond"),
             UNCHANGED <<method, length, responseVars, kind, now>>
      PROVE  OnlyChild(c) /\ ChildOK(c)'
  <2>1. /\ OnlyChild(c) /\ script' = script /\ at'[c] = "respond"
        /\ taken'[c] = taken[c] + 1 /\ taken[c] + 1 <= Len(script[c])
    <3>1. taken'[c] = taken[c] + 1 /\ taken[c] + 1 <= Len(script[c])
      BY <1>2, ReadFacts
    <3>2. OnlyChild(c) /\ script' = script /\ at'[c] = "respond"
      BY <1>1, <1>2, ReadFacts, GoingIsOnlyChild DEF responseVars
    <3>3. QED
      BY <3>1, <3>2
  <2>2. ASSUME Unsplit(script[c]) PROVE IsRequest(script[c], taken[c] + 1)
    <3>1. /\ taken[c] \in Nat /\ 2 <= taken[c] /\ taken[c] <= Len(script[c])
          /\ taken[c] < Len(script[c])
      BY <1>1, <2>1, <2>2, ReadFacts
    <3>2. QED
      BY <1>1, <2>2, <3>1, ReadFacts, RequestIsWhole
  <2>3. Parsed(c)'
    BY <2>1, <2>2 DEF Parsed
  <2>4. Composed(c)' /\ Ended(c)'
    BY <1>1, <1>2, <2>1 DEF ChildOK, Composed, Ended, Reading, Finished, responseVars
  <2>5. QED
    BY <2>1, <2>3, <2>4 DEF ChildOK
<1>3. ASSUME NoRead(c) PROVE OnlyChild(c) /\ ChildOK(c)'
  <2>1. Unsplit(script[c]) => ~HasRequest(script[c])
    <3>1. SUFFICES ASSUME Unsplit(script[c]), NEW n, IsRequest(script[c], n) PROVE FALSE
      BY DEF HasRequest
    <3>2. /\ taken[c] - 1 \in Nat /\ 1 <= taken[c] - 1 /\ (taken[c] - 1) + 1 = taken[c]
          /\ (taken[c] - 1) + 2 = taken[c] + 1 /\ taken[c] = Len(script[c])
      BY <1>1, <1>3, <3>1, ReadFacts DEF NoRead
    <3>3. \E l \in {"none", "zero"} : IsLength(script[c], taken[c], l)
      <4>1. \/ n = taken[c] /\ \E l \in {"none", "zero"} : IsLength(script[c], taken[c], l)
            \/ n = taken[c] + 1 /\ n <= Len(script[c])
        BY <1>1, <3>1, <3>2, ReadFacts, HeaderGoesOn
      <4>2. QED
        BY <3>2, <4>1, ReadFacts
    <3>4. QED
      BY <1>1, <3>1, <3>2, <3>3, ReadFacts, LengthIsUnique
  <2>2. QED
    BY <1>1, <1>3, <2>1, EndsUnanswered DEF NoRead
<1>4. QED
  BY <1>2, <1>3 DEF ReadBody

---------------------------------------------------------------------------
(* The child answers                                                       *)

\* A child that ends after it has answered.
LEMMA EndsAnswered ==
  ASSUME IInv, NEW c \in Conns, NEW place \in Finished, NEW units, EndChild(c, place, units),
         at[c] \in {"open", "copy", "flush"}, UNCHANGED taken, disturbed \subseteq disturbed',
         \/ c \in disturbed'
         \/ client[c] = "gone"
         \/ units = made[c] /\ made[c] = Whole(c)
         \/ at[c] = "open" /\ kind[c] # "regular"
  PROVE  OnlyChild(c) /\ ChildOK(c)'
<1> TypeOK /\ ChildOK(c) /\ at[c] \in Working
  BY DEF IInv, Working
<1>1. /\ OnlyChild(c) /\ at'[c] = place
      /\ UNCHANGED <<script, taken, method, status, made, size, kind>>
      /\ \E u \in IF client[c] = "gone" THEN {0}
                  ELSE IF taken[c] < Len(script[c]) THEN 0 .. units ELSE {units} :
             got'[c] = u
  BY EndIsOnlyChild
<1>2. /\ status[c] # "none"
      /\ Unsplit(script[c]) => IsRequest(script[c], taken[c])
      /\ at[c] = "open" => status[c] = "200" /\ method[c] # "HEAD"
  BY DEF ChildOK, Parsed, Composed
<1>3. Parsed(c)' /\ Composed(c)'
  BY <1>1 DEF Parsed, Composed, Reading, Finished
<1>4. ASSUME client'[c] # "gone", c \notin disturbed', Unsplit(script[c]),
             IsRequest(script[c], Len(script[c]))
      PROVE  Delivered(c)'
  <2>1. client[c] # "gone"
    <3>1. client'[c] = client[c] \/ Queued(c)
      BY <1>1 DEF OnlyChild
    <3>2. ~Queued(c)
      BY DEF IInv, QueueIsNew, Queued, Working
    <3>3. QED
      BY <1>4, <3>1, <3>2
  <2>2. taken[c] = Len(script[c])
    BY <1>2, <1>4, ReadFacts, RequestIsUnique
  <2>3. got'[c] = units
    BY <1>1, <2>1, <2>2, ReadFacts
  <2>4. Whole(c)' = Whole(c)
    BY <1>1 DEF Whole
  <2>5. QED
    BY <1>1, <1>2, <1>4, <2>1, <2>3, <2>4 DEF Delivered
<1>5. Ended(c)'
  BY <1>1, <1>2, <1>4 DEF Ended
<1>6. QED
  BY <1>1, <1>3, <1>5 DEF ChildOK

LEMMA AnswerStep ==
  ASSUME IInv, NEW c \in Conns, at[c] = "respond",
         NEW code \in {"200", "404", "405", "501"}, NEW units \in Nat,
         NEW place \in {"open", "flush"}, Answer(c, code, units, place),
         \A d \in Conns \ {c} : UNCHANGED <<size[d], kind[d], now[d]>>,
         place = "open" => /\ code = "200" /\ units = 1 /\ method[c] # "HEAD"
                           /\ now'[c] = size'[c],
         place = "flush" => units = IF method[c] = "HEAD" THEN 1
                                    ELSE IF code = "200" THEN 1 + size'[c] ELSE 2
  PROVE  OnlyChild(c) /\ ChildOK(c)'
<1> TypeOK /\ ChildOK(c)
  BY DEF IInv
<1>1. /\ status'[c] = code /\ made'[c] = units /\ UNCHANGED <<taken, method, length, sent, got>>
      /\ \A d \in Conns \ {c} : status'[d] = status[d] /\ made'[d] = made[d]
      /\ Goes(c, place)
  BY DEF Answer, TypeOK, requestVars
<1>2. OnlyChild(c) /\ at'[c] = place /\ UNCHANGED <<script, disturbed>>
  BY <1>1, GoingIsOnlyChild DEF Working
<1>3. Unsplit(script[c]) => IsRequest(script[c], taken[c])
  BY DEF ChildOK, Parsed
<1>4. Parsed(c)'
  BY <1>1, <1>2, <1>3 DEF Parsed
<1>5. Composed(c)'
  BY <1>1, <1>2 DEF Composed, Reading, Whole
<1>6. Ended(c)'
  BY <1>2 DEF Ended, Finished
<1>7. QED
  BY <1>2, <1>4, <1>5, <1>6 DEF ChildOK

LEMMA FileStep ==
  ASSUME IInv, NEW c \in Conns, FileResponse(c)
  PROVE  OnlyChild(c) /\ ChildOK(c)'
<1> TypeOK
  BY DEF IInv
<1>1. at[c] = "respond" /\ method[c] \in {"GET", "HEAD"}
  BY DEF FileResponse
<1>2. PICK k \in Kinds, n \in Sizes :
         /\ kind' = [kind EXCEPT ![c] = k]
         /\ IF k \in {"regular", "unreadable"}
            THEN /\ size' = [size EXCEPT ![c] = n]
                 /\ now' = [now EXCEPT ![c] = n]
                 /\ Answer(c, "200", 1, IF method[c] = "HEAD" THEN "flush" ELSE "open")
            ELSE /\ Answer(c, "404", IF method[c] = "HEAD" THEN 1 ELSE 2, "flush")
                 /\ UNCHANGED <<size, now>>
  BY DEF FileResponse, Kinds
<1>3. \A d \in Conns \ {c} : kind'[d] = kind[d]
  BY <1>2 DEF TypeOK
<1>4. CASE k \in {"regular", "unreadable"}
  <2>1. size' = [size EXCEPT ![c] = n] /\ now' = [now EXCEPT ![c] = n]
    BY <1>2, <1>4
  <2>2. size'[c] = now'[c] /\ \A d \in Conns \ {c} : size'[d] = size[d] /\ now'[d] = now[d]
    BY <2>1 DEF TypeOK
  <2>3. Answer(c, "200", 1, IF method[c] = "HEAD" THEN "flush" ELSE "open")
    BY <1>2, <1>4
  <2>4. QED
    BY <1>1, <1>3, <2>2, <2>3, AnswerStep
<1>5. CASE k \notin {"regular", "unreadable"}
  <2>1. UNCHANGED <<size, now>> /\ Answer(c, "404", IF method[c] = "HEAD" THEN 1 ELSE 2, "flush")
    BY <1>2, <1>5
  <2>2. QED
    BY <1>1, <1>3, <2>1, AnswerStep
<1>6. QED
  BY <1>4, <1>5

LEMMA ErrorStep ==
  ASSUME IInv, NEW c \in Conns, MethodNotAllowed(c) \/ NotImplemented(c)
  PROVE  OnlyChild(c) /\ ChildOK(c)'
<1>1. /\ at[c] = "respond" /\ method[c] # "HEAD" /\ UNCHANGED <<size, kind, now>>
      /\ \E code \in {"405", "501"} : Answer(c, code, 2, "flush")
  BY DEF MethodNotAllowed, NotImplemented
<1>2. QED
  BY <1>1, AnswerStep

LEMMA CopyStep ==
  ASSUME IInv, NEW c \in Conns, OpenFile(c) \/ CopyBlock(c) \/ EndOfFile(c)
  PROVE  OnlyChild(c) /\ ChildOK(c)'
<1> TypeOK /\ ChildOK(c)
  BY DEF IInv
<1>1. /\ at[c] \in {"open", "copy"} /\ at[c] \in Working
      /\ status[c] = "200" /\ method[c] # "HEAD" /\ made[c] >= 1
      /\ c \notin disturbed => now[c] = size[c]
      /\ at[c] = "open" => made[c] = 1
      /\ (at[c] = "copy" /\ c \notin disturbed) => kind[c] = "regular" /\ made[c] <= now[c] + 1
      /\ Unsplit(script[c]) => IsRequest(script[c], taken[c])
  BY DEF OpenFile, CopyBlock, EndOfFile, ChildOK, Composed, Parsed, Working
<1>2. now[c] \in Nat /\ size[c] \in Nat /\ made[c] \in Nat
  BY DEF TypeOK
<1>3. ASSUME at[c] = "open", kind[c] = "regular", Goes(c, "copy"),
             UNCHANGED <<requestVars, responseVars, kind, now>>
      PROVE  OnlyChild(c) /\ ChildOK(c)'
  <2>1. OnlyChild(c) /\ at'[c] = "copy" /\ UNCHANGED <<script, disturbed>>
    BY <1>1, <1>3, GoingIsOnlyChild DEF requestVars, responseVars
  <2>2. Parsed(c)'
    BY <1>1, <1>3, <2>1 DEF Parsed, requestVars
  <2>3. Composed(c)'
    BY <1>1, <1>2, <1>3, <2>1 DEF Composed, Reading, responseVars, requestVars
  <2>4. Ended(c)'
    BY <2>1 DEF Ended, Finished
  <2>5. QED
    BY <2>1, <2>2, <2>3, <2>4 DEF ChildOK
<1>4. ASSUME at[c] = "open", kind[c] # "regular", UNCHANGED <<taken, failures, disturbed>>, Exit(c)
      PROVE  OnlyChild(c) /\ ChildOK(c)'
  BY <1>4, EndsAnswered DEF Exit, Finished
<1>5. ASSUME CopyBlock(c) PROVE OnlyChild(c) /\ ChildOK(c)'
  <2>1. /\ at[c] = "copy" /\ made[c] - 1 < now[c] /\ Goes(c, "copy")
        /\ made' = [made EXCEPT ![c] = made[c] + 1]
        /\ sent' \in {sent, [sent EXCEPT ![c] = made[c] + 1]}
        /\ UNCHANGED <<requestVars, status, size, got, kind, now>>
    BY <1>5 DEF CopyBlock
  <2>2. made'[c] = made[c] + 1 /\ \A d \in Conns \ {c} : made'[d] = made[d] /\ sent'[d] = sent[d]
    BY <2>1 DEF TypeOK
  <2>3. OnlyChild(c) /\ at'[c] = "copy" /\ UNCHANGED <<script, disturbed>>
    BY <1>1, <2>1, <2>2, GoingIsOnlyChild DEF requestVars
  <2>4. Parsed(c)'
    BY <1>1, <2>1, <2>3 DEF Parsed, requestVars
  <2>5. Composed(c)'
    BY <1>1, <1>2, <2>1, <2>2, <2>3 DEF Composed, Reading, requestVars
  <2>6. Ended(c)'
    BY <2>3 DEF Ended, Finished
  <2>7. QED
    BY <2>3, <2>4, <2>5, <2>6 DEF ChildOK
<1>6. ASSUME EndOfFile(c) PROVE OnlyChild(c) /\ ChildOK(c)'
  <2>1. /\ at[c] = "copy" /\ made[c] - 1 >= now[c] /\ Goes(c, "flush")
        /\ UNCHANGED <<requestVars, responseVars, kind, now>>
    BY <1>6 DEF EndOfFile
  <2>2. OnlyChild(c) /\ at'[c] = "flush" /\ UNCHANGED <<script, disturbed>>
    BY <1>1, <2>1, GoingIsOnlyChild DEF requestVars, responseVars
  <2>3. Parsed(c)'
    BY <1>1, <2>1, <2>2 DEF Parsed, requestVars
  <2>4. c \notin disturbed => made[c] = Whole(c)
    BY <1>1, <1>2, <2>1 DEF Whole
  <2>5. Composed(c)'
    BY <1>1, <2>1, <2>2, <2>4 DEF Composed, Reading, Whole, requestVars, responseVars
  <2>6. Ended(c)'
    BY <2>2 DEF Ended, Finished
  <2>7. QED
    BY <2>2, <2>3, <2>5, <2>6 DEF ChildOK
<1>7. QED
  BY <1>3, <1>4, <1>5, <1>6 DEF OpenFile

LEMMA EndStep ==
  ASSUME IInv, NEW c \in Conns, Flush(c) \/ SigPipe(c) \/ CallFails(c)
  PROVE  OnlyChild(c) /\ ChildOK(c)'
<1> TypeOK /\ ChildOK(c)
  BY DEF IInv
<1>1. ASSUME Flush(c) PROVE OnlyChild(c) /\ ChildOK(c)'
  <2>1. at[c] = "flush" /\ UNCHANGED <<taken, failures, disturbed>> /\ EndChild(c, "exited", made[c])
    BY <1>1 DEF Flush, Exit
  <2>2. c \notin disturbed => made[c] = Whole(c)
    BY <2>1 DEF ChildOK, Composed
  <2>3. QED
    BY <2>1, <2>2, EndsAnswered DEF Finished
<1>2. ASSUME SigPipe(c) PROVE OnlyChild(c) /\ ChildOK(c)'
  <2>1. /\ at[c] \in Working /\ client[c] = "gone" /\ sent[c] < made[c]
        /\ UNCHANGED <<taken, failures, disturbed>> /\ EndChild(c, "killed", sent[c])
    BY <1>2 DEF SigPipe
  <2>2. at[c] \in {"open", "copy", "flush"}
    BY <2>1 DEF TypeOK, ChildOK, Composed, Reading, Working
  <2>3. QED
    BY <2>1, <2>2, EndsAnswered DEF Finished
<1>3. ASSUME CallFails(c) PROVE OnlyChild(c) /\ ChildOK(c)'
  <2>1. at[c] \in Working /\ c \in disturbed' /\ disturbed \subseteq disturbed'
        /\ UNCHANGED taken /\ Exit(c)
    BY <1>3 DEF CallFails
  <2>2. CASE at[c] \in Reading
    BY <2>1, <2>2, EndsUnanswered
  <2>3. CASE at[c] \in {"open", "copy", "flush"}
    BY <2>1, <2>3, EndsAnswered DEF Exit, Finished
  <2>4. QED
    BY <2>1, <2>2, <2>3 DEF Working, Reading
<1>4. QED
  BY <1>1, <1>2, <1>3

---------------------------------------------------------------------------
(* All steps                                                               *)

LEMMA ChildStep ==
  ASSUME IInv, NEW c \in Conns, Service(c) \/ SigPipe(c) \/ CallFails(c)
  PROVE  OnlyChild(c) /\ ChildOK(c)'
BY RequestLineStep, HeaderFieldStep, EndHeaderStep, BadHeaderStep, BodyStep,
   FileStep, ErrorStep, CopyStep, EndStep DEF Service

\* The steps of the server process and those of the clients and the files.
LEMMA OtherStep ==
  ASSUME IInv,
         Start \/ Serve \/ ServerExits \/ (\E c \in Conns : Connect(c) \/ Depart(c) \/ ChangeFile(c)),
         NEW d \in Conns
  PROVE  ChildOK(d)'
<1> TypeOK /\ ChildOK(d)
  BY DEF IInv
<1> USE DEF netVars, childVars, requestVars, responseVars, fileVars
<1>1. ASSUME Start PROVE ChildOK(d)'
  <2>1. PICK from, to : StartStep(from, to)
    BY <1>1 DEF Start, Options, SetupEnvironment, InstallSignalHandlers, ListenSocket, BecomeDaemon
  <2>2. QED
    BY <2>1, SameStays DEF StartStep, Same
<1>2. ASSUME Accept \/ CloseSock PROVE ChildOK(d)'
  BY <1>2, SameStays DEF Accept, CloseSock, Same
<1>3. ASSUME ServerExits PROVE ChildOK(d)'
  <2>1. /\ UNCHANGED <<script, childVars, fileVars, failures, disturbed>>
        /\ QueueAfter(Live = {}) /\ (Live = {}) \in BOOLEAN
    BY <1>3 DEF ServerExits
  <2>2. client'[d] = client[d] \/ Queued(d)
    BY <2>1, QueueFacts
  <2>3. Queued(d) => at[d] = "none"
    BY DEF IInv, QueueIsNew, Queued
  <2>4. QED
    BY <2>1, <2>2, <2>3, SameStays DEF Same, Finished
<1>4. ASSUME Fork PROVE ChildOK(d)'
  <2>1. /\ at' = [at EXCEPT ![sock] = "line"]
        /\ UNCHANGED <<netVars, requestVars, responseVars, fileVars, disturbed>>
    BY <1>4 DEF Fork
  <2>2. CASE d = sock
    <3>1. at[d] = "none" /\ at'[d] = "line"
      BY <1>4, <2>1, <2>2 DEF Fork, IInv, QueueIsNew, TypeOK
    <3>2. Parsed(d)'
      BY <2>1, <3>1 DEF ChildOK, Parsed
    <3>3. Composed(d)' /\ Ended(d)'
      BY <2>1, <3>1 DEF ChildOK, Composed, Ended, Reading, Finished
    <3>4. QED
      BY <3>2, <3>3 DEF ChildOK
  <2>3. CASE d # sock
    <3>1. at'[d] = at[d]
      BY <2>1, <2>3 DEF TypeOK
    <3>2. QED
      BY <2>1, <3>1, SameStays DEF Same
  <2>4. QED
    BY <2>2, <2>3
<1>5. ASSUME NEW c \in Conns, Connect(c) PROVE ChildOK(d)'
  <2>1. client[c] = "new" /\ UNCHANGED <<childVars, fileVars, disturbed>>
    BY <1>5 DEF Connect
  <2>2. CASE d = c
    <3>1. at[d] = "none" /\ UNCHANGED <<at, taken, length, status, made>>
      BY <2>1, <2>2, NewIsFresh
    <3>2. Parsed(d)' /\ Composed(d)' /\ Ended(d)'
      BY <3>1 DEF ChildOK, Parsed, Composed, Ended, Reading, Finished
    <3>3. QED
      BY <3>2 DEF ChildOK
  <2>3. CASE d # c
    <3>1. client'[d] = client[d] /\ script'[d] = script[d]
      BY <1>5, <2>3 DEF Connect, TypeOK
    <3>2. QED
      BY <2>1, <3>1, SameStays DEF Same
  <2>4. QED
    BY <2>2, <2>3
<1>6. ASSUME NEW c \in Conns, Depart(c) PROVE ChildOK(d)'
  <2>1. client[d] = "gone" => client'[d] = "gone"
    BY <1>6 DEF Depart, TypeOK
  <2>2. QED
    BY <1>6, <2>1, SameStays DEF Depart, Same
<1>7. ASSUME NEW c \in Conns, ChangeFile(c) PROVE ChildOK(d)'
  <2>1. /\ at[c] \in {"open", "copy"} /\ disturbed' = disturbed \cup {c}
        /\ UNCHANGED <<netVars, childVars>>
        /\ \A e \in Conns \ {c} : now'[e] = now[e] /\ kind'[e] = kind[e]
    <3>1. now \in [Conns -> Nat] /\ kind \in [Conns -> Kinds]
      BY DEF IInv, TypeOK
    <3>2. \A e \in Conns \ {c} : now'[e] = now[e] /\ kind'[e] = kind[e]
      BY <1>7, <3>1 DEF ChangeFile
    <3>3. QED
      BY <1>7, <3>2 DEF ChangeFile
  <2>2. CASE d = c
    <3>1. Parsed(d)'
      BY <2>1 DEF ChildOK, Parsed
    <3>2. Composed(d)' /\ Ended(d)'
      BY <2>1, <2>2 DEF ChildOK, Composed, Ended, Reading, Finished
    <3>3. QED
      BY <3>1, <3>2 DEF ChildOK
  <2>3. CASE d # c
    BY <2>1, <2>3, SameStays DEF Same
  <2>4. QED
    BY <2>2, <2>3
<1>8. QED
  BY <1>1, <1>2, <1>3, <1>4, <1>5, <1>6, <1>7 DEF Serve

LEMMA QueueStep == IInv /\ [Next]_vars => QueueIsNew'
<1> SUFFICES ASSUME IInv, [Next]_vars PROVE QueueIsNew'
  OBVIOUS
<1> TypeOK /\ QueueIsNew
  BY DEF IInv
<1> USE DEF netVars, childVars, requestVars, responseVars, fileVars
<1>1. ASSUME Start PROVE QueueIsNew'
  <2>1. PICK from, to : StartStep(from, to) /\ to # "fork"
    BY <1>1 DEF Start, Options, SetupEnvironment, InstallSignalHandlers, ListenSocket, BecomeDaemon
  <2>2. QED
    BY <2>1 DEF StartStep, QueueIsNew
<1>2. ASSUME Accept PROVE QueueIsNew'
  <2>1. /\ Len(backlog) \in Nat /\ DOMAIN backlog = 1 .. Len(backlog) /\ 1 \in DOMAIN backlog
        /\ sock' = backlog[1] /\ sock' \in Conns
    BY <1>2, HeadTailProperties, LenProperties DEF Accept, TypeOK
  <2>2. /\ DOMAIN backlog' = 1 .. Len(backlog) - 1
        /\ \A k \in DOMAIN backlog' : backlog'[k] = backlog[k + 1] /\ k + 1 \in DOMAIN backlog /\ k + 1 # 1
    <3>1. backlog \in Seq(Conns) /\ backlog # <<>> /\ backlog' = Tail(backlog)
      BY <1>2 DEF Accept, TypeOK
    <3>2. /\ Tail(backlog) \in Seq(Conns) /\ Len(Tail(backlog)) = Len(backlog) - 1
          /\ \A k \in 1 .. Len(Tail(backlog)) : Tail(backlog)[k] = backlog[k + 1]
      BY <3>1, HeadTailProperties
    <3>3. QED
      BY <2>1, <3>1, <3>2, LenProperties
  <2>3. UNCHANGED <<at, client>> /\ main' = "fork"
    BY <1>2 DEF Accept
  <2>4. QED
    BY <2>1, <2>2, <2>3 DEF QueueIsNew
<1>3. ASSUME Fork PROVE QueueIsNew'
  <2>1. /\ at' = [at EXCEPT ![sock] = "line"] /\ main' = "close" /\ UNCHANGED <<sock, backlog, client>>
        /\ sock \in Conns /\ sock # NoConn
    BY <1>3, HttpdAssumption DEF Fork, TypeOK
  <2>2. at'[sock] = "line" /\ \A c \in Conns \ {sock} : at'[c] = at[c]
    BY <2>1 DEF TypeOK
  <2>3. \A k \in DOMAIN backlog : backlog[k] \in Conns
    BY LenProperties DEF TypeOK
  <2>4. QED
    BY <2>1, <2>2, <2>3 DEF QueueIsNew
<1>4. ASSUME CloseSock PROVE QueueIsNew'
  <2>1. \A k \in DOMAIN backlog : backlog[k] # NoConn
    BY LenProperties, HttpdAssumption DEF TypeOK
  <2>2. QED
    BY <1>4, <2>1 DEF CloseSock, QueueIsNew
<1>5. ASSUME ServerExits PROVE QueueIsNew'
  <2>1. /\ main' = "exited" /\ sock' = NoConn /\ at' = at
        /\ QueueAfter(Live = {}) /\ (Live = {}) \in BOOLEAN
    BY <1>5 DEF ServerExits
  <2>2. /\ backlog' = backlog \/ backlog' = <<>>
        /\ \A c \in Conns : client'[c] = client[c] \/ client'[c] = "refused"
    BY <2>1, QueueFacts
  <2>3. \A k \in DOMAIN backlog : backlog[k] # NoConn /\ backlog[k] \in Conns
    BY LenProperties, HttpdAssumption DEF TypeOK
  <2>4. QED
    BY <2>1, <2>2, <2>3 DEF QueueIsNew
<1>6. ASSUME NEW c \in Conns, Connect(c) PROVE QueueIsNew'
  <2>1. /\ at[c] = "none" /\ ~Queued(c) /\ sock # c /\ UNCHANGED <<main, sock, at>>
        /\ client' \in {[client EXCEPT ![c] = x] : x \in {"on", "shut", "refused"}}
        /\ backlog' = backlog \/ backlog' = Append(backlog, c)
    BY <1>6, NewIsFresh DEF Connect, parentVars
  <2>2. client'[c] # "new" /\ \A d \in Conns \ {c} : client'[d] = client[d]
    BY <2>1 DEF TypeOK
  <2>3. \A k \in DOMAIN backlog : backlog[k] \in Conns \ {c}
    BY <2>1, LenProperties DEF TypeOK, Queued
  <2>4. sock = NoConn \/ sock \in Conns \ {c}
    BY <2>1 DEF TypeOK
  <2>5. CASE backlog' = backlog
    BY <2>1, <2>2, <2>3, <2>4, <2>5 DEF QueueIsNew
  <2>6. CASE backlog' = Append(backlog, c)
    <3>1. /\ Len(backlog) \in Nat /\ DOMAIN backlog = 1 .. Len(backlog)
          /\ DOMAIN backlog' = 1 .. Len(backlog) + 1
          /\ backlog'[Len(backlog) + 1] = c
          /\ \A k \in DOMAIN backlog : backlog'[k] = backlog[k]
      <4>1. backlog \in Seq(Conns)
        BY DEF TypeOK
      <4>2. /\ Append(backlog, c) \in Seq(Conns) /\ Len(Append(backlog, c)) = Len(backlog) + 1
            /\ \A k \in 1 .. Len(backlog) : Append(backlog, c)[k] = backlog[k]
            /\ Append(backlog, c)[Len(backlog) + 1] = c
        BY <4>1, AppendProperties
      <4>3. QED
        BY <2>6, <4>1, <4>2, LenProperties
    <3>2. \A k \in DOMAIN backlog' : k = Len(backlog) + 1 \/ k \in DOMAIN backlog
      BY <3>1
    <3>3. \A j, k \in DOMAIN backlog' : backlog'[j] = backlog'[k] => j = k
      BY <2>3, <3>1, <3>2 DEF QueueIsNew
    <3>4. ASSUME NEW k \in DOMAIN backlog'
          PROVE  at[backlog'[k]] = "none" /\ backlog'[k] # sock /\ client'[backlog'[k]] # "new"
      BY <2>1, <2>2, <2>3, <3>1, <3>2 DEF QueueIsNew
    <3>5. /\ sock # NoConn => client'[sock] # "new"
          /\ \A d \in Conns : at[d] # "none" => client'[d] # "new"
      BY <2>1, <2>2, <2>4 DEF QueueIsNew
    <3>6. main = "fork" => at[sock] = "none"
      BY DEF QueueIsNew
    <3>7. QED
      BY <2>1, <3>3, <3>4, <3>5, <3>6 DEF QueueIsNew
  <2>7. QED
    BY <2>1, <2>5, <2>6
<1>7. ASSUME NEW c \in Conns, Depart(c) PROVE QueueIsNew'
  <2>1. UNCHANGED <<main, sock, at, backlog>> /\ \A d \in Conns : client[d] # "new" => client'[d] # "new"
    BY <1>7 DEF Depart, TypeOK, parentVars
  <2>2. \A k \in DOMAIN backlog : backlog[k] \in Conns
    BY LenProperties DEF TypeOK
  <2>3. QED
    BY <2>1, <2>2 DEF QueueIsNew, TypeOK
<1>8. ASSUME NEW c \in Conns, ChangeFile(c) PROVE QueueIsNew'
  BY <1>8 DEF ChangeFile, QueueIsNew, parentVars
<1>9. ASSUME NEW c \in Conns, OnlyChild(c) PROVE QueueIsNew'
  <2>1. /\ at[c] # "none" /\ UNCHANGED <<main, sock>>
        /\ backlog' = backlog \/ backlog' = <<>>
        /\ \A d \in Conns : client'[d] = client[d] \/ client'[d] = "refused"
        /\ \A d \in Conns \ {c} : at'[d] = at[d]
    BY <1>9 DEF OnlyChild, Working
  <2>2. \A k \in DOMAIN backlog : backlog[k] \in Conns \ {c}
    BY <2>1, LenProperties DEF TypeOK, QueueIsNew
  <2>3. main = "fork" => sock \in Conns \ {c}
    BY <2>1 DEF QueueIsNew, TypeOK
  <2>4. sock = NoConn \/ sock \in Conns
    BY DEF TypeOK
  <2>5. \A d \in Conns : at'[d] # "none" => at[d] # "none"
    BY <2>1
  <2>6. /\ sock # NoConn => client'[sock] # "new"
        /\ \A d \in Conns : at'[d] # "none" => client'[d] # "new"
    BY <2>1, <2>4, <2>5 DEF QueueIsNew
  <2>7. \A k \in DOMAIN backlog :
            at'[backlog[k]] = "none" /\ backlog[k] # sock /\ client'[backlog[k]] # "new"
    BY <2>1, <2>2 DEF QueueIsNew
  <2>8. QED
    BY <2>1, <2>3, <2>6, <2>7 DEF QueueIsNew
<1>10. ASSUME UNCHANGED vars PROVE QueueIsNew'
  BY <1>10 DEF vars, parentVars, QueueIsNew
<1>11. QED
  BY <1>1, <1>2, <1>3, <1>4, <1>5, <1>6, <1>7, <1>8, <1>9, <1>10, ChildStep DEF Next, Serve

LEMMA ChildrenStep == IInv /\ [Next]_vars => \A d \in Conns : ChildOK(d)'
<1> SUFFICES ASSUME IInv, [Next]_vars, NEW d \in Conns PROVE ChildOK(d)'
  OBVIOUS
<1> ChildOK(d) /\ QueueIsNew
  BY DEF IInv
<1>1. ASSUME NEW c \in Conns, Service(c) \/ SigPipe(c) \/ CallFails(c) PROVE ChildOK(d)'
  <2>1. OnlyChild(c) /\ ChildOK(c)'
    BY <1>1, ChildStep
  <2>2. ASSUME d # c PROVE Same(d)
    <3>1. Queued(d) => at[d] = "none"
      BY DEF QueueIsNew, Queued
    <3>2. QED
      BY <2>1, <2>2, <3>1 DEF OnlyChild, Same, Finished
  <2>3. QED
    BY <2>1, <2>2, SameStays
<1>2. ASSUME UNCHANGED vars PROVE ChildOK(d)'
  BY <1>2, SameStays DEF vars, netVars, childVars, requestVars, responseVars, fileVars, Same
<1>3. QED
  BY <1>1, <1>2, OtherStep DEF Next

LEMMA InitIInv == Init => IInv
<1> SUFFICES ASSUME Init PROVE IInv
  OBVIOUS
<1> USE DEF Init
<1>1. TypeOK
  BY EmptySeq, HttpdAssumption DEF TypeOK, Lengths, Statuses, Kinds
<1>2. QueueIsNew
  BY EmptySeq DEF QueueIsNew
<1>3. ASSUME NEW c \in Conns PROVE ChildOK(c)
  BY <1>3 DEF ChildOK, Parsed, Composed, Ended, Finished
<1>4. QED
  BY <1>1, <1>2, <1>3 DEF IInv

---------------------------------------------------------------------------
(* Theorems                                                                *)

\* The invariant holds in every reachable state.
THEOREM InductiveInvariant == Spec => []IInv
<1>1. IInv /\ [Next]_vars => IInv'
  BY TypeStep, QueueStep, ChildrenStep DEF IInv
<1>2. QED
  BY InitIInv, <1>1, PTL DEF Spec

\* Variables have their types.
THEOREM TypeCorrect == Spec => []TypeOK
<1>1. IInv => TypeOK
  BY DEF IInv
<1>2. QED
  BY InductiveInvariant, <1>1, PTL

\* read_request() and respond_to(): a response is begun when a whole request has been
\* read, with its body and nothing behind it.
THEOREM AnswersCorrect == Spec => []AnswersOnlyRequests
<1>1. ASSUME IInv PROVE AnswersOnlyRequests
  <2>1. SUFFICES ASSUME NEW c \in Conns, status[c] # "none", Unsplit(script[c])
                 PROVE  IsRequest(script[c], taken[c])
    BY DEF AnswersOnlyRequests
  <2>2. ChildOK(c) /\ at[c] \in {"none"} \cup Working \cup Finished
    BY <1>1 DEF IInv, TypeOK
  <2>3. QED
    BY <2>1, <2>2 DEF ChildOK, Parsed, Composed, Ended, Reading, Working, Finished
<1>2. QED
  BY InductiveInvariant, <1>1, PTL

\* A child that ends by itself has answered if there was a request to answer.
THEOREM RequestsAnswered == Spec => []AnswersEveryRequest
<1>1. IInv => AnswersEveryRequest
  BY DEF IInv, ChildOK, Ended, AnswersEveryRequest
<1>2. QED
  BY InductiveInvariant, <1>1, PTL

\* A client that waits for it gets the response its head announces, whole.
THEOREM ResponseCorrect == Spec => []ResponseIsWhole
<1>1. IInv => ResponseIsWhole
  BY DEF IInv, ChildOK, Ended, Delivered, ResponseIsWhole
<1>2. QED
  BY InductiveInvariant, <1>1, PTL
=============================================================================
