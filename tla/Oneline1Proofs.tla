--------------------------- MODULE Oneline1Proofs ---------------------------
(***************************************************************************)
(* oneline1.c: for every number of connections and every size of g_buf, a  *)
(* line that is collected byte by byte, in an array that earlier lines and *)
(* earlier clients have used, is replied to as it was received.            *)
(***************************************************************************)
EXTENDS Oneline1, FiniteSetTheorems, TLAPS

\* No line end is heard in the middle of a line.
LettersHeard == \A f \in open : heard[f] \in Seq(Letters)

\* What a connection leaves in g_buf does not begin a line of the next one.
ClosedIsClear == \A f \in Fds \ open : g_buf[f][0] = NUL

\* The inductive invariant.
IInv ==
    /\ TypeOK1
    /\ CountIsOpen1
    /\ RoomForNul1
    /\ BufferHoldsLine
    /\ LettersHeard
    /\ ClosedIsClear
    /\ LinesEchoed

Last == FIXED_BUFFER_SIZE - 1

LEMMA Sizes ==
    /\ Last \in Nat /\ Last >= 1
    /\ Places \subseteq Nat /\ 0 \in Places /\ Last \in Places
    /\ \A k \in Nat : k <= Last => k \in Places
    /\ Soc \notin Fds
    /\ NUL \notin Bytes /\ NL \notin Letters /\ Letters \subseteq Bytes
  BY LineAssumption DEF Last, Places, Soc, Fds, Bytes

\* The first byte that ends the text decides what "%s" prints.
LEMMA CStringIs ==
    ASSUME NEW a, NEW i \in Places, a[i] \in {NUL, NL},
           \A j \in Places : j < i => a[j] \notin {NUL, NL}
    PROVE  CString(a) = [k \in 1 .. i |-> a[k - 1]]
<1> DEFINE stops == {j \in Places : a[j] \in {NUL, NL}}
<1>1. i \in stops /\ \A j \in stops : i <= j
  BY Sizes
<1>2. \A j \in stops : j \in Nat
  BY Sizes
<1>3. (CHOOSE stop \in stops : \A j \in stops : stop <= j) = i
  <2> HIDE DEF stops
  <2>1. \A stop \in stops : (\A j \in stops : stop <= j) => stop = i
    BY <1>1, <1>2
  <2> QED  BY <1>1, <2>1
<1> QED  BY <1>3 DEF CString

---------------------------------------------------------------------------
(* The descriptor an event is about                                        *)

\* What is known of the descriptor f when its byte comes.
LEMMA LineSoFar ==
    ASSUME IInv, NEW f \in open
    PROVE  /\ f \in Fds /\ heard[f] \in Seq(Letters)
           /\ Start(f) = Len(heard[f]) /\ Start(f) \in Nat /\ Start(f) < Last
           /\ g_buf[f] \in [Places -> Bytes \cup {NUL}] /\ g_buf[f][Last] = NUL
           /\ \A k \in 1 .. Start(f) : g_buf[f][k - 1] = heard[f][k]
<1>1. f \in Fds
  BY DEF IInv, TypeOK1
<1>2. g_buf[f] \in [Places -> Bytes \cup {NUL}]
  BY <1>1 DEF IInv, TypeOK1
<1>3. heard[f] \in Seq(Letters)
  BY DEF IInv, LettersHeard
<1>4. Start(f) = Len(heard[f]) /\ \A k \in 1 .. Len(heard[f]) : g_buf[f][k - 1] = heard[f][k]
  BY DEF IInv, BufferHoldsLine
<1>5. Start(f) < Last /\ g_buf[f][Last] = NUL
  BY <1>1 DEF IInv, RoomForNul1, Last
<1>6. Len(heard[f]) \in Nat
  BY <1>3
<1> QED  BY <1>1, <1>2, <1>3, <1>4, <1>5, <1>6

\* The array with the byte b put behind what was heard.
LEMMA PutIs ==
    ASSUME IInv, NEW f \in open, NEW b \in Bytes
    PROVE  /\ Put(f, b) \in [Places -> Bytes \cup {NUL}]
           /\ Put(f, b)[Start(f)] = b
           /\ \A k \in Places : k # Start(f) => Put(f, b)[k] = g_buf[f][k]
           /\ Start(f) \in Places
<1>1. Start(f) \in Places
  BY LineSoFar, Sizes
<1> QED  BY LineSoFar, <1>1 DEF Put

\* A line is replied to as it was received.
LEMMA EchoIs ==
    ASSUME IInv, NEW f \in open, NEW b \in Bytes, IsLine(Start(f) + 1, b)
    PROVE  CString(Put(f, b)) = Text(Append(heard[f], b))
<1> DEFINE n == Start(f)
           a == Put(f, b)
           s == heard[f]
           line == Append(s, b)
<1>1. n \in Nat /\ n < Last /\ n = Len(s) /\ s \in Seq(Letters)
  BY LineSoFar
<1>2. a[n] = b /\ \A k \in Places : k # n => a[k] = g_buf[f][k]
  BY PutIs
<1>3. \A k \in Places : k < n => a[k] = s[k + 1] /\ a[k] \in Letters
  <2> SUFFICES ASSUME NEW k \in Places, k < n PROVE a[k] = s[k + 1] /\ a[k] \in Letters
    OBVIOUS
  <2>1. k \in Nat /\ k + 1 \in 1 .. n /\ (k + 1) - 1 = k
    BY <1>1, Sizes
  <2>2. a[k] = g_buf[f][k] /\ g_buf[f][(k + 1) - 1] = s[k + 1]
    BY <1>2, <2>1, LineSoFar
  <2>3. s[k + 1] \in Letters
    BY <1>1, <2>1
  <2> QED  BY <2>1, <2>2, <2>3
<1>4. Letters \cap {NUL, NL} = {}
  BY Sizes
<1>5. line \in Seq(Bytes) /\ Len(line) = n + 1 /\ line[n + 1] = b
      /\ \A k \in 1 .. n : line[k] = s[k]
  BY <1>1, Sizes
<1> HIDE DEF n, a, s, line
<1>6. CASE b = NL
  <2>1. n \in Places
    BY <1>1, Sizes
  <2>2. CString(a) = [k \in 1 .. n |-> a[k - 1]]
    BY <2>1, <1>2, <1>3, <1>4, <1>6, CStringIs
  <2>3. \A k \in 1 .. n : a[k - 1] = s[k]
    <3> SUFFICES ASSUME NEW k \in 1 .. n PROVE a[k - 1] = s[k]
      OBVIOUS
    <3>1. k - 1 \in Nat /\ k - 1 < n /\ k - 1 <= Last /\ (k - 1) + 1 = k
      BY <1>1, Sizes
    <3>2. k - 1 \in Places
      BY <3>1, Sizes
    <3> QED  BY <3>1, <3>2, <1>3
  <2>4. Text(line) = SubSeq(line, 1, n)
    BY <1>1, <1>5, <1>6 DEF Text, LastIs
  <2>5. SubSeq(line, 1, n) = [k \in 1 .. n |-> line[k]]
    BY <1>1, <1>5
  <2>6. [k \in 1 .. n |-> a[k - 1]] = [k \in 1 .. n |-> line[k]]
    BY <2>3, <1>5
  <2> QED  BY <2>2, <2>4, <2>5, <2>6 DEF n, a, s, line
<1>7. CASE b # NL
  <2>1. n + 1 = Last /\ Last \in Places
    BY <1>7, Sizes DEF IsLine, n, Last
  <2>2. a[Last] = NUL
    BY <2>1, <1>1, <1>2, LineSoFar
  <2>3. \A k \in Places : k < Last => k < n \/ k = n
    BY <2>1, <1>1, Sizes
  <2>4. b \notin {NUL, NL}
    BY <1>7, Sizes
  <2>5. \A k \in Places : k < Last => a[k] \notin {NUL, NL}
    BY <2>3, <2>4, <1>2, <1>3, <1>4
  <2>6. CString(a) = [k \in 1 .. (n + 1) |-> a[k - 1]]
    BY <2>1, <2>2, <2>5, CStringIs
  <2>7. \A k \in 1 .. (n + 1) : a[k - 1] = line[k]
    <3> SUFFICES ASSUME NEW k \in 1 .. (n + 1) PROVE a[k - 1] = line[k]
      OBVIOUS
    <3>1. CASE k = n + 1
      <4>1. k - 1 = n
        BY <3>1, <1>1
      <4> QED  BY <3>1, <4>1, <1>2, <1>5
    <3>2. CASE k # n + 1
      <4>1. k \in 1 .. n /\ k - 1 \in Nat /\ k - 1 < n /\ k - 1 <= Last /\ (k - 1) + 1 = k
        BY <3>2, <1>1, Sizes
      <4>2. k - 1 \in Places
        BY <4>1, Sizes
      <4> QED  BY <4>1, <4>2, <1>3, <1>5
    <3> QED  BY <3>1, <3>2
  <2>8. Text(line) = line
    BY <1>1, <1>5, <1>7 DEF Text, LastIs
  <2>9. line = [k \in 1 .. (n + 1) |-> line[k]]
    BY <1>1, <1>5
  <2> QED  BY <2>6, <2>7, <2>8, <2>9 DEF n, a, s, line
<1> QED  BY <1>6, <1>7

\* Cutting a line clears bytes, the first among them.
LEMMA ClearedIs ==
    ASSUME NEW a \in [Places -> Bytes \cup {NUL}]
    PROVE  /\ Cleared(a) \in [Places -> Bytes \cup {NUL}]
           /\ Cleared(a)[0] = NUL
           /\ a[Last] = NUL => Cleared(a)[Last] = NUL
  BY Sizes DEF Cleared

---------------------------------------------------------------------------
(* The buffers                                                             *)

Buffers == [Fds -> [Places -> Bytes \cup {NUL}]]
BuffersOK == RoomForNul1 /\ BufferHoldsLine /\ LettersHeard /\ ClosedIsClear

\* A descriptor whose first byte is cleared begins a line, whatever else it holds.
LEMMA ClearBegins == \A f \in Fds : g_buf[f][0] = NUL => Start(f) = 0
  BY DEF Start

\* A line goes on.
LEMMA MoreKeeps ==
    ASSUME IInv, NEW f \in open, NEW b \in Bytes, ~IsLine(Start(f) + 1, b),
           g_buf' = [g_buf EXCEPT ![f] = Put(f, b)],
           g_pos' = [g_pos EXCEPT ![f] = Start(f) + 1],
           heard' = [heard EXCEPT ![f] = Append(@, b)],
           open' = open
    PROVE  BuffersOK'
<1> DEFINE n == Start(f)
<1>1. /\ f \in Fds /\ n \in Nat /\ n < Last /\ n = Len(heard[f])
      /\ heard[f] \in Seq(Letters) /\ g_buf[f][Last] = NUL
      /\ \A k \in 1 .. n : g_buf[f][k - 1] = heard[f][k]
  BY LineSoFar
<1>2. b \in Letters /\ n + 1 # Last
  BY DEF IsLine, Last, Bytes
<1>3. Put(f, b)[n] = b /\ \A k \in Places : k # n => Put(f, b)[k] = g_buf[f][k]
  BY PutIs
<1>4. g_buf \in Buffers /\ g_pos \in [Fds -> Places] /\ open \subseteq Fds
      /\ heard \in [Fds -> Seq(Bytes)]
  BY DEF IInv, TypeOK1, Buffers
<1>5. /\ g_buf'[f] = Put(f, b) /\ g_pos'[f] = n + 1 /\ heard'[f] = Append(heard[f], b)
      /\ \A g \in Fds \ {f} :
             g_buf'[g] = g_buf[g] /\ g_pos'[g] = g_pos[g] /\ heard'[g] = heard[g]
  BY <1>1, <1>4 DEF Buffers
<1>6. \A g \in Fds \ {f} : Start(g)' = Start(g)
  BY <1>5 DEF Start
<1>7. g_buf'[f][0] # NUL
  <2>1. CASE n = 0
    BY <2>1, <1>3, <1>5, Sizes
  <2>2. CASE n # 0
    <3>1. g_buf[f][0] # NUL
      BY <1>1, <2>2, ClearBegins
    <3> QED  BY <3>1, <2>2, <1>3, <1>5, Sizes
  <2> QED  BY <2>1, <2>2
<1>8. Start(f)' = n + 1
  BY <1>5, <1>7 DEF Start
<1> HIDE DEF n
<1>9. /\ heard'[f] \in Seq(Letters) /\ Len(heard'[f]) = n + 1 /\ heard'[f][n + 1] = b
      /\ \A k \in 1 .. n : heard'[f][k] = heard[f][k]
  BY <1>1, <1>2, <1>5
<1>10. \A k \in 1 .. (n + 1) : g_buf'[f][k - 1] = heard'[f][k]
  <2> SUFFICES ASSUME NEW k \in 1 .. (n + 1) PROVE g_buf'[f][k - 1] = heard'[f][k]
    OBVIOUS
  <2>1. CASE k = n + 1
    <3>1. k - 1 = n
      BY <2>1, <1>1
    <3> QED  BY <2>1, <3>1, <1>3, <1>5, <1>9 DEF n
  <2>2. CASE k # n + 1
    <3>1. k \in 1 .. n /\ k - 1 \in Nat /\ k - 1 # n /\ k - 1 <= Last
      BY <2>2, <1>1, Sizes
    <3>2. k - 1 \in Places
      BY <3>1, Sizes
    <3>3. g_buf'[f][k - 1] = g_buf[f][k - 1]
      BY <3>1, <3>2, <1>3, <1>5 DEF n
    <3> QED  BY <3>1, <3>3, <1>1, <1>9
  <2> QED  BY <2>1, <2>2
<1>11. RoomForNul1'
  <2>1. n + 1 < Last /\ g_buf'[f][Last] = NUL
    <3>1. n + 1 < Last /\ Last # n
      BY <1>1, <1>2, Sizes
    <3> QED  BY <3>1, <1>1, <1>3, <1>5, Sizes DEF n
  <2> QED  BY <2>1, <1>5, <1>6, <1>8 DEF IInv, RoomForNul1, Last
<1>12. BufferHoldsLine'
  <2> SUFFICES ASSUME NEW g \in open
               PROVE  /\ Start(g)' = Len(heard'[g])
                      /\ \A k \in 1 .. Len(heard'[g]) : g_buf'[g][k - 1] = heard'[g][k]
    BY DEF BufferHoldsLine
  <2>1. CASE g = f
    BY <2>1, <1>8, <1>9, <1>10
  <2>2. CASE g # f
    BY <2>2, <1>4, <1>5, <1>6 DEF IInv, BufferHoldsLine
  <2> QED  BY <2>1, <2>2
<1>13. LettersHeard'
  BY <1>4, <1>5, <1>9 DEF IInv, LettersHeard
<1>14. ClosedIsClear'
  BY <1>4, <1>5 DEF IInv, ClosedIsClear
<1> QED  BY <1>11, <1>12, <1>13, <1>14 DEF BuffersOK

\* A line is answered, and its buffer cleared.
LEMMA AnswerKeeps ==
    ASSUME IInv, NEW f \in open, NEW a \in [Places -> Bytes \cup {NUL}], a[Last] = NUL,
           NEW p \in Places,
           g_buf' = [g_buf EXCEPT ![f] = Cleared(a)],
           g_pos' = [g_pos EXCEPT ![f] = p],
           heard' = [heard EXCEPT ![f] = <<>>],
           open' = open
    PROVE  BuffersOK'
<1>1. g_buf \in Buffers /\ g_pos \in [Fds -> Places] /\ open \subseteq Fds
      /\ heard \in [Fds -> Seq(Bytes)] /\ f \in Fds
  BY DEF IInv, TypeOK1, Buffers
<1>2. /\ g_buf'[f] = Cleared(a) /\ heard'[f] = <<>>
      /\ \A g \in Fds \ {f} :
             g_buf'[g] = g_buf[g] /\ g_pos'[g] = g_pos[g] /\ heard'[g] = heard[g]
  BY <1>1 DEF Buffers
<1>3. g_buf'[f][0] = NUL /\ g_buf'[f][Last] = NUL
  BY <1>2, ClearedIs
<1>4. Start(f)' = 0
  BY <1>3 DEF Start
<1>5. \A g \in Fds \ {f} : Start(g)' = Start(g)
  BY <1>2 DEF Start
<1>6. Len(heard'[f]) = 0 /\ heard'[f] \in Seq(Letters)
  <2>1. Len(<< >>) = 0 /\ << >> \in Seq(Letters)
    OBVIOUS
  <2> QED  BY <1>2, <2>1
<1>7. RoomForNul1'
  BY <1>2, <1>3, <1>4, <1>5, Sizes DEF IInv, RoomForNul1, Last
<1>8. BufferHoldsLine'
  <2> SUFFICES ASSUME NEW g \in open
               PROVE  /\ Start(g)' = Len(heard'[g])
                      /\ \A k \in 1 .. Len(heard'[g]) : g_buf'[g][k - 1] = heard'[g][k]
    BY DEF BufferHoldsLine
  <2>1. CASE g = f
    BY <2>1, <1>4, <1>6
  <2>2. CASE g # f
    BY <2>2, <1>1, <1>2, <1>5 DEF IInv, BufferHoldsLine
  <2> QED  BY <2>1, <2>2
<1>9. LettersHeard'
  BY <1>1, <1>2, <1>6 DEF IInv, LettersHeard
<1>10. ClosedIsClear'
  BY <1>1, <1>2 DEF IInv, ClosedIsClear
<1> QED  BY <1>7, <1>8, <1>9, <1>10 DEF BuffersOK

\* A connection is dropped, and its buffer cleared.
LEMMA DropClears ==
    ASSUME IInv, NEW f \in open, NEW a \in [Places -> Bytes \cup {NUL}], a[Last] = NUL,
           NEW p \in Places,
           g_buf' = [g_buf EXCEPT ![f] = [a EXCEPT ![0] = NUL]],
           g_pos' = [g_pos EXCEPT ![f] = p],
           heard' = heard,
           open' = open \ {f}
    PROVE  BuffersOK'
<1>1. g_buf \in Buffers /\ g_pos \in [Fds -> Places] /\ open \subseteq Fds /\ f \in Fds
  BY DEF IInv, TypeOK1, Buffers
<1>2. /\ g_buf'[f] = [a EXCEPT ![0] = NUL]
      /\ \A g \in Fds \ {f} : g_buf'[g] = g_buf[g] /\ g_pos'[g] = g_pos[g]
  BY <1>1 DEF Buffers
<1>3. g_buf'[f][0] = NUL /\ g_buf'[f][Last] = NUL
  <2>1. 0 \in Places /\ Last \in Places /\ Last # 0
    BY Sizes
  <2>2. [a EXCEPT ![0] = NUL][0] = NUL /\ [a EXCEPT ![0] = NUL][Last] = NUL
    BY <2>1
  <2> QED  BY <1>2, <2>2
<1>4. Start(f)' = 0
  BY <1>3 DEF Start
<1>5. \A g \in Fds \ {f} : Start(g)' = Start(g)
  BY <1>2 DEF Start
<1>6. RoomForNul1'
  BY <1>2, <1>3, <1>4, <1>5, Sizes DEF IInv, RoomForNul1, Last
<1>7. BufferHoldsLine'
  BY <1>1, <1>2, <1>5 DEF IInv, BufferHoldsLine
<1>8. LettersHeard'
  BY DEF IInv, LettersHeard
<1>9. ClosedIsClear'
  BY <1>1, <1>2, <1>3 DEF IInv, ClosedIsClear
<1> QED  BY <1>6, <1>7, <1>8, <1>9 DEF BuffersOK
---------------------------------------------------------------------------
(* The steps                                                               *)

\* An event that is looked at is about an open connection.
LEMMA EventIsOpen == IInv => \A f \in Fds : NextEvent(f) => f \in open
  BY Sizes DEF IInv, CountIsOpen1, NextEvent

LEMMA InitIInv == Init1 => IInv
<1> SUFFICES ASSUME Init1 PROVE IInv
  OBVIOUS
<1> USE DEF Init1
<1>1. << >> \in Seq(Bytes) /\ Len(<< >>) = 0
  OBVIOUS
<1>2. TypeOK1
  BY <1>1, Sizes DEF TypeOK1
<1>3. CountIsOpen1
  BY FS_EmptySet DEF CountIsOpen1
<1>4. \A f \in Fds : Start(f) = 0 /\ g_buf[f][0] = NUL /\ g_buf[f][Last] = NUL
  BY Sizes DEF Start
<1>5. BuffersOK
  BY <1>4, Sizes DEF BuffersOK, RoomForNul1, BufferHoldsLine, LettersHeard, ClosedIsClear, Last
<1>6. LinesEchoed
  BY DEF LinesEchoed, NoReply, Text, LastIs
<1> QED  BY <1>2, <1>3, <1>5, <1>6 DEF IInv, BuffersOK

LEMMA BuffersStep == IInv /\ [Next1]_vars1 => BuffersOK'
<1> SUFFICES ASSUME IInv, [Next1]_vars1 PROVE BuffersOK'
  OBVIOUS
<1>1. CASE UNCHANGED <<open, g_buf, g_pos, heard>>
  BY <1>1 DEF IInv, BuffersOK, RoomForNul1, BufferHoldsLine, LettersHeard, ClosedIsClear, Start
<1>2. CASE AcceptAdd
  <2>1. PICK f \in FreeFds : open' = open \cup {f} /\ heard' = [heard EXCEPT ![f] = << >>]
    BY <1>2 DEF AcceptAdd
  <2>2. UNCHANGED <<g_buf, g_pos>> /\ f \in Fds /\ f \notin open /\ g_buf[f][0] = NUL
    BY <1>2, <2>1 DEF AcceptAdd, FreeFds, IInv, ClosedIsClear
  <2>3. \A g \in Fds : Start(g)' = Start(g)
    BY <2>2 DEF Start
  <2>4. Start(f) = 0
    BY <2>2, ClearBegins
  <2>5. heard \in [Fds -> Seq(Bytes)] /\ open \subseteq Fds
    BY DEF IInv, TypeOK1
  <2>6. heard'[f] = << >> /\ \A g \in Fds \ {f} : heard'[g] = heard[g]
    BY <2>1, <2>2, <2>5
  <2>7. Len(<< >>) = 0 /\ << >> \in Seq(Letters)
    OBVIOUS
  <2>8. RoomForNul1'
    BY <2>2, <2>3 DEF IInv, RoomForNul1
  <2>9. BufferHoldsLine'
    <3> SUFFICES ASSUME NEW g \in open \cup {f}
                 PROVE  /\ Start(g)' = Len(heard'[g])
                        /\ \A k \in 1 .. Len(heard'[g]) : g_buf'[g][k - 1] = heard'[g][k]
      BY <2>1 DEF BufferHoldsLine
    <3>1. CASE g = f
      BY <3>1, <2>2, <2>3, <2>4, <2>6, <2>7
    <3>2. CASE g # f
      BY <3>2, <2>2, <2>3, <2>5, <2>6 DEF IInv, BufferHoldsLine
    <3> QED  BY <3>1, <3>2
  <2>10. LettersHeard'
    BY <2>1, <2>5, <2>6, <2>7 DEF IInv, LettersHeard
  <2>11. ClosedIsClear'
    BY <2>1, <2>2 DEF IInv, ClosedIsClear
  <2> QED  BY <2>8, <2>9, <2>10, <2>11 DEF BuffersOK
<1>3. ASSUME NEW f \in Fds, SendRecv(f) PROVE BuffersOK'
  <2>1. f \in open
    BY <1>3, EventIsOpen
       DEF SendRecv, RecvMore, RecvLine, SendFails, RecvRest, RestFails, RecvFails, HangUp,
           Received, Eof
  <2>2. /\ g_buf[f] \in [Places -> Bytes \cup {NUL}] /\ g_buf[f][Last] = NUL
        /\ Start(f) \in Nat /\ Start(f) < Last
    BY <2>1, LineSoFar
  <2>3. Start(f) \in Places /\ Start(f) + 1 \in Places
    BY <2>2, Sizes
  <2>4. /\ Cleared(g_buf[f]) \in [Places -> Bytes \cup {NUL}]
        /\ Cleared(g_buf[f])[Last] = NUL
    BY <2>2, ClearedIs
  <2>5. ASSUME NEW b \in Bytes
        PROVE  /\ Put(f, b) \in [Places -> Bytes \cup {NUL}] /\ Put(f, b)[Last] = NUL
               /\ Cleared(Put(f, b)) \in [Places -> Bytes \cup {NUL}]
               /\ Cleared(Put(f, b))[Last] = NUL
    <3>1. Put(f, b) \in [Places -> Bytes \cup {NUL}] /\ Put(f, b)[Last] = NUL
      BY <2>1, <2>2, PutIs, Sizes
    <3> QED  BY <3>1, ClearedIs
  <2>6. ASSUME NEW b \in Bytes, RecvMore(f, b) PROVE BuffersOK'
    BY <2>1, <2>6, MoreKeeps DEF RecvMore, Received
  <2>7. ASSUME NEW b \in Bytes, RecvLine(f, b) PROVE BuffersOK'
    BY <2>1, <2>3, <2>5, <2>7, AnswerKeeps DEF RecvLine, Received, Answer
  <2>8. ASSUME NEW b \in Bytes, SendFails(f, b) PROVE BuffersOK'
    BY <2>1, <2>3, <2>5, <2>8, DropClears DEF SendFails, Received, Drop
  <2>9. CASE RecvRest(f)
    BY <2>1, <2>2, <2>3, <2>9, AnswerKeeps DEF RecvRest, Eof, Answer
  <2>10. CASE RestFails(f)
    BY <2>1, <2>3, <2>4, <2>10, DropClears DEF RestFails, Eof, Drop
  <2>11. CASE RecvFails(f)
    BY <2>1, <2>2, <2>3, <2>11, DropClears DEF RecvFails, Drop
  <2>12. CASE HangUp(f)
    BY <2>1, <2>2, <2>3, <2>12, DropClears DEF HangUp, Eof, Drop
  <2> QED
    BY <1>3, <2>6, <2>7, <2>8, <2>9, <2>10, <2>11, <2>12 DEF SendRecv
<1>4. CASE EpollWait \/ AcceptFails \/ AcceptFull \/ AcceptAddFails \/ BatchEnds
  BY <1>1, <1>4 DEF EpollWait, AcceptFails, AcceptFull, AcceptAddFails, BatchEnds, bufVars
<1>5. CASE UNCHANGED vars1
  BY <1>1, <1>5 DEF vars1, loopVars, bufVars
<1> QED  BY <1>2, <1>3, <1>4, <1>5 DEF Next1

LEMMA CountStep == IInv /\ [Next1]_vars1 => CountIsOpen1'
<1> SUFFICES ASSUME IInv, [Next1]_vars1 PROVE CountIsOpen1'
  OBVIOUS
<1> USE DEF CountIsOpen1
<1>1. IsFiniteSet(open) /\ open \subseteq Fds
  <2>1. IsFiniteSet(Fds)
    BY LineAssumption, FS_Interval DEF Fds
  <2> QED  BY <2>1, FS_Subset DEF IInv, TypeOK1
<1>2. count = Cardinality(open) /\ events \subseteq open \cup {Soc}
  BY DEF IInv
<1>3. CASE AcceptAdd
  <2>1. PICK f \in FreeFds : open' = open \cup {f}
    BY <1>3 DEF AcceptAdd
  <2>2. f \notin open
    BY <2>1 DEF FreeFds
  <2>3. Cardinality(open') = Cardinality(open) + 1
    BY <1>1, <2>1, <2>2, FS_AddElement
  <2> QED  BY <1>2, <1>3, <2>1, <2>3 DEF AcceptAdd, NextEvent
<1>4. ASSUME NEW f \in open, open' = open \ {f}, count' = count - 1, events' = events \ {f}
      PROVE  CountIsOpen1'
  <2>1. Cardinality(open') = Cardinality(open) - 1
    BY <1>1, <1>4, FS_RemoveElement
  <2> QED  BY <1>2, <1>4, <2>1
<1>5. ASSUME NEW f \in Fds, SendRecv(f) PROVE CountIsOpen1'
  <2>1. f \in open /\ events' = events \ {f}
    BY <1>5, EventIsOpen
       DEF SendRecv, RecvMore, RecvLine, SendFails, RecvRest, RestFails, RecvFails, HangUp,
           Received, Eof, NextEvent
  <2>2. ASSUME NEW b \in Bytes, RecvMore(f, b) \/ RecvLine(f, b) PROVE CountIsOpen1'
    BY <1>2, <2>1, <2>2 DEF RecvMore, RecvLine, Answer
  <2>3. ASSUME NEW b \in Bytes, SendFails(f, b) PROVE CountIsOpen1'
    BY <1>4, <2>1, <2>3 DEF SendFails, Drop
  <2>4. CASE RecvRest(f)
    BY <1>2, <2>1, <2>4 DEF RecvRest, Answer
  <2>5. CASE RestFails(f) \/ RecvFails(f) \/ HangUp(f)
    BY <1>4, <2>1, <2>5 DEF RestFails, RecvFails, HangUp, Drop
  <2> QED  BY <1>5, <2>2, <2>3, <2>4, <2>5 DEF SendRecv
<1>6. CASE EpollWait
  BY <1>2, <1>6 DEF EpollWait
<1>7. CASE AcceptFails \/ AcceptFull \/ AcceptAddFails
  BY <1>2, <1>7 DEF AcceptFails, AcceptFull, AcceptAddFails, NextEvent
<1>8. CASE BatchEnds \/ UNCHANGED vars1
  BY <1>2, <1>8 DEF BatchEnds, vars1, loopVars
<1> QED  BY <1>3, <1>5, <1>6, <1>7, <1>8 DEF Next1

LEMMA TypeStep == IInv /\ [Next1]_vars1 => TypeOK1'
<1> SUFFICES ASSUME IInv, [Next1]_vars1 PROVE TypeOK1'
  OBVIOUS
<1>1. TypeOK1 /\ events \subseteq open \cup {Soc}
  BY DEF IInv, CountIsOpen1
<1>2. CASE EpollWait
  BY <1>1, <1>2 DEF TypeOK1, EpollWait, bufVars
<1>3. CASE AcceptFails \/ AcceptFull \/ AcceptAddFails
  BY <1>1, <1>3 DEF TypeOK1, AcceptFails, AcceptFull, AcceptAddFails, NextEvent, bufVars
<1>4. CASE AcceptAdd
  <2>1. << >> \in Seq(Bytes)
    OBVIOUS
  <2>2. PICK f \in FreeFds : /\ open' = open \cup {f}
                             /\ heard' = [heard EXCEPT ![f] = << >>]
                             /\ ended' = ended \ {f}
    BY <1>4 DEF AcceptAdd
  <2>3. f \in Fds
    BY <2>2 DEF FreeFds
  <2>4. heard' \in [Fds -> Seq(Bytes)]
    BY <1>1, <2>1, <2>2, <2>3 DEF TypeOK1
  <2> QED  BY <1>1, <1>4, <2>2, <2>3, <2>4 DEF TypeOK1, AcceptAdd, NextEvent
<1>5. ASSUME NEW f \in Fds, SendRecv(f) PROVE TypeOK1'
  <2>1. f \in open
    BY <1>5, EventIsOpen
       DEF SendRecv, RecvMore, RecvLine, SendFails, RecvRest, RestFails, RecvFails, HangUp,
           Received, Eof
  <2>2. g_buf[f] \in [Places -> Bytes \cup {NUL}] /\ Start(f) \in Nat /\ Start(f) < Last
    BY <2>1, LineSoFar
  <2>3. Start(f) \in Places /\ Start(f) + 1 \in Places /\ 0 \in Places
    BY <2>2, Sizes
  <2>4. heard[f] \in Seq(Bytes) /\ << >> \in Seq(Bytes)
    BY <1>1 DEF TypeOK1
  <2>5. ASSUME NEW p \in Places PROVE [g_pos EXCEPT ![f] = p] \in [Fds -> Places]
    BY <1>1 DEF TypeOK1
  <2>6. ASSUME NEW a \in [Places -> Bytes \cup {NUL}]
        PROVE  /\ [g_buf EXCEPT ![f] = a] \in Buffers
               /\ [g_buf EXCEPT ![f] = [a EXCEPT ![0] = NUL]] \in Buffers
               /\ Cleared(a) \in [Places -> Bytes \cup {NUL}]
    <3>1. [a EXCEPT ![0] = NUL] \in [Places -> Bytes \cup {NUL}]
      OBVIOUS
    <3> QED  BY <1>1, <3>1, ClearedIs DEF TypeOK1, Buffers
  <2>7. ASSUME NEW s \in Seq(Bytes) PROVE [heard EXCEPT ![f] = s] \in [Fds -> Seq(Bytes)]
    BY <1>1 DEF TypeOK1
  <2>8. ASSUME NEW b \in Bytes PROVE Append(heard[f], b) \in Seq(Bytes)
    BY <2>4
  <2>9. ASSUME NEW b \in Bytes, RecvMore(f, b) PROVE TypeOK1'
    <3>1. g_buf' \in Buffers /\ g_pos' \in [Fds -> Places] /\ heard' \in [Fds -> Seq(Bytes)]
      BY <2>1, <2>3, <2>5, <2>6, <2>7, <2>8, <2>9, PutIs DEF RecvMore, Received
    <3> QED  BY <1>1, <2>9, <3>1 DEF TypeOK1, Buffers, RecvMore, Received, NextEvent
  <2>10. ASSUME NEW b \in Bytes, RecvLine(f, b) PROVE TypeOK1'
    <3>1. g_buf' \in Buffers /\ g_pos' \in [Fds -> Places] /\ heard' \in [Fds -> Seq(Bytes)]
      BY <2>1, <2>3, <2>4, <2>5, <2>6, <2>7, <2>10, PutIs DEF RecvLine, Received, Answer
    <3> QED  BY <1>1, <2>10, <3>1 DEF TypeOK1, Buffers, RecvLine, Received, NextEvent, Answer
  <2>11. ASSUME NEW b \in Bytes, SendFails(f, b) PROVE TypeOK1'
    <3>1. g_buf' \in Buffers /\ g_pos' \in [Fds -> Places]
      BY <2>1, <2>3, <2>5, <2>6, <2>11, PutIs DEF SendFails, Received, Drop
    <3> QED  BY <1>1, <2>11, <3>1 DEF TypeOK1, Buffers, SendFails, Received, NextEvent, Drop
  <2>12. CASE RecvRest(f)
    <3>1. g_buf' \in Buffers /\ g_pos' \in [Fds -> Places] /\ heard' \in [Fds -> Seq(Bytes)]
      BY <2>2, <2>3, <2>4, <2>5, <2>6, <2>7, <2>12 DEF RecvRest, Eof, Answer
    <3> QED  BY <1>1, <2>12, <3>1 DEF TypeOK1, Buffers, RecvRest, Eof, NextEvent, Answer
  <2>13. CASE RestFails(f)
    <3>1. g_buf' \in Buffers /\ g_pos' \in [Fds -> Places]
      BY <2>2, <2>3, <2>5, <2>6, <2>13 DEF RestFails, Eof, Drop
    <3> QED  BY <1>1, <2>13, <3>1 DEF TypeOK1, Buffers, RestFails, Eof, NextEvent, Drop
  <2>14. CASE RecvFails(f)
    <3>1. g_buf' \in Buffers /\ g_pos' \in [Fds -> Places]
      BY <2>2, <2>3, <2>5, <2>6, <2>14 DEF RecvFails, Drop
    <3> QED  BY <1>1, <2>14, <3>1 DEF TypeOK1, Buffers, RecvFails, NextEvent, Drop
  <2>15. CASE HangUp(f)
    <3>1. g_buf' \in Buffers /\ g_pos' \in [Fds -> Places]
      BY <2>2, <2>3, <2>5, <2>6, <2>15 DEF HangUp, Eof, Drop
    <3> QED  BY <1>1, <2>15, <3>1 DEF TypeOK1, Buffers, HangUp, Eof, NextEvent, Drop
  <2> QED
    BY <1>5, <2>9, <2>10, <2>11, <2>12, <2>13, <2>14, <2>15 DEF SendRecv
<1>6. CASE BatchEnds \/ UNCHANGED vars1
  BY <1>1, <1>6 DEF TypeOK1, BatchEnds, vars1, loopVars, bufVars
<1> QED  BY <1>2, <1>3, <1>4, <1>5, <1>6 DEF Next1

LEMMA EchoStep == IInv /\ [Next1]_vars1 => LinesEchoed'
<1> SUFFICES ASSUME IInv, [Next1]_vars1 PROVE LinesEchoed'
  OBVIOUS
<1>1. CASE UNCHANGED reply
  BY <1>1 DEF IInv, LinesEchoed
<1>2. CASE EpollWait
  BY <1>2 DEF EpollWait, LinesEchoed, NoReply, Text, LastIs
<1>3. ASSUME NEW f \in Fds, SendRecv(f) PROVE LinesEchoed'
  <2>1. ASSUME NEW b \in Bytes, RecvLine(f, b) PROVE LinesEchoed'
    <3>1. f \in open
      BY <2>1, EventIsOpen DEF RecvLine, Received
    <3>2. CString(Put(f, b)) = Text(Append(heard[f], b))
      BY <2>1, <3>1, EchoIs DEF RecvLine
    <3>3. reply'.text = CString(Put(f, b)) /\ reply'.line = Append(heard[f], b)
      BY <2>1 DEF RecvLine, Answer
    <3>4. Text(reply'.line) = Text(Append(heard[f], b))
      BY <3>3
    <3> QED  BY <3>2, <3>3, <3>4 DEF LinesEchoed, Text
  <2>2. CASE RecvRest(f)
    BY <2>2 DEF RecvRest, Answer, LinesEchoed
  <2>3. CASE UNCHANGED reply
    BY <1>1, <2>3
  <2> QED
    BY <1>3, <2>1, <2>2, <2>3
       DEF SendRecv, RecvMore, SendFails, RestFails, RecvFails, HangUp, Drop
<1>4. CASE AcceptFails \/ AcceptFull \/ AcceptAdd \/ AcceptAddFails \/ BatchEnds
  BY <1>1, <1>4 DEF AcceptFails, AcceptFull, AcceptAdd, AcceptAddFails, BatchEnds
<1>5. CASE UNCHANGED vars1
  BY <1>1, <1>5 DEF vars1
<1> QED  BY <1>2, <1>3, <1>4, <1>5 DEF Next1

---------------------------------------------------------------------------
(* The theorems                                                            *)

THEOREM InductiveInvariant == Spec1 => []IInv
<1>1. IInv /\ [Next1]_vars1 => IInv'
  BY TypeStep, CountStep, BuffersStep, EchoStep DEF IInv, BuffersOK
<1> QED  BY InitIInv, <1>1, PTL DEF Spec1

\* For every number of connections and every size of the buffers: a line that does not
\* end with the connection is replied to as it was received, whatever is left of others
\* in g_buf, no place behind an array is written, and no descriptor is closed twice.
THEOREM EchoCorrect ==
    Spec1 => [](/\ TypeOK1 /\ LinesEchoed /\ BufferHoldsLine
                /\ CountIsOpen1 /\ RoomForNul1)
<1>1. IInv => /\ TypeOK1 /\ LinesEchoed /\ BufferHoldsLine
              /\ CountIsOpen1 /\ RoomForNul1
  BY DEF IInv
<1> QED  BY InductiveInvariant, <1>1, PTL
=============================================================================
