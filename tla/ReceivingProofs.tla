-------------------------- MODULE ReceivingProofs --------------------------
(***************************************************************************)
(* Proofs about the programs that receive and connect, as MCReceiving puts *)
(* them side by side, for every timeout and every granularity of the       *)
(* clock, any number of signals, every sequence of bytes and failures, and *)
(* every size of the buffers, of the transfer and of the kernel's room for *)
(* it.  Of each program an invariant is shown of the program alone, and    *)
(* that a step of the whole is a step of that program or leaves its        *)
(* variables alone.  The proofs of oneline1.c are those of Oneline1Proofs. *)
(***************************************************************************)
EXTENDS MCReceiving, SequenceTheorems, TLAPS

---------------------------------------------------------------------------
(* oneline.c                                                               *)

\* What is in the buffers fits, with a byte to spare where another one is received.
Fits ==
    /\ Len(buf) < bufsize
    /\ pc = "recv" => Len(buf) < bufsize - 1
    /\ have => Len(data) < size /\ data # <<>>
    /\ ~have => data = <<>> /\ size = 0
    /\ have => mode = 2

\* There is one block while a line is collected in allocated memory.
OneBlock == blocks = lost + (IF have /\ pc \in {"recv", "line", "reply"} THEN 1 ELSE 0)

NoEndBefore(s, n) == \A k \in 1 .. n : s[k] # NL

\* A line end is the last byte of what is collected, and ends the collecting.
Pieces ==
    /\ NoEndBefore(buf, Len(buf) - 1)
    /\ pc = "recv" => NoEndBefore(buf, Len(buf))
    /\ pc \in {"recv", "line"} => NoEndBefore(data, Len(data))
    /\ pc = "line" => LastIs(buf, NL) \/ ended \/ Len(buf) = bufsize - 1

\* The allocated buffer grows in whole steps, and a line is refused for want of one.
Steps ==
    /\ \E k \in Nat : size = k * ALLOC_SIZE
    /\ pc = "refused" => OverLimit /\ LacksSpace

\* The inductive invariant.
IInv == TypeOK /\ Fits /\ OneBlock /\ BytesAccounted /\ Pieces /\ OneLineAtATime /\ Steps

LEMMA BufsizeFacts == bufsize \in Nat /\ bufsize >= 2
  BY LineAssumption DEF bufsize

LEMMA NLIsByte == NL \in Bytes
  BY DEF Bytes

\* What a sequence, and what two of them joined, ends with and contains.
LEMMA JoinFacts ==
  ASSUME NEW s \in Seq(Bytes), NEW t \in Seq(Bytes)
  PROVE  /\ s \o t \in Seq(Bytes)
         /\ Len(s \o t) = Len(s) + Len(t)
         /\ Len(s) \in Nat /\ Len(t) \in Nat
         /\ t # <<>> => Len(t) > 0 /\ s \o t # <<>>
         /\ t # <<>> => (LastIs(s \o t, NL) <=> LastIs(t, NL))
         /\ NoEndBefore(s, Len(s)) /\ NoEndBefore(t, Len(t) - 1)
              => NoEndBefore(s \o t, Len(s \o t) - 1)
         /\ NoEndBefore(s, Len(s)) /\ NoEndBefore(t, Len(t))
              => NoEndBefore(s \o t, Len(s \o t))
<1>1. /\ s \o t \in Seq(Bytes) /\ Len(s \o t) = Len(s) + Len(t)
      /\ Len(s) \in Nat /\ Len(t) \in Nat
  BY ConcatProperties, LenProperties
<1>2. \A i \in 1 .. Len(s) + Len(t) :
          (s \o t)[i] = IF i <= Len(s) THEN s[i] ELSE t[i - Len(s)]
  BY ConcatProperties
<1>3. t # <<>> => Len(t) > 0 /\ s \o t # <<>>
  BY <1>1, EmptySeq
<1>4. t # <<>> => (LastIs(s \o t, NL) <=> LastIs(t, NL))
  BY <1>1, <1>2, <1>3 DEF LastIs
<1>5. ASSUME NoEndBefore(s, Len(s)), NEW n \in {Len(t) - 1, Len(t)}, NoEndBefore(t, n)
      PROVE  NoEndBefore(s \o t, Len(s) + n)
  BY <1>1, <1>2, <1>5 DEF NoEndBefore
<1>6. QED
  BY <1>1, <1>3, <1>4, <1>5

\* The same for one byte that is appended.
LEMMA AppendFacts ==
  ASSUME NEW s \in Seq(Bytes), NEW b \in Bytes
  PROVE  /\ Append(s, b) \in Seq(Bytes)
         /\ Len(Append(s, b)) = Len(s) + 1
         /\ Len(s) \in Nat
         /\ LastIs(Append(s, b), NL) <=> b = NL
         /\ NoEndBefore(s, Len(s)) => NoEndBefore(Append(s, b), Len(s))
         /\ NoEndBefore(s, Len(s)) /\ b # NL => NoEndBefore(Append(s, b), Len(s) + 1)
<1>1. Len(s) \in Nat
  BY LenProperties
<1>2. /\ Append(s, b) \in Seq(Bytes) /\ Len(Append(s, b)) = Len(s) + 1
      /\ \A i \in 1 .. Len(s) : Append(s, b)[i] = s[i]
      /\ Append(s, b)[Len(s) + 1] = b
  BY AppendProperties
<1>3. Append(s, b) # <<>>
  BY <1>1, <1>2, EmptySeq
<1>4. QED
  BY <1>1, <1>2, <1>3 DEF LastIs, NoEndBefore

LEMMA EmptyFacts ==
  /\ <<>> \in Seq(Bytes) /\ Len(<<>>) = 0
  /\ ~LastIs(<<>>, NL)
  /\ \A n \in {0, -1} : NoEndBefore(<<>>, n)
<1>1. <<>> \in Seq(Bytes) /\ Len(<<>>) = 0
  BY EmptySeq
<1>2. QED
  BY <1>1 DEF LastIs, NoEndBefore

LEMMA InitIInv == Init => IInv
<1> SUFFICES ASSUME Init PROVE IInv
  OBVIOUS
<1> USE DEF Init
<1>1. TypeOK
  <2>1. 0 \in 0 .. MaxFailures
    BY LineAssumption
  <2>2. QED
    BY <2>1, EmptyFacts DEF TypeOK
<1>2. Fits
  BY EmptyFacts, BufsizeFacts DEF Fits
<1>3. OneBlock /\ BytesAccounted /\ OneLineAtATime
  BY DEF OneBlock, BytesAccounted, OneLineAtATime
<1>4. Pieces
  BY EmptyFacts DEF Pieces
<1>5. Steps
  <2>1. 0 = 0 * ALLOC_SIZE
    BY LineAssumption
  <2>2. QED
    BY <2>1 DEF Steps
<1>6. QED
  BY <1>1, <1>2, <1>3, <1>4, <1>5 DEF IInv

---------------------------------------------------------------------------
(* oneline.c: types, and what fits                                         *)

LEMMA TypeStep == IInv /\ [Next]_vars => TypeOK'
<1> SUFFICES ASSUME IInv, [Next]_vars PROVE TypeOK'
  OBVIOUS
<1> USE EmptyFacts DEF IInv, TypeOK, connVars, lineVars, heapVars
<1> LineAssumption
  BY LineAssumption DEF LineAssumption
<1>1. ASSUME Accept PROVE TypeOK'
  BY <1>1 DEF Accept
<1>2. ASSUME RecvByte PROVE TypeOK'
  <2>1. PICK b \in Bytes : said' = Append(said, b) /\ buf' = Append(buf, b)
                             /\ pc' = IF Returns(buf') THEN "line" ELSE "recv"
    BY <1>2 DEF RecvByte
  <2>2. said' \in Seq(Bytes) /\ buf' \in Seq(Bytes)
    BY <2>1, AppendFacts
  <2>3. QED
    BY <1>2, <2>1, <2>2 DEF RecvByte
<1>3. ASSUME RecvEof PROVE TypeOK'
  BY <1>3 DEF RecvEof
<1>4. ASSUME RecvFails PROVE TypeOK'
  <2>1. blocks' \in Nat
    BY <1>4 DEF RecvFails, OneBlock
  <2>2. QED
    BY <1>4, <2>1 DEF RecvFails
<1>5. ASSUME AppendLine \/ Grow PROVE TypeOK'
  <2>1. data \o buf \in Seq(Bytes)
    BY JoinFacts
  <2>2. size' \in {size, size + ALLOC_SIZE} /\ blocks' \in {blocks, blocks + 1}
    BY <1>5 DEF AppendLine, Grow, Join
  <2>3. pc' \in {"recv", "reply"} /\ have' /\ data' = data \o buf /\ buf' = <<>>
        /\ UNCHANGED <<mode, said, echoed, ended, lost, failures>>
    BY <1>5 DEF AppendLine, Grow, Join
  <2>4. size' \in Nat /\ blocks' \in Nat
    BY <2>2, LineAssumption
  <2>5. QED
    BY <2>1, <2>3, <2>4
<1>6. ASSUME GrowFails PROVE TypeOK'
  <2>1. failures' \in 0 .. MaxFailures /\ lost' \in Nat
    BY <1>6, LineAssumption DEF GrowFails
  <2>2. QED
    BY <1>6, <2>1 DEF GrowFails
<1>7. ASSUME Refuse PROVE TypeOK'
  <2>1. blocks' \in Nat
    BY <1>7 DEF Refuse, OneBlock
  <2>2. QED
    BY <1>7, <2>1 DEF Refuse
<1>8. ASSUME CloseRefused \/ NoMore \/ FixedLine PROVE TypeOK'
  BY <1>8 DEF CloseRefused, NoMore, FixedLine
<1>9. ASSUME Reply PROVE TypeOK'
  <2>1. echoed' \in Seq(Bytes)
    BY <1>9, JoinFacts DEF Reply
  <2>2. blocks' \in Nat
    BY <1>9 DEF Reply, OneBlock
  <2>3. QED
    BY <1>9, <2>1, <2>2 DEF Reply
<1>10. ASSUME ReplyFails PROVE TypeOK'
  <2>1. blocks' \in Nat
    BY <1>10 DEF ReplyFails, OneBlock
  <2>2. QED
    BY <1>10, <2>1 DEF ReplyFails
<1>11. ASSUME UNCHANGED vars PROVE TypeOK'
  BY <1>11 DEF vars
<1>12. QED
  BY <1>1, <1>2, <1>3, <1>4, <1>5, <1>6, <1>7, <1>8, <1>9, <1>10, <1>11 DEF Next

LEMMA FitsStep == IInv /\ [Next]_vars => Fits'
<1> SUFFICES ASSUME IInv, [Next]_vars PROVE Fits'
  OBVIOUS
<1> USE EmptyFacts, BufsizeFacts DEF IInv, TypeOK, Fits, connVars, lineVars, heapVars
<1>1. mode' = mode /\ bufsize' = bufsize
  BY DEF Next, vars, Accept, RecvByte, RecvEof, RecvFails, AppendLine, Grow, GrowFails, Refuse,
         CloseRefused, NoMore, FixedLine, Reply, ReplyFails, Join, bufsize
<1> HIDE DEF bufsize
<1>2. ASSUME Accept \/ Reply PROVE Fits'
  BY <1>1, <1>2 DEF Accept, Reply
<1>3. ASSUME RecvByte PROVE Fits'
  <2>1. PICK b \in Bytes : buf' = Append(buf, b) /\ pc' = IF Returns(buf') THEN "line" ELSE "recv"
    BY <1>3 DEF RecvByte
  <2>2. Len(buf') = Len(buf) + 1 /\ Len(buf) \in Nat
    BY <2>1, AppendFacts
  <2>3. Len(buf') < bufsize /\ (pc' = "recv" => Len(buf') < bufsize - 1)
    BY <1>3, <2>1, <2>2 DEF RecvByte, Returns
  <2>4. QED
    BY <1>1, <1>3, <2>3 DEF RecvByte
<1>4. ASSUME AppendLine \/ Grow PROVE Fits'
  <2>1. mode = 2 /\ buf # <<>> /\ data' = data \o buf /\ buf' = <<>> /\ have'
    BY <1>4 DEF AppendLine, Grow, Join
  <2>2. /\ Len(data') = Len(data) + Len(buf) /\ data' # <<>>
        /\ Len(data) \in Nat /\ Len(buf) \in Nat
    BY <2>1, JoinFacts
  <2>3. ASSUME AppendLine PROVE Len(data') < size'
    BY <2>2, <2>3 DEF AppendLine, LacksSpace, Join
  <2>4. ASSUME Grow PROVE Len(data') < size'
    <3>1. size' = size + ALLOC_SIZE /\ Len(buf) <= ALLOC_SIZE - 1
      BY <2>1, <2>2, <2>4, LineAssumption DEF Grow, Join, bufsize
    <3>2. Len(data) <= size
      BY <2>2
    <3>3. have => Len(data) <= size - 1
      BY <2>2
    <3>4. QED
      BY <2>2, <3>1, <3>2, <3>3, LineAssumption
  <2>5. QED
    BY <1>1, <1>4, <2>1, <2>2, <2>3, <2>4
<1>5. ASSUME RecvEof \/ RecvFails \/ GrowFails \/ Refuse \/ CloseRefused \/ NoMore \/ FixedLine
               \/ ReplyFails \/ UNCHANGED vars
      PROVE  Fits'
  BY <1>1, <1>5 DEF RecvEof, RecvFails, GrowFails, Refuse, CloseRefused, NoMore, FixedLine, ReplyFails, vars
<1>6. QED
  BY <1>2, <1>3, <1>4, <1>5 DEF Next

---------------------------------------------------------------------------
(* oneline.c: the blocks, the bytes and the lines                          *)

LEMMA BlockStep == IInv /\ [Next]_vars => OneBlock'
<1> SUFFICES ASSUME IInv, [Next]_vars PROVE OneBlock'
  OBVIOUS
<1> USE DEF IInv, TypeOK, OneBlock, connVars, lineVars, heapVars
<1>1. ASSUME Accept \/ RecvByte \/ RecvEof \/ CloseRefused \/ FixedLine PROVE OneBlock'
  BY <1>1 DEF Accept, RecvByte, RecvEof, CloseRefused, FixedLine
<1>2. ASSUME RecvFails \/ Refuse \/ Reply \/ ReplyFails PROVE OneBlock'
  BY <1>2 DEF RecvFails, Refuse, Reply, ReplyFails
<1>3. ASSUME AppendLine \/ Grow PROVE OneBlock'
  <2>1. have' /\ pc' \in {"recv", "reply"} /\ lost' = lost /\ pc = "line"
    BY <1>3 DEF AppendLine, Grow, Join
  <2>2. ASSUME AppendLine PROVE have /\ blocks' = blocks
    <3>1. Len(buf) > 0 /\ Len(data) \in Nat
      BY <2>2, EmptySeq, LenProperties DEF AppendLine
    <3>2. Len(data) + Len(buf) < size
      BY <2>2, <3>1, LenProperties DEF AppendLine, LacksSpace
    <3>3. have
      BY <3>1, <3>2, LenProperties DEF Fits
    <3>4. QED
      BY <2>2, <3>3 DEF AppendLine
  <2>3. ASSUME Grow PROVE blocks' = IF have THEN blocks ELSE blocks + 1
    BY <2>3 DEF Grow
  <2>4. QED
    BY <1>3, <2>1, <2>2, <2>3
<1>4. ASSUME GrowFails PROVE OneBlock'
  BY <1>4 DEF GrowFails
<1>5. ASSUME NoMore PROVE OneBlock'
  BY <1>5 DEF NoMore, Fits
<1>6. ASSUME UNCHANGED vars PROVE OneBlock'
  BY <1>6 DEF vars
<1>7. QED
  BY <1>1, <1>2, <1>3, <1>4, <1>5, <1>6 DEF Next

LEMMA JoinIsAssociative ==
  \A s, t, u \in Seq(Bytes) : (s \o t) \o u = s \o (t \o u)
  BY ConcatAssociative

LEMMA AppendJoined ==
  \A s, t \in Seq(Bytes) : \A b \in Bytes : Append(s \o t, b) = s \o Append(t, b)
<1> SUFFICES ASSUME NEW s \in Seq(Bytes), NEW t \in Seq(Bytes), NEW b \in Bytes
             PROVE  Append(s \o t, b) = s \o Append(t, b)
  OBVIOUS
<1>1. s \o t \in Seq(Bytes) /\ <<b>> \in Seq(Bytes)
  BY JoinFacts
<1>2. Append(s \o t, b) = (s \o t) \o <<b>>
  BY <1>1, AppendIsConcat
<1>3. Append(t, b) = t \o <<b>>
  BY AppendIsConcat
<1>4. (s \o t) \o <<b>> = s \o (t \o <<b>>)
  BY <1>1, JoinIsAssociative
<1>5. QED
  BY <1>2, <1>3, <1>4

LEMMA BytesStep == IInv /\ [Next]_vars => BytesAccounted'
<1> SUFFICES ASSUME IInv, [Next]_vars PROVE BytesAccounted'
  OBVIOUS
<1> USE DEF IInv, TypeOK, BytesAccounted, connVars, lineVars, heapVars
<1>1. ASSUME Accept PROVE BytesAccounted'
  <2>1. <<>> \o <<>> \o <<>> = <<>>
    BY EmptyFacts, ConcatEmptySeq
  <2>2. QED
    BY <1>1, <2>1 DEF Accept
<1>2. ASSUME RecvByte PROVE BytesAccounted'
  <2>1. PICK b \in Bytes : said' = Append(said, b) /\ buf' = Append(buf, b)
    BY <1>2 DEF RecvByte
  <2>2. echoed \o data \in Seq(Bytes)
    BY JoinFacts
  <2>3. Append((echoed \o data) \o buf, b) = (echoed \o data) \o Append(buf, b)
    BY <2>2, AppendJoined
  <2>4. QED
    BY <1>2, <2>1, <2>3 DEF RecvByte
<1>3. ASSUME AppendLine \/ Grow PROVE BytesAccounted'
  <2>1. /\ data' = data \o buf /\ buf' = <<>> /\ UNCHANGED <<said, echoed>>
        /\ pc = "line"
    BY <1>3 DEF AppendLine, Grow, Join
  <2>2. data \o buf \in Seq(Bytes) /\ echoed \o (data \o buf) \in Seq(Bytes)
    BY JoinFacts
  <2>3. (echoed \o data) \o buf = echoed \o (data \o buf)
    BY JoinIsAssociative
  <2>4. (echoed \o (data \o buf)) \o <<>> = echoed \o (data \o buf)
    BY <2>2, ConcatEmptySeq
  <2>5. QED
    BY <2>1, <2>3, <2>4
<1>4. ASSUME Reply PROVE BytesAccounted'
  <2>1. echoed' = echoed \o data \o buf /\ data' = <<>> /\ buf' = <<>> /\ said' = said /\ pc = "reply"
    BY <1>4 DEF Reply
  <2>2. echoed \o data \o buf \in Seq(Bytes)
    BY JoinFacts
  <2>3. (echoed \o data \o buf) \o <<>> \o <<>> = echoed \o data \o buf
    BY <2>2, ConcatEmptySeq
  <2>4. QED
    BY <2>1, <2>3
<1>5. ASSUME RecvEof \/ RecvFails \/ GrowFails \/ Refuse \/ CloseRefused \/ NoMore \/ FixedLine
               \/ ReplyFails \/ UNCHANGED vars
      PROVE  BytesAccounted'
  BY <1>5 DEF RecvEof, RecvFails, GrowFails, Refuse, CloseRefused, NoMore, FixedLine, ReplyFails, vars
<1>6. QED
  BY <1>1, <1>2, <1>3, <1>4, <1>5 DEF Next

LEMMA PiecesStep == IInv /\ [Next]_vars => Pieces'
<1> SUFFICES ASSUME IInv, [Next]_vars PROVE Pieces'
  OBVIOUS
<1> USE DEF IInv, TypeOK, Pieces, connVars, lineVars, heapVars
<1>1. bufsize' = bufsize
  BY DEF Next, vars, Accept, RecvByte, RecvEof, RecvFails, AppendLine, Grow, GrowFails, Refuse,
         CloseRefused, NoMore, FixedLine, Reply, ReplyFails, Join, bufsize
<1>2. ASSUME Accept \/ Reply PROVE Pieces'
  BY <1>2, EmptyFacts DEF Accept, Reply
<1>3. ASSUME RecvByte PROVE Pieces'
  <2>1. PICK b \in Bytes : buf' = Append(buf, b) /\ pc' = IF Returns(buf') THEN "line" ELSE "recv"
    BY <1>3 DEF RecvByte
  <2>2. /\ Len(buf') = Len(buf) + 1 /\ Len(buf) \in Nat
        /\ LastIs(buf', NL) <=> b = NL
        /\ NoEndBefore(buf', Len(buf))
        /\ b # NL => NoEndBefore(buf', Len(buf'))
    BY <1>3, <2>1, AppendFacts DEF RecvByte
  <2>3. QED
    BY <1>1, <1>3, <2>1, <2>2 DEF RecvByte, Returns
<1>4. ASSUME AppendLine \/ Grow PROVE Pieces'
  <2>1. /\ data' = data \o buf /\ buf' = <<>>
        /\ pc = "line" /\ pc' = IF LastIs(buf, NL) THEN "reply" ELSE "recv"
    BY <1>4 DEF AppendLine, Grow, Join
  <2>2. ~LastIs(buf, NL) => NoEndBefore(buf, Len(buf))
    BY LenProperties DEF LastIs, NoEndBefore
  <2>3. ~LastIs(buf, NL) => NoEndBefore(data', Len(data'))
    BY <2>1, <2>2, JoinFacts
  <2>4. QED
    BY <2>1, <2>3, EmptyFacts
<1>5. ASSUME RecvEof \/ RecvFails \/ GrowFails \/ Refuse \/ CloseRefused \/ NoMore \/ FixedLine
               \/ ReplyFails \/ UNCHANGED vars
      PROVE  Pieces'
  BY <1>1, <1>5 DEF RecvEof, RecvFails, GrowFails, Refuse, CloseRefused, NoMore, FixedLine, ReplyFails, vars
<1>6. QED
  BY <1>2, <1>3, <1>4, <1>5 DEF Next

LEMMA ReplyStep == IInv /\ [Next]_vars => OneLineAtATime'
<1> SUFFICES ASSUME IInv, [Next]_vars, pc' = "reply"
             PROVE  /\ NoEndBefore((data \o buf)', Len((data \o buf)') - 1)
                    /\ \/ LastIs((data \o buf)', NL)
                       \/ ended'
                       \/ mode' = 1 /\ Len((data \o buf)') = FIXED_BUFFER_SIZE - 1
  BY DEF OneLineAtATime, NoEndBefore
<1> USE DEF IInv, TypeOK, connVars, lineVars, heapVars
<1>1. ASSUME AppendLine \/ Grow PROVE /\ NoEndBefore((data \o buf)', Len((data \o buf)') - 1)
                                      /\ LastIs((data \o buf)', NL)
  <2>1. /\ data' = data \o buf /\ buf' = <<>> /\ buf # <<>>
        /\ pc = "line" /\ LastIs(buf, NL)
    BY <1>1 DEF AppendLine, Grow, Join
  <2>2. (data \o buf)' = data \o buf
    BY <2>1, JoinFacts, ConcatEmptySeq
  <2>3. QED
    BY <2>1, <2>2, JoinFacts DEF Pieces
<1>2. ASSUME NoMore PROVE NoEndBefore((data \o buf)', Len((data \o buf)') - 1) /\ ended'
  <2>1. pc = "line" /\ buf = <<>> /\ UNCHANGED <<data, buf, ended>>
    BY <1>2 DEF NoMore
  <2>2. ended
    BY <2>1, EmptyFacts, BufsizeFacts DEF Pieces
  <2>3. (data \o buf)' = data \o buf
    BY <2>1
  <2>4. QED
    BY <2>1, <2>2, <2>3, JoinFacts, EmptyFacts DEF Pieces
<1>3. ASSUME FixedLine PROVE /\ NoEndBefore((data \o buf)', Len((data \o buf)') - 1)
                             /\ \/ LastIs((data \o buf)', NL)
                                \/ ended'
                                \/ mode' = 1 /\ Len((data \o buf)') = FIXED_BUFFER_SIZE - 1
  <2>1. pc = "line" /\ mode = 1 /\ UNCHANGED <<mode, data, buf, ended>>
    BY <1>3 DEF FixedLine
  <2>2. data = <<>> /\ bufsize = FIXED_BUFFER_SIZE
    BY <2>1 DEF Fits, bufsize
  <2>3. (data \o buf)' = buf
    BY <2>1, <2>2, ConcatEmptySeq
  <2>4. QED
    BY <2>1, <2>2, <2>3 DEF Pieces
<1>4. ASSUME UNCHANGED vars PROVE OneLineAtATime' /\ pc' = "reply"
  BY <1>4 DEF vars, OneLineAtATime
<1>5. Accept \/ RecvByte \/ RecvEof \/ RecvFails \/ GrowFails \/ Refuse \/ CloseRefused \/ Reply \/ ReplyFails
        => pc' # "reply"
  BY DEF Accept, RecvByte, RecvEof, RecvFails, GrowFails, Refuse, CloseRefused, Reply, ReplyFails
<1>6. QED
  BY <1>1, <1>2, <1>3, <1>4, <1>5 DEF Next, OneLineAtATime, NoEndBefore

\* Multiples of a step are ordered as what they are multiples of.
LEMMA Multiples ==
  ASSUME NEW a \in Nat, NEW k \in Nat, NEW m \in Nat, k * a + a > m * a
  PROVE  k * a >= m * a
<1>1. ASSUME k < m PROVE FALSE
  <2>1. PICK d \in Nat : m = k + 1 + d
    <3>1. m - k - 1 \in Nat /\ m = k + 1 + (m - k - 1)
      BY <1>1
    <3>2. QED
      BY <3>1
  <2>2. m * a = k * a + a + d * a
    BY <2>1
  <2>3. d * a \in Nat /\ k * a \in Nat /\ m * a \in Nat
    OBVIOUS
  <2>4. QED
    BY <2>2, <2>3
<1>2. CASE k >= m
  <2>1. PICK d \in Nat : k = m + d
    <3>1. k - m \in Nat /\ k = m + (k - m)
      BY <1>2
    <3>2. QED
      BY <3>1
  <2>2. k * a = m * a + d * a
    BY <2>1
  <2>3. d * a \in Nat /\ k * a \in Nat /\ m * a \in Nat
    OBVIOUS
  <2>4. QED
    BY <2>2, <2>3
<1>3. QED
  BY <1>1, <1>2

LEMMA StepsStep == IInv /\ [Next]_vars => Steps'
<1> SUFFICES ASSUME IInv, [Next]_vars PROVE Steps'
  OBVIOUS
<1> USE DEF IInv, TypeOK, Steps, connVars, lineVars, heapVars
<1>1. ASSUME Accept \/ Reply PROVE Steps'
  <2>1. size' = 0 /\ pc' # "refused"
    BY <1>1 DEF Accept, Reply
  <2>2. 0 = 0 * ALLOC_SIZE
    BY LineAssumption
  <2>3. QED
    BY <2>1, <2>2
<1>2. ASSUME AppendLine \/ Grow PROVE Steps'
  <2>1. pc' # "refused"
    BY <1>2 DEF AppendLine, Grow, Join
  <2>2. size' = size \/ size' = size + ALLOC_SIZE
    BY <1>2 DEF AppendLine, Grow, Join
  <2>3. PICK k \in Nat : size = k * ALLOC_SIZE
    OBVIOUS
  <2>4. (k + 1) * ALLOC_SIZE = k * ALLOC_SIZE + ALLOC_SIZE
    BY LineAssumption
  <2>5. QED
    BY <2>1, <2>2, <2>3, <2>4
<1>3. ASSUME Refuse PROVE Steps'
  BY <1>3 DEF Refuse, OverLimit, LacksSpace
<1>4. ASSUME RecvByte \/ RecvEof \/ RecvFails \/ GrowFails \/ CloseRefused \/ NoMore \/ FixedLine
               \/ ReplyFails \/ UNCHANGED vars
      PROVE  Steps'
  BY <1>4 DEF RecvByte, RecvEof, RecvFails, GrowFails, CloseRefused, NoMore, FixedLine, ReplyFails,
              vars, OverLimit, LacksSpace
<1>5. QED
  BY <1>1, <1>2, <1>3, <1>4 DEF Next

\* Whatever the programs together do, oneline.c's part of it is what oneline.c may do.
LEMMA OnelineStays == ReceivingSpec => Spec
<1>1. ReceivingInit => Init
  BY DEF ReceivingInit
<1>2. [ReceivingNext]_allVars => [Next]_vars
  BY DEF ReceivingNext, OnelineStep, Oneline1Step, TimeoutStep, ConnectStep, BigStep, allVars, vars,
         connVars, lineVars, heapVars
<1> QED  BY <1>1, <1>2, PTL DEF ReceivingSpec, Spec

---------------------------------------------------------------------------
(* timeout.c                                                               *)

\* Wait() and time() are tied together by what is left of the timer, or of the second
\* in which the call began.

\* What n waits that are started anew may last.
Quota(n) == (n + 1) * TM!Deadline

\* The modes that look and sleep: the look before each sleep found the time not up, or
\* was the last; a line that came since then is no older than the sleep.
PollingOK ==
    (g_mode \in TM!Polling /\ upper = "zero") =>
        /\ tpc # "wait"
        /\ tpc = "look" =>
               /\ ~timedOut /\ rv = "none" /\ second + elapsed <= TM!Deadline + Ticks
               /\ lines > 0 => since + 1 >= elapsed
        /\ tpc = "sleep" =>
               /\ lines > 0 => since >= elapsed
               /\ rv = "none" => ~timedOut /\ second + elapsed < TM!Deadline + Ticks
               /\ rv # "none" => elapsed >= TM!Deadline /\ elapsed <= TM!Deadline + Ticks
        /\ tpc = "recv" =>
               ~timedOut /\ lines > 0 /\ second + elapsed < TM!Deadline + Ticks

\* The modes that wait: what has passed and what is left of the timer are together the
\* timeout, or as many of them as there were waits.
WaitingOK ==
    g_mode \notin TM!Polling =>
        /\ upper = "zero"
        /\ tpc \notin {"look", "sleep"}
        /\ tpc = "wait" =>
               /\ ~timedOut
               /\ elapsed + timer >= TM!Deadline
               /\ elapsed + timer <= IF g_mode = "s" THEN TM!Deadline ELSE Quota(signals)
        /\ tpc = "recv" => ~timedOut /\ TM!Readable

\* With what follows of them for the two properties.
PollingInv ==
    /\ PollingOK
    /\ tpc = "return" /\ g_mode \in TM!Polling /\ upper = "zero" =>
           /\ elapsed <= TM!Deadline + Ticks + 1
           /\ timedOut /\ rv = "-1" => elapsed >= TM!Deadline /\ (lines > 0 => since >= TM!Deadline)

WaitingInv ==
    /\ WaitingOK
    /\ tpc \in {"recv", "return"} /\ g_mode \notin TM!Polling =>
           elapsed <= IF g_mode = "s" THEN TM!Deadline ELSE Quota(signals)
    /\ tpc = "return" /\ g_mode \notin TM!Polling /\ timedOut =>
           elapsed >= TM!Deadline /\ (lines > 0 => since >= TM!Deadline)

TimeoutInv == TM!TypeOK /\ PollingInv /\ WaitingInv

---------------------------------------------------------------------------
(* Arithmetic: the rest of the proof needs no product and no quotient.     *)

LEMMA DeadlineNat == TM!Deadline \in Nat /\ TM!Deadline >= 1
  BY TimeoutAssumption DEF TM!Deadline

LEMMA LongestIs == TM!Longest = TM!Deadline + Ticks + 1
  BY TimeoutAssumption DEF TM!Longest, TM!Deadline

LEMMA HorizonBeyond == TM!Horizon \in Nat /\ TM!Horizon > TM!Longest
<1> DEFINE L == TM!Longest
<1>1. L \in Nat
  BY TimeoutAssumption, LongestIs, DeadlineNat
<1>2. TM!Horizon = (MaxSignals + 1) * L + 1
  BY DEF TM!Horizon
<1> HIDE DEF L
<1>3. (MaxSignals + 1) * L = MaxSignals * L + L
  BY <1>1, TimeoutAssumption
<1>4. MaxSignals * L \in Nat
  BY <1>1, TimeoutAssumption
<1> QED  BY <1>1, <1>2, <1>3, <1>4 DEF L

LEMMA QuotaGrows ==
  ASSUME NEW n \in Nat
  PROVE  /\ Quota(n) \in Nat /\ Quota(n) >= TM!Deadline
         /\ Quota(n + 1) = Quota(n) + TM!Deadline
<1> DEFINE D == TM!Deadline
<1>1. D \in Nat
  BY DeadlineNat
<1> HIDE DEF D
<1>2. n * D \in Nat
  BY <1>1
<1>3. (n + 1) * D = n * D + D /\ (n + 1 + 1) * D = n * D + D + D
  BY <1>1
<1> QED  BY <1>1, <1>2, <1>3 DEF Quota, D

\* time() says that the time is up when the whole second after TIMEOUT_SEC has begun.
LEMMA UpWhen ==
  ASSUME NEW a \in Nat
  PROVE  (a \div Ticks > TIMEOUT_SEC) <=> a >= TM!Deadline + Ticks
<1> DEFINE q == a \div Ticks
           r == a % Ticks
<1>1. q \in Int /\ r \in 0 .. (Ticks - 1) /\ a = Ticks * q + r
  BY TimeoutAssumption
<1> HIDE DEF q, r
<1>2. CASE q > TIMEOUT_SEC
  <2>1. Ticks * q = Ticks * (TIMEOUT_SEC + 1) + Ticks * (q - TIMEOUT_SEC - 1)
    BY <1>1, TimeoutAssumption
  <2>2. Ticks * (q - TIMEOUT_SEC - 1) >= 0
    BY <1>1, <1>2, TimeoutAssumption
  <2>3. Ticks * (TIMEOUT_SEC + 1) = TM!Deadline + Ticks
    BY TimeoutAssumption DEF TM!Deadline
  <2> QED  BY <1>1, <1>2, <2>1, <2>2, <2>3, DeadlineNat, TimeoutAssumption DEF q
<1>3. CASE ~(q > TIMEOUT_SEC)
  <2>1. Ticks * TIMEOUT_SEC = Ticks * q + Ticks * (TIMEOUT_SEC - q)
    BY <1>1, TimeoutAssumption
  <2>2. Ticks * (TIMEOUT_SEC - q) >= 0
    BY <1>1, <1>3, TimeoutAssumption
  <2>3. Ticks * TIMEOUT_SEC = TM!Deadline
    BY TimeoutAssumption DEF TM!Deadline
  <2> QED  BY <1>1, <1>3, <2>1, <2>2, <2>3, DeadlineNat, TimeoutAssumption DEF q
<1> QED  BY <1>2, <1>3

LEMMA TimeIsUpWhen == TM!TypeOK => (TM!TimeIsUp <=> second + elapsed >= TM!Deadline + Ticks)
<1> SUFFICES ASSUME TM!TypeOK
             PROVE  TM!TimeIsUp <=> second + elapsed >= TM!Deadline + Ticks
  OBVIOUS
<1>1. second + elapsed \in Nat
  BY HorizonBeyond, TimeoutAssumption DEF TM!TypeOK
<1> QED  BY <1>1, UpWhen DEF TM!TimeIsUp

\* The facts about the constants that the steps use.
LEMMA Bounds ==
  /\ Ticks \in Nat /\ Ticks >= 1 /\ MaxSignals \in Nat /\ MaxLines \in Nat
  /\ TM!Deadline \in Nat /\ TM!Deadline >= 1
  /\ TM!Horizon \in Nat /\ TM!Horizon > TM!Deadline + Ticks + 1
  BY TimeoutAssumption, DeadlineNat, LongestIs, HorizonBeyond

\* However late in its second the call begins, the time is not up yet.
LEMMA CallBegins ==
  ASSUME TM!Call, g_mode \in TM!Polling
  PROVE  /\ tpc' = "look" /\ ~timedOut' /\ rv' = "none"
         /\ second' + elapsed' <= TM!Deadline + Ticks /\ since' + 1 >= elapsed'
<1>1. PICK t \in 0 .. (Ticks - 1) : second' = t
  BY DEF TM!Call
<1>2. elapsed' = 0 /\ since' = 0
  BY DEF TM!Call
<1>3. t + 0 <= TM!Deadline + Ticks /\ 0 + 1 >= 0
  BY Bounds
<1>4. tpc' = "look" /\ ~timedOut' /\ rv' = "none"
  BY DEF TM!Call
<1> QED  BY <1>1, <1>2, <1>3, <1>4

\* TryAgain with the time up and with the time not up.
LEMMA TryAgainIs ==
  ASSUME TM!TypeOK, TM!TryAgain
  PROVE  \/ second + elapsed >= TM!Deadline + Ticks /\ timedOut' = TRUE /\ rv' = "-1"
         \/ second + elapsed < TM!Deadline + Ticks /\ timedOut' = FALSE /\ rv' = rv
<1>0. second + elapsed \in Int
  BY Bounds DEF TM!TypeOK
<1>1. CASE TM!TimeIsUp
  <2>1. timedOut' = TRUE
    BY <1>1, Zenon DEF TM!TryAgain
  <2>2. rv' = "-1"
    BY <1>1 DEF TM!TryAgain
  <2> QED  BY <1>0, <1>1, <2>1, <2>2, TimeIsUpWhen
<1>2. CASE ~TM!TimeIsUp
  <2>0. TM!TimeIsUp = FALSE
    BY <1>2 DEF TM!TimeIsUp
  <2>1. timedOut' = FALSE
    BY <2>0, Zenon DEF TM!TryAgain
  <2>2. rv' = rv
    BY <1>2 DEF TM!TryAgain
  <2> QED  BY <1>0, <1>2, <2>1, <2>2, TimeIsUpWhen, Bounds
<1> QED  BY <1>1, <1>2


LEMMA AllowedIs ==
  ASSUME TM!TypeOK
  PROVE  TM!Allowed = IF g_mode \in TM!Polling THEN TM!Deadline + Ticks + 1
                   ELSE IF g_mode = "s" THEN TM!Deadline ELSE Quota(signals)
  BY LongestIs DEF TM!Allowed, Quota

---------------------------------------------------------------------------
(* Types                                                                   *)

LEMMA TimeoutStarts == TM!Init => TimeoutInv
<1> SUFFICES ASSUME TM!Init PROVE TimeoutInv
  OBVIOUS
<1>1. TM!TypeOK
  <2>1. second \in 0 .. (Ticks - 1) /\ 0 \in 0 .. TM!Horizon /\ 0 \in 0 .. TM!Deadline
        /\ 0 \in 0 .. MaxSignals /\ 0 \in 0 .. MaxLines
    BY Bounds DEF TM!Init
  <2> QED  BY <2>1 DEF TM!Init, TM!TypeOK, TM!Modes, TM!Halves
<1> QED  BY <1>1 DEF TM!Init, TimeoutInv, PollingInv, WaitingInv, PollingOK, WaitingOK

LEMMA TimeoutTypeStep == TM!TypeOK /\ [TM!Next]_(TM!vars) => TM!TypeOK'
<1> SUFFICES ASSUME TM!TypeOK, [TM!Next]_(TM!vars) PROVE TM!TypeOK'
  OBVIOUS
<1> USE Bounds DEF TM!TypeOK
<1>1. CASE TM!Send
  BY <1>1 DEF TM!Send, TM!callVars
<1>2. CASE TM!Finish
  BY <1>2 DEF TM!Finish, TM!callVars
<1>3. CASE TM!Accept
  BY <1>3 DEF TM!Accept, TM!callVars
<1>10. CASE TM!CallFails \/ TM!Reply \/ TM!Close
  BY <1>10 DEF TM!CallFails, TM!Reply, TM!Close, TM!callVars, TM!sockVars
<1>11. CASE TM!Call
  <2>1. second' \in 0 .. (Ticks - 1) /\ timer' \in 0 .. TM!Deadline
    BY <1>11 DEF TM!Call
  <2>2. upper' \in TM!Halves
    BY <1>11 DEF TM!Call, TM!Halves
  <2>3. elapsed' \in 0 .. TM!Horizon /\ since' \in 0 .. TM!Horizon /\ signals' \in 0 .. MaxSignals
    BY <1>11 DEF TM!Call
  <2>4. tpc' \in {"look", "wait"} /\ rv' = "none" /\ timedOut' = FALSE
        /\ UNCHANGED <<g_mode, lines, fin>>
    BY <1>11 DEF TM!Call
  <2> QED  BY <2>1, <2>2, <2>3, <2>4
<1>4. CASE TM!TryRecv \/ TM!WaitReceives \/ TM!RecvNow
  BY <1>4 DEF TM!TryRecv, TM!WaitReceives, TM!RecvNow, TM!Recv
<1>5. CASE TM!GiveUp \/ TM!Look
  BY <1>5 DEF TM!GiveUp, TM!Look, TM!callVars, TM!sockVars
<1>12. CASE TM!TryAgain
  BY <1>12, TryAgainIs DEF TM!TryAgain, TM!sockVars
<1>6. CASE TM!Sleep \/ TM!Wait \/ TM!RecvBlocks
  BY <1>6 DEF TM!Sleep, TM!Wait, TM!RecvBlocks, TM!Passes, TM!sockVars
<1>7. CASE TM!WaitTimesOut \/ TM!WaitEnds \/ TM!WaitFails
  BY <1>7 DEF TM!WaitTimesOut, TM!WaitEnds, TM!WaitFails, TM!callVars, TM!sockVars
<1>8. CASE TM!Eintr
  BY <1>8 DEF TM!Eintr, TM!AfterEintr, TM!sockVars
<1>9. CASE UNCHANGED TM!vars
  BY <1>9 DEF TM!vars, TM!callVars, TM!sockVars
<1> QED
  BY <1>1, <1>2, <1>3, <1>4, <1>5, <1>6, <1>7, <1>8, <1>9, <1>10, <1>11, <1>12
     DEF TM!Next, TM!Program

---------------------------------------------------------------------------
(* The modes that poll                                                     *)

LEMMA PollingStep == TM!TypeOK /\ PollingInv /\ [TM!Next]_(TM!vars) => PollingInv'
<1> SUFFICES ASSUME TM!TypeOK, PollingInv, [TM!Next]_(TM!vars),
                    (g_mode \in TM!Polling)', (upper = "zero")'
             PROVE  PollingInv'
  BY DEF PollingInv, PollingOK
<1>up. TM!TimeIsUp <=> second + elapsed >= TM!Deadline + Ticks
  BY TimeIsUpWhen
<1> USE Bounds DEF TM!TypeOK, PollingInv, PollingOK
<1>1. CASE TM!Send
  BY <1>1 DEF TM!Send, TM!callVars
<1>2. CASE TM!Finish
  BY <1>2 DEF TM!Finish, TM!callVars
<1>3. CASE TM!Accept
  BY <1>3 DEF TM!Accept, TM!callVars
<1>4. CASE TM!Call
  <2>1. g_mode \in TM!Polling
    BY <1>4 DEF TM!Call
  <2> QED  BY <1>4, <2>1, CallBegins
<1>5. CASE TM!CallFails \/ TM!Reply \/ TM!Close
  BY <1>5 DEF TM!CallFails, TM!Reply, TM!Close, TM!callVars, TM!sockVars
<1>6. CASE TM!TryRecv
  BY <1>6 DEF TM!TryRecv, TM!Recv, TM!Polling
<1>7. CASE TM!TryAgain
  <2>1. tpc' = "sleep" /\ ~(lines' > 0) /\ elapsed' = elapsed /\ second' = second
    BY <1>7 DEF TM!TryAgain, TM!Readable, TM!sockVars
  <2>2. ~timedOut /\ rv = "none" /\ second + elapsed <= TM!Deadline + Ticks
    BY <1>7 DEF TM!TryAgain, TM!sockVars
  <2>3. CASE second + elapsed >= TM!Deadline + Ticks /\ timedOut' = TRUE /\ rv' = "-1"
    <3>1. elapsed' >= TM!Deadline /\ elapsed' <= TM!Deadline + Ticks
      BY <2>1, <2>2, <2>3
    <3> QED  BY <2>1, <2>3, <3>1
  <2>4. CASE second + elapsed < TM!Deadline + Ticks /\ timedOut' = FALSE /\ rv' = rv
    <3>1. ~timedOut' /\ rv' = "none"
      BY <2>2, <2>4
    <3> QED  BY <2>1, <2>4, <3>1
  <2> QED  BY <1>7, <2>3, <2>4, TryAgainIs
<1>8. CASE TM!GiveUp
  BY <1>8, <1>up DEF TM!GiveUp, TM!sockVars, TM!Polling
<1>9. CASE TM!Look
  <2>1. upper = "zero" /\ ~timedOut /\ second + elapsed < TM!Deadline + Ticks
        /\ UNCHANGED <<g_mode, TM!callVars, TM!sockVars>>
    BY <1>9, <1>up DEF TM!Look, TM!callVars
  <2>2. tpc' = IF lines > 0 THEN "recv" ELSE "sleep"
    BY <1>9, <2>1 DEF TM!Look, TM!Fionread
  <2>3. rv = "none"
    BY <1>9, <2>1 DEF TM!Look, TM!callVars
  <2> QED  BY <1>9, <2>1, <2>2, <2>3 DEF TM!Look, TM!callVars, TM!sockVars
<1>10. CASE TM!Sleep
  BY <1>10 DEF TM!Sleep, TM!Passes, TM!sockVars
<1>11. CASE TM!Wait \/ TM!WaitTimesOut \/ TM!WaitEnds \/ TM!WaitReceives \/ TM!Eintr \/ TM!WaitFails
  BY <1>11 DEF TM!Wait, TM!WaitTimesOut, TM!WaitEnds, TM!WaitReceives, TM!Recv, TM!Eintr, TM!WaitFails, TM!callVars, TM!sockVars
<1>12. CASE TM!RecvNow
  BY <1>12 DEF TM!RecvNow, TM!Recv
<1>13. CASE TM!RecvBlocks
  BY <1>13 DEF TM!RecvBlocks, TM!Readable, TM!sockVars
<1>14. CASE UNCHANGED TM!vars
  BY <1>14 DEF TM!vars, TM!callVars, TM!sockVars
<1> QED
  BY <1>1, <1>2, <1>3, <1>4, <1>5, <1>6, <1>7, <1>8, <1>9, <1>10, <1>11, <1>12, <1>13, <1>14
     DEF TM!Next, TM!Program

---------------------------------------------------------------------------
(* The modes that wait                                                     *)

LEMMA WaitingStep == TM!TypeOK /\ WaitingInv /\ [TM!Next]_(TM!vars) => WaitingInv'
<1> SUFFICES ASSUME TM!TypeOK, WaitingInv, [TM!Next]_(TM!vars), (g_mode \notin TM!Polling)'
             PROVE  WaitingInv'
  BY DEF WaitingInv, WaitingOK
<1> DEFINE Q == Quota(signals)
<1>0. Q \in Nat /\ Q >= TM!Deadline /\ Quota(signals + 1) = Q + TM!Deadline /\ Quota(0) = TM!Deadline
  <2>1. Quota(0) = TM!Deadline
    BY Bounds DEF Quota
  <2> QED  BY <2>1, Bounds, QuotaGrows DEF TM!TypeOK
<1> HIDE DEF Q
<1>q. (signals' = signals => Quota(signals') = Q) /\ (signals' = signals + 1 => Quota(signals') = Q + TM!Deadline)
      /\ (signals' = 0 => Quota(signals') = TM!Deadline) /\ Quota(signals) = Q
  BY <1>0 DEF Q
<1> USE <1>0, <1>q, Bounds DEF TM!TypeOK, WaitingInv, WaitingOK
<1>1. CASE TM!Send
  BY <1>1 DEF TM!Send, TM!callVars, TM!Readable
<1>2. CASE TM!Finish
  BY <1>2 DEF TM!Finish, TM!callVars, TM!Readable
<1>3. CASE TM!Accept
  BY <1>3 DEF TM!Accept, TM!callVars
<1>4. CASE TM!Call
  BY <1>4 DEF TM!Call, TM!Polling
<1>5. CASE TM!CallFails \/ TM!Reply \/ TM!Close
  BY <1>5 DEF TM!CallFails, TM!Reply, TM!Close, TM!callVars, TM!sockVars
<1>6. CASE TM!TryRecv \/ TM!TryAgain \/ TM!GiveUp \/ TM!Look \/ TM!Sleep
  BY <1>6 DEF TM!TryRecv, TM!Recv, TM!TryAgain, TM!GiveUp, TM!Look, TM!Sleep, TM!sockVars, TM!callVars
<1>7. CASE TM!Wait
  BY <1>7 DEF TM!Wait, TM!Passes, TM!sockVars
<1>8. CASE TM!WaitTimesOut
  BY <1>8 DEF TM!WaitTimesOut, TM!Readable, TM!sockVars
<1>9. CASE TM!WaitEnds
  BY <1>9 DEF TM!WaitEnds, TM!Readable, TM!callVars, TM!sockVars
<1>10. CASE TM!WaitReceives
  BY <1>10 DEF TM!WaitReceives, TM!Recv
<1>11. CASE TM!Eintr
  BY <1>11 DEF TM!Eintr, TM!AfterEintr, TM!sockVars
<1>12. CASE TM!WaitFails
  BY <1>12 DEF TM!WaitFails, TM!sockVars
<1>13. CASE TM!RecvNow
  BY <1>13 DEF TM!RecvNow, TM!Recv
<1>14. CASE TM!RecvBlocks
  BY <1>14 DEF TM!RecvBlocks, TM!sockVars
<1>15. CASE UNCHANGED TM!vars
  BY <1>15 DEF TM!vars, TM!callVars, TM!sockVars, TM!Readable
<1> QED
  BY <1>1, <1>2, <1>3, <1>4, <1>5, <1>6, <1>7, <1>8, <1>9, <1>10, <1>11, <1>12, <1>13, <1>14, <1>15
     DEF TM!Next, TM!Program

LEMMA TimeoutKeeps == TimeoutInv /\ [TM!Next]_(TM!vars) => TimeoutInv'
  BY TimeoutTypeStep, PollingStep, WaitingStep DEF TimeoutInv

\* What is claimed of a call that has returned, or is under way, follows.
LEMMA Enough == TimeoutInv => TM!TimeoutIsTrue /\ TM!CallIsBounded
<1> SUFFICES ASSUME TimeoutInv PROVE TM!TimeoutIsTrue /\ TM!CallIsBounded
  OBVIOUS
<1>1. TM!TimeoutIsTrue
  BY Bounds DEF TimeoutInv, PollingInv, WaitingInv, TM!TimeoutIsTrue
<1>2. ASSUME tpc \notin {"accept", "call"}, upper = "zero" PROVE elapsed <= TM!Allowed
  <2> USE <1>2, Bounds, AllowedIs DEF TimeoutInv, TM!TypeOK
  <2>1. CASE g_mode \in TM!Polling
    BY <2>1 DEF PollingInv, PollingOK
  <2>2. CASE g_mode \notin TM!Polling
    <3>1. Quota(signals) \in Nat
      BY QuotaGrows
    <3> QED  BY <2>2, <3>1 DEF WaitingInv, WaitingOK
  <2> QED  BY <2>1, <2>2
<1> QED  BY <1>1, <1>2 DEF TM!CallIsBounded

LEMMA TimeoutInvariant == TM!Spec => []TimeoutInv
  BY TimeoutStarts, TimeoutKeeps, PTL DEF TM!Spec

\* Whatever the programs together do, timeout.c's part of it is what timeout.c may do.
LEMMA TimeoutStays == ReceivingSpec => TM!Spec
<1>1. ReceivingInit => TM!Init
  BY DEF ReceivingInit
<1>2. [ReceivingNext]_allVars => [TM!Next]_(TM!vars)
  BY DEF ReceivingNext, OnelineStep, Oneline1Step, TimeoutStep, ConnectStep, BigStep, allVars,
         ownT, TM!vars, TM!callVars, TM!sockVars
<1> QED  BY <1>1, <1>2, PTL DEF ReceivingSpec, TM!Spec

---------------------------------------------------------------------------
(* oneline1.c                                                              *)

OP == INSTANCE Oneline1Proofs WITH ended <- eofs

LEMMA Oneline1Same ==
    /\ O1!Init1 <=> OP!Init1
    /\ O1!Next1 <=> OP!Next1
    /\ O1!TypeOK1 <=> OP!TypeOK1
    /\ O1!CountIsOpen1 <=> OP!CountIsOpen1
    /\ O1!RoomForNul1 <=> OP!RoomForNul1
    /\ O1!LinesEchoed <=> OP!LinesEchoed
    /\ O1!BufferHoldsLine <=> OP!BufferHoldsLine
<1> USE DEF O1!bufVars, O1!Bytes, O1!Soc, O1!Fds, O1!Places, O1!FreeFds, O1!Start, O1!NoReply,
            O1!CString, O1!Text, O1!LastIs
<1> USE DEF OP!bufVars, OP!Bytes, OP!Soc, OP!Fds, OP!Places, OP!FreeFds, OP!Start, OP!NoReply,
            OP!CString, OP!Text, OP!LastIs
<1>1. O1!Init1 <=> OP!Init1
  BY DEF O1!Init1, OP!Init1
<1>2. O1!Next1 <=> OP!Next1
  <2> USE DEF O1!NextEvent, OP!NextEvent, O1!Full, OP!Full, O1!IsLine, OP!IsLine,
              O1!Put, OP!Put, O1!Received, OP!Received, O1!Eof, OP!Eof,
              O1!Cleared, OP!Cleared, O1!Answer, OP!Answer, O1!Drop, OP!Drop
  <2>1. (O1!EpollWait <=> OP!EpollWait) /\ (O1!BatchEnds <=> OP!BatchEnds)
    BY DEF O1!EpollWait, OP!EpollWait, O1!BatchEnds, OP!BatchEnds
  <2>2. /\ O1!AcceptFails <=> OP!AcceptFails
        /\ O1!AcceptFull <=> OP!AcceptFull
        /\ O1!AcceptAdd <=> OP!AcceptAdd
        /\ O1!AcceptAddFails <=> OP!AcceptAddFails
    BY DEF O1!AcceptFails, OP!AcceptFails, O1!AcceptFull, OP!AcceptFull,
           O1!AcceptAdd, OP!AcceptAdd, O1!AcceptAddFails, OP!AcceptAddFails
  <2>3. ASSUME NEW f
        PROVE  /\ \A b : O1!RecvMore(f, b) <=> OP!RecvMore(f, b)
               /\ \A b : O1!RecvLine(f, b) <=> OP!RecvLine(f, b)
               /\ \A b : O1!SendFails(f, b) <=> OP!SendFails(f, b)
    BY DEF O1!RecvMore, OP!RecvMore, O1!RecvLine, OP!RecvLine, O1!SendFails, OP!SendFails
  <2>4. ASSUME NEW f
        PROVE  /\ O1!RecvRest(f) <=> OP!RecvRest(f)
               /\ O1!RestFails(f) <=> OP!RestFails(f)
               /\ O1!RecvFails(f) <=> OP!RecvFails(f)
               /\ O1!HangUp(f) <=> OP!HangUp(f)
    BY DEF O1!RecvRest, OP!RecvRest, O1!RestFails, OP!RestFails,
           O1!RecvFails, OP!RecvFails, O1!HangUp, OP!HangUp
  <2>5. ASSUME NEW f PROVE O1!SendRecv(f) <=> OP!SendRecv(f)
    BY <2>3, <2>4 DEF O1!SendRecv, OP!SendRecv
  <2> QED  BY <2>1, <2>2, <2>5 DEF O1!Next1, OP!Next1
<1>3. /\ O1!TypeOK1 <=> OP!TypeOK1
      /\ O1!CountIsOpen1 <=> OP!CountIsOpen1
      /\ O1!RoomForNul1 <=> OP!RoomForNul1
  BY DEF O1!TypeOK1, OP!TypeOK1, O1!CountIsOpen1, OP!CountIsOpen1, O1!Cardinality, OP!Cardinality,
         O1!RoomForNul1, OP!RoomForNul1
<1>4. /\ O1!LinesEchoed <=> OP!LinesEchoed
      /\ O1!BufferHoldsLine <=> OP!BufferHoldsLine
  BY DEF O1!LinesEchoed, OP!LinesEchoed, O1!BufferHoldsLine, OP!BufferHoldsLine
<1> QED  BY <1>1, <1>2, <1>3, <1>4

LEMMA Oneline1Stays == ReceivingSpec => OP!Spec1
<1>1. ReceivingInit => OP!Init1
  BY Oneline1Same DEF ReceivingInit
<1>2. [ReceivingNext]_allVars => [OP!Next1]_(OP!vars1)
  BY Oneline1Same
     DEF ReceivingNext, OnelineStep, Oneline1Step, TimeoutStep, ConnectStep, BigStep, allVars,
         own1, OP!vars1, OP!loopVars, OP!bufVars
<1> QED  BY <1>1, <1>2, PTL DEF ReceivingSpec, OP!Spec1

---------------------------------------------------------------------------
(* client-timeout.c                                                        *)

\* While select() waits, what has passed and what is left are the timeout.
ConnectInv ==
    /\ timeout \in {-1, 0, Deadline}
    /\ passed \in Nat /\ left \in Nat
    /\ timeout >= 0 =>
           /\ cpc # "blocked"
           /\ passed <= timeout
           /\ cpc = "connect" => passed = 0
           /\ cpc = "select" => passed + left = timeout
    /\ CN!ConnectIsTrue

LEMMA ConnectStarts == ReceivingInit => ConnectInv
  BY TimeoutAssumption
     DEF ReceivingInit, CN!ConnectInit, CN!Deadline, Deadline, ConnectInv, CN!ConnectIsTrue

LEMMA ConnectKeeps == ConnectInv /\ [ReceivingNext]_allVars => ConnectInv'
<1> SUFFICES ASSUME ConnectInv, [ReceivingNext]_allVars PROVE ConnectInv'
  OBVIOUS
<1> USE DEF ConnectInv, CN!ConnectIsTrue
<1>1. Deadline \in Nat /\ CN!Late = Deadline + 2
  BY TimeoutAssumption DEF Deadline, CN!Late, CN!Deadline
<1>2. CASE UNCHANGED ownC
  BY <1>2 DEF ownC
<1>3. CASE CN!ConnectNext
  <2>1. CASE CN!Connect
    BY <2>1, <1>1 DEF CN!Connect
  <2>2. CASE CN!ConnectAtOnce
    BY <2>2 DEF CN!ConnectAtOnce, CN!Returns
  <2>3. CASE CN!ConnectReturns
    BY <2>3 DEF CN!ConnectReturns, CN!Returns
  <2>4. CASE CN!SoError
    BY <2>4 DEF CN!SoError, CN!Returns
  <2>5. CASE CN!SelectTimesOut
    BY <2>5 DEF CN!SelectTimesOut, CN!Returns
  <2>6. CASE CN!SelectInterrupted
    BY <2>6 DEF CN!SelectInterrupted
  <2>7. CASE CN!SelectFails
    BY <2>7 DEF CN!SelectFails, CN!Returns
  <2>8. CASE CN!Tick
    BY <2>8, <1>1 DEF CN!Tick
  <2>9. CASE CN!ServerAnswers
    BY <2>9 DEF CN!ServerAnswers
  <2> QED
    BY <1>3, <2>1, <2>2, <2>3, <2>4, <2>5, <2>6, <2>7, <2>8, <2>9 DEF CN!ConnectNext
<1> QED
  BY <1>2, <1>3
     DEF ReceivingNext, OnelineStep, Oneline1Step, TimeoutStep, ConnectStep, BigStep, allVars

LEMMA ConnectHolds == ReceivingSpec => []ConnectInv
  BY ConnectStarts, ConnectKeeps, PTL DEF ReceivingSpec

---------------------------------------------------------------------------
(* bigclient.c and bigserver.c                                             *)

\* What send() has returned is what the kernel took, unless the connection broke; and
\* the server comes to its end only when all of that has been received.
BigInv ==
    /\ copied \in Nat /\ total \in Nat
    /\ total <= copied /\ copied <= total + Room
    /\ sendRv = -2 /\ ~mayBlock.client => copied = 0
    /\ ~broken /\ sendRv # -2 => sendRv = copied /\ (mayBlock.client => copied = BigSize)
    /\ closed => sendRv # -2
    /\ ~broken /\ rpc = "done" => closed /\ total = copied

LEMMA BigStarts == ReceivingInit => BigInv
  BY BigAssumption DEF ReceivingInit, BigInit, BigInv

LEMMA BigKeeps == BigInv /\ [ReceivingNext]_allVars => BigInv'
<1> SUFFICES ASSUME BigInv, [ReceivingNext]_allVars PROVE BigInv'
  OBVIOUS
<1> USE BigAssumption DEF BigInv
<1>1. CASE UNCHANGED bigVars
  BY <1>1 DEF bigVars
<1>2. CASE BigNext
  <2>1. CASE SendPart
    <3>1. PICK n \in 1 .. Least(Free, BigSize - copied) : copied' = copied + n
      BY <2>1 DEF SendPart
    <3>2. n \in Nat /\ n <= Free /\ n <= BigSize - copied
      BY <3>1 DEF Least, Free
    <3> QED  BY <2>1, <3>1, <3>2 DEF SendPart, Free
  <2>2. CASE SendSome
    <3>1. PICK n \in 1 .. Least(Free, BigSize) : copied' = n /\ sendRv' = n
      BY <2>2 DEF SendSome
    <3>2. n \in Nat /\ n <= Free
      BY <3>1 DEF Least, Free
    <3> QED  BY <2>2, <3>1, <3>2 DEF SendSome, Free
  <2>3. CASE SendFails
    BY <2>3 DEF SendFails
  <2>4. CASE Close
    BY <2>4 DEF Close
  <2>5. CASE BigAccept
    BY <2>5 DEF BigAccept
  <2>6. CASE RecvPart
    BY <2>6 DEF RecvPart
  <2>7. CASE Eagain
    BY <2>7 DEF Eagain, bigVars
  <2>8. CASE RecvEnds
    BY <2>8 DEF RecvEnds
  <2>9. CASE BigRecvFails
    BY <2>9 DEF BigRecvFails
  <2> QED
    BY <1>2, <2>1, <2>2, <2>3, <2>4, <2>5, <2>6, <2>7, <2>8, <2>9 DEF BigNext
<1> QED
  BY <1>1, <1>2
     DEF ReceivingNext, OnelineStep, Oneline1Step, TimeoutStep, ConnectStep, BigStep, allVars

---------------------------------------------------------------------------
(* The theorems                                                            *)

\* The invariant of oneline.c holds in every reachable state of it.
THEOREM LineInvariant == Spec => []IInv
<1>1. IInv /\ [Next]_vars => IInv'
  BY TypeStep, FitsStep, BlockStep, BytesStep, PiecesStep, ReplyStep, StepsStep DEF IInv
<1>2. QED
  BY InitIInv, <1>1, PTL DEF Spec

\* Variables have their types.
THEOREM TypeCorrect == Spec => []TypeOK
<1>1. IInv => TypeOK
  BY DEF IInv
<1>2. QED
  BY LineInvariant, <1>1, PTL

\* No byte is lost, doubled or moved between the client and the replies.
THEOREM BytesCorrect == Spec => []BytesAccounted
<1>1. IInv => BytesAccounted
  BY DEF IInv
<1>2. QED
  BY LineInvariant, <1>1, PTL

\* A reply answers one line, or as much of it as the fixed buffer holds.
THEOREM LineCorrect == Spec => []OneLineAtATime
<1>1. IInv => OneLineAtATime
  BY DEF IInv
<1>2. QED
  BY LineInvariant, <1>1, PTL

\* recv_one_line_1() and recv_one_line_2() never write behind the end of their
\* buffers, the '\0' included; a line is refused only for its length; and when a
\* connection is over every block is freed that a pointer leads to.
THEOREM BuffersCorrect == Spec => []BuffersSuffice
<1>1. IInv => RoomForNul
  BY DEF IInv, Fits, RoomForNul
<1>2. IInv => BlocksFreed
  BY DEF IInv, OneBlock, BlocksFreed, TypeOK
<1>3. ASSUME IInv PROVE RefusedOnlyAtLimit
  <2>1. SUFFICES ASSUME pc = "refused", NEW m \in 0 .. ALLOC_LIMIT, ALLOC_LIMIT = m * ALLOC_SIZE
                 PROVE  Len(data) + Len(buf) >= ALLOC_LIMIT
    BY DEF RefusedOnlyAtLimit
  <2>2. PICK k \in Nat : size = k * ALLOC_SIZE
    BY <1>3 DEF IInv, Steps
  <2>3. m \in Nat /\ ALLOC_SIZE \in Nat /\ size \in Nat /\ ALLOC_LIMIT \in Nat
    BY <1>3, LineAssumption DEF IInv, TypeOK
  <2>4. size + ALLOC_SIZE > ALLOC_LIMIT /\ Len(data) + Len(buf) >= size
    BY <1>3, <2>1 DEF IInv, Steps, OverLimit, LacksSpace
  <2>5. size >= ALLOC_LIMIT
    BY <2>1, <2>2, <2>3, <2>4, Multiples
  <2>6. Len(data) \in Nat /\ Len(buf) \in Nat
    BY <1>3, LenProperties DEF IInv, TypeOK
  <2>7. QED
    BY <2>3, <2>4, <2>5, <2>6
<1>4. IInv => BuffersSuffice
  BY <1>1, <1>2, <1>3 DEF BuffersSuffice
<1>5. QED
  BY LineInvariant, <1>4, PTL

\* For every number of connections and every size of g_buf: oneline1.c replies to a line
\* that does not end with the connection as it was received, writes no place behind an
\* array and closes no descriptor twice.
THEOREM EchoCorrect == ReceivingSpec => []LinesEchoed
<1>1. (/\ OP!TypeOK1 /\ OP!LinesEchoed /\ OP!BufferHoldsLine
       /\ OP!CountIsOpen1 /\ OP!RoomForNul1) => LinesEchoed
  BY Oneline1Same DEF LinesEchoed
<1> QED  BY Oneline1Stays, OP!EchoCorrect, LineAssumption, <1>1, PTL

\* For every timeout, every tick and any number of signals: timeout.c gives a client up
\* only when its time has passed, and passes over no line that came before; and
\* client-timeout.c returns a socket only if it is connected and blocks again.
THEOREM TimeoutCorrect == ReceivingSpec => []TimeoutIsTrue
<1>1. TimeoutInv => TM!TypeOK
  BY DEF TimeoutInv
<1>2. TM!TypeOK /\ TM!TimeoutIsTrue /\ ConnectInv => TimeoutIsTrue
  BY DEF ConnectInv, TimeoutIsTrue
<1> QED  BY TimeoutStays, TimeoutInvariant, Enough, ConnectHolds, <1>1, <1>2, PTL

\* For the same: no call of timeout.c takes longer than its way of waiting allows (no
\* garbage in nread given), and no connection is waited for beyond the timeout.
THEOREM BoundCorrect == ReceivingSpec => []CallIsBounded
<1>1. TM!CallIsBounded /\ ConnectInv => CallIsBounded
  BY DEF ConnectInv, CN!ConnectIsBounded, CallIsBounded
<1> QED  BY TimeoutStays, TimeoutInvariant, Enough, ConnectHolds, <1>1, PTL

\* For every size of the buffer and of the kernel's room: the server receives what was
\* sent and no more, and all of it unless an error was reported.
THEOREM TransferCorrect == ReceivingSpec => []TransferIsWhole
<1>1. BigInv => TransferIsWhole
  BY DEF BigInv, TransferIsWhole
<1> QED  BY BigStarts, BigKeeps, <1>1, PTL DEF ReceivingSpec
=============================================================================
