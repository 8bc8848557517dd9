------------------------------ MODULE Oneline ------------------------------
(***************************************************************************)
(* chapter06/oneline.c: one connection at a time, read one byte per recv() *)
(* until a line is complete.  recv_one_line_1() fills a buffer of fixed    *)
(* size and returns early when it is full; recv_one_line_2() joins what it *)
(* returns in an allocated buffer that grows up to a limit.                *)
(***************************************************************************)
EXTENDS LineBytes

VARIABLES
    mode,       \* g_mode: 1 for the fixed buffer, 2 for the allocated one
    pc,         \* where the server is
    said,       \* history: the bytes received on this connection
    echoed,     \* history: those of them that were in lines replied to
    ended,      \* recv() has returned 0
    buf,        \* buf[0 .. pos - 1] of recv_one_line_1()
    data,       \* data[0 .. now_len - 1] of recv_one_line_2()
    size,       \* its size
    have,       \* data is not NULL
    blocks,     \* allocated blocks that have not been freed
    lost,       \* those of them no pointer leads to any more
    failures    \* allocations that have failed

connVars == <<said, echoed, ended>>
lineVars == <<buf, data, size, have>>
heapVars == <<blocks, lost, failures>>
vars == <<mode, pc, connVars, lineVars, heapVars>>

bufsize == IF mode = 1 THEN FIXED_BUFFER_SIZE ELSE ALLOC_SIZE

Init ==
    /\ mode \in {1, 2}
    /\ pc = "accept"
    /\ said = <<>> /\ echoed = <<>> /\ ended = FALSE
    /\ buf = <<>> /\ data = <<>> /\ size = 0 /\ have = FALSE
    /\ blocks = 0 /\ lost = 0 /\ failures = 0

Accept ==
    /\ pc = "accept"
    /\ pc' = "recv"
    /\ said' = <<>> /\ echoed' = <<>> /\ ended' = FALSE
    /\ buf' = <<>> /\ data' = <<>> /\ size' = 0 /\ have' = FALSE
    /\ UNCHANGED <<mode, heapVars>>

\* mutant: the place of the terminating '\0' is used
ReturnsLate(s) == LastIs(s, NL) \/ Len(s) = bufsize

\* mutant: only a full buffer is returned
ReturnsFull(s) == Len(s) = bufsize - 1

\* recv_one_line_1() returns what it has.
Returns(s) == LastIs(s, NL) \/ Len(s) = bufsize - 1

RecvByte ==
    /\ pc = "recv"
    /\ ~ended
    /\ Len(said) < MaxBytes
    /\ \E b \in Bytes :
           /\ said' = Append(said, b)
           /\ buf' = Append(buf, b)
           /\ pc' = IF Returns(buf') THEN "line" ELSE "recv"
    /\ UNCHANGED <<mode, echoed, ended, data, size, have, heapVars>>

\* recv() returns 0: what was received before is a line.
RecvEof ==
    /\ pc = "recv"
    /\ ended' = TRUE
    /\ pc' = "line"
    /\ UNCHANGED <<mode, said, echoed, lineVars, heapVars>>

\* mutant: data is freed though it is NULL or was freed
RecvFailsTwice ==
    /\ pc = "recv"
    /\ ~ended
    /\ pc' = "accept"
    /\ blocks' = blocks - 1
    /\ UNCHANGED <<mode, connVars, lineVars, lost, failures>>

\* recv() returns -1: recv_one_line_2() frees its data.
RecvFails ==
    /\ pc = "recv"
    /\ ~ended
    /\ pc' = "accept"
    /\ blocks' = IF have THEN blocks - 1 ELSE blocks
    /\ UNCHANGED <<mode, connVars, lineVars, lost, failures>>

---------------------------------------------------------------------------
(* recv_one_line_2(), after recv_one_line_1() has returned                 *)

\* mutant: the terminating '\0' is forgotten
LacksSpaceForAll == Len(data) + Len(buf) > size
LacksSpace == Len(data) + Len(buf) >= size

\* mutant: the limit itself is not allowed
ReachesLimit == size + ALLOC_SIZE >= ALLOC_LIMIT
OverLimit == size + ALLOC_SIZE > ALLOC_LIMIT

\* What is joined is a line if it ends as one.
Join(newsize) ==
    /\ data' = data \o buf
    /\ buf' = <<>>
    /\ size' = newsize
    /\ have' = TRUE
    /\ pc' = IF LastIs(buf, NL) THEN "reply" ELSE "recv"
    /\ UNCHANGED <<mode, connVars, lost, failures>>

AppendLine ==
    /\ pc = "line" /\ mode = 2 /\ buf # <<>>
    /\ ~LacksSpace
    /\ Join(size)
    /\ UNCHANGED blocks

Grow ==
    /\ pc = "line" /\ mode = 2 /\ buf # <<>>
    /\ LacksSpace
    /\ ~OverLimit
    /\ Join(size + ALLOC_SIZE)
    /\ blocks' = IF have THEN blocks ELSE blocks + 1

\* malloc() fails, or realloc(), which leaves the old block to nobody.
GrowFails ==
    /\ pc = "line" /\ mode = 2 /\ buf # <<>>
    /\ LacksSpace
    /\ ~OverLimit
    /\ failures < MaxFailures
    /\ failures' = failures + 1
    /\ lost' = IF have THEN lost + 1 ELSE lost
    /\ pc' = "accept"
    /\ UNCHANGED <<mode, connVars, lineVars, blocks>>

\* mutant: the data is not freed
RefuseKeeps ==
    /\ pc = "line" /\ mode = 2 /\ buf # <<>>
    /\ LacksSpace
    /\ OverLimit
    /\ pc' = "refused"
    /\ UNCHANGED <<mode, connVars, lineVars, heapVars>>

\* The limit is reached: the data is freed and the connection closed.
Refuse ==
    /\ pc = "line" /\ mode = 2 /\ buf # <<>>
    /\ LacksSpace
    /\ OverLimit
    /\ blocks' = IF have THEN blocks - 1 ELSE blocks
    /\ pc' = "refused"
    /\ UNCHANGED <<mode, connVars, lineVars, lost, failures>>

CloseRefused ==
    /\ pc = "refused"
    /\ pc' = "accept"
    /\ UNCHANGED <<mode, connVars, lineVars, heapVars>>

\* mutant: what was joined before is given up
NoMoreLoses ==
    /\ pc = "line" /\ buf = <<>>
    /\ pc' = "recv"
    /\ data' = <<>>
    /\ UNCHANGED <<mode, connVars, buf, size, have, heapVars>>

\* recv_one_line_1() returned 0.
NoMore ==
    /\ pc = "line" /\ buf = <<>>
    /\ pc' = IF data = <<>> THEN "accept" ELSE "reply"
    /\ UNCHANGED <<mode, connVars, lineVars, heapVars>>

---------------------------------------------------------------------------
(* send_recv_loop_1() and send_recv_loop_2()                               *)

FixedLine ==
    /\ pc = "line" /\ mode = 1 /\ buf # <<>>
    /\ pc' = "reply"
    /\ UNCHANGED <<mode, connVars, lineVars, heapVars>>

\* The reply is sent; in mode 2 the line and the reply are freed.
Reply ==
    /\ pc = "reply"
    /\ echoed' = echoed \o data \o buf
    /\ buf' = <<>> /\ data' = <<>> /\ size' = 0 /\ have' = FALSE
    /\ blocks' = IF have THEN blocks - 1 ELSE blocks
    /\ pc' = "recv"
    /\ UNCHANGED <<mode, said, ended, lost, failures>>

\* send() fails, or malloc() of the reply: what was allocated is freed.
ReplyFails ==
    /\ pc = "reply"
    /\ blocks' = IF have THEN blocks - 1 ELSE blocks
    /\ pc' = "accept"
    /\ UNCHANGED <<mode, connVars, lineVars, lost, failures>>

Next ==
    \/ Accept
    \/ RecvByte \/ RecvEof \/ RecvFails
    \/ AppendLine \/ Grow \/ GrowFails \/ Refuse \/ CloseRefused \/ NoMore
    \/ FixedLine \/ Reply \/ ReplyFails

Spec == Init /\ [][Next]_vars

---------------------------------------------------------------------------
(* Properties                                                              *)

TypeOK ==
    /\ mode \in {1, 2}
    /\ pc \in {"accept", "recv", "line", "refused", "reply"}
    /\ said \in Seq(Bytes) /\ echoed \in Seq(Bytes)
    /\ buf \in Seq(Bytes) /\ data \in Seq(Bytes)
    /\ ended \in BOOLEAN /\ have \in BOOLEAN
    /\ size \in Nat /\ blocks \in Nat /\ lost \in Nat /\ failures \in 0 .. MaxFailures

\* No byte is lost, doubled or moved between the client and the replies, whether lines
\* fit the buffers or not: what was received is what was replied to, followed by what
\* the two buffers hold.
BytesAccounted ==
    pc \in {"recv", "line", "reply"} => said = echoed \o data \o buf

\* Both buffers have room for the '\0' that is written behind their data.
RoomForNul ==
    /\ Len(buf) < bufsize
    /\ have => Len(data) < size

\* A reply answers one line: whole in mode 2, and in mode 1 whole or as much of it as
\* the fixed buffer holds; only the end of the connection shortens it.
OneLineAtATime ==
    pc = "reply" =>
        LET line == data \o buf
        IN /\ \A k \in 1 .. (Len(line) - 1) : line[k] # NL
           /\ \/ LastIs(line, NL)
              \/ ended
              \/ mode = 1 /\ Len(line) = FIXED_BUFFER_SIZE - 1

\* A line is refused only if it has ALLOC_LIMIT bytes or more, given that the limit is
\* a multiple of the size of the steps.
RefusedOnlyAtLimit ==
    (pc = "refused" /\ \E m \in 0 .. ALLOC_LIMIT : ALLOC_LIMIT = m * ALLOC_SIZE)
        => Len(data) + Len(buf) >= ALLOC_LIMIT

\* When a connection is over every block is freed, but for those a realloc() that
\* failed has left behind.
BlocksFreed == pc = "accept" => blocks = lost

\* The buffers are large enough, the allocated one grows as far as it may, and none of
\* its blocks is forgotten.
BuffersSuffice == RoomForNul /\ RefusedOnlyAtLimit /\ BlocksFreed
=============================================================================
