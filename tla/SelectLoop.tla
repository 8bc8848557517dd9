----------------------------- MODULE SelectLoop -----------------------------
(***************************************************************************)
(* What the clients that read lines from their standard input share        *)
(* (chapter01/client.c, chpater12/client-2.c, chapter04/client-timeout.c,  *)
(* chapter11/ssl-client.c and the datagram clients of chapter09): a loop   *)
(* around select(), which watches a socket and descriptor 0, and fgets(),  *)
(* which reads through a buffer select() knows nothing of.                 *)
(*                                                                         *)
(* A line is its number.  Of a pipe or a file, one read() may take several *)
(* lines into the buffer; the last line may lack its line feed, and then   *)
(* fgets() waits for more, or for the end.                                 *)
(***************************************************************************)
EXTENDS Integers

CONSTANTS
    Clients,        \* the client processes
    MaxTyped        \* bound: lines typed for each

ASSUME LoopAssumption == MaxTyped \in [Clients -> Nat]

VARIABLES
    typed,      \* typed[u]: lines written to descriptor 0
    partial,    \* partial[u]: the last of them has no line feed
    closed,     \* closed[u]: nothing more will come
    buffered,   \* buffered[u]: lines stdio has read
    taken,      \* taken[u]: lines fgets() has returned
    pc,         \* pc[u]: where the loop is
    ready       \* ready[u]: what select() found ready, "soc" or "stdin" or both

inputVars == <<typed, partial, closed>>
loopVars == <<buffered, taken, pc, ready>>

Places == {"connect", "select", "soc", "stdin", "more", "send", "ended"}

\* Before the loop; lines may be there already, and for the clients in files it is all.
LoopInit(there, files) ==
    /\ typed = there
    /\ partial = [u \in Clients |-> FALSE]
    /\ closed = [u \in Clients |-> u \in files]
    /\ buffered = [u \in Clients |-> 0]
    /\ taken = [u \in Clients |-> 0]
    /\ ready = [u \in Clients |-> {}]

\* The user, or whatever writes to the pipe.
TypeLine(u) ==
    /\ typed[u] < MaxTyped[u] /\ ~closed[u] /\ ~partial[u]
    /\ typed' = [typed EXCEPT ![u] = @ + 1]
    /\ partial' \in {partial, [partial EXCEPT ![u] = TRUE]}
    /\ UNCHANGED closed

CloseInput(u) ==
    /\ ~closed[u]
    /\ closed' = [closed EXCEPT ![u] = TRUE]
    /\ UNCHANGED <<typed, partial>>

Input(u) == TypeLine(u) \/ CloseInput(u)

\* What select() sees of descriptor 0.
StdinReady(u) == buffered[u] < typed[u] \/ closed[u]

Goto(u, place) == pc' = [pc EXCEPT ![u] = place]

\* select() returns; a timeout or an error only starts it again.
Select(u, socReady) ==
    /\ pc[u] = "select"
    /\ socReady \/ StdinReady(u)
    /\ ready' = [ready EXCEPT ![u] =
                    (IF socReady THEN {"soc"} ELSE {}) \cup (IF StdinReady(u) THEN {"stdin"} ELSE {})]
    /\ Goto(u, IF socReady THEN "soc" ELSE "stdin")
    /\ UNCHANGED <<buffered, taken>>

\* The socket has been dealt with; standard input is next if it was ready.
SocDone(u) ==
    /\ Goto(u, IF "stdin" \in ready[u] THEN "stdin" ELSE "select")
    /\ UNCHANGED <<buffered, taken, ready>>

\* mutant: fgets() drops what its buffer holds
FgetsFresh(u) ==
    /\ pc[u] = "stdin"
    /\ taken[u] < typed[u]
    /\ IF buffered[u] < typed[u]
       THEN \E k \in buffered[u] + 1 .. typed[u] : buffered' = [buffered EXCEPT ![u] = k]
       ELSE UNCHANGED buffered
    /\ LET line == buffered'[u] IN
           IF line = typed[u] /\ partial[u]
           THEN Goto(u, "more") /\ UNCHANGED taken
           ELSE Goto(u, "send") /\ taken' = [taken EXCEPT ![u] = line]
    /\ UNCHANGED ready

\* mutant: feof() is not asked for: at the end the line before is sent once more
FgetsAtEnd(u) ==
    /\ pc[u] = "stdin"
    /\ taken' = [taken EXCEPT ![u] = @ + 1]
    /\ buffered' = [buffered EXCEPT ![u] = typed[u]]
    /\ Goto(u, "send")
    /\ UNCHANGED ready

\* fgets(): a line from the buffer, or else from descriptor 0.
Fgets(u) ==
    /\ pc[u] = "stdin"
    /\ taken[u] < typed[u]
    /\ IF taken[u] < buffered[u]
       THEN UNCHANGED buffered
       ELSE \E k \in buffered[u] + 1 .. typed[u] : buffered' = [buffered EXCEPT ![u] = k]
    /\ LET line == taken[u] + 1 IN
           IF line = typed[u] /\ partial[u]
           THEN Goto(u, "more") /\ UNCHANGED taken
           ELSE Goto(u, "send") /\ taken' = [taken EXCEPT ![u] = line]
    /\ UNCHANGED ready

\* The end, before a line or in one: feof() is true either way, and the loop is left.
EndOfInput(u) ==
    /\ \/ pc[u] = "stdin" /\ taken[u] = typed[u]
       \/ pc[u] = "more"
    /\ closed[u]
    /\ Goto(u, "ended")
    /\ UNCHANGED <<buffered, taken, ready>>

\* Lines that wait in stdio's buffer while select() waits for descriptor 0.
HeldBack(u) == taken[u] < buffered[u] /\ ~StdinReady(u)

\* Lines typed so far, but for the piece at the end.
Lines(u) == IF partial[u] THEN typed[u] - 1 ELSE typed[u]

LoopTypeOK ==
    /\ typed \in [Clients -> Nat] /\ \A u \in Clients : typed[u] <= MaxTyped[u]
    /\ partial \in [Clients -> BOOLEAN]
    /\ closed \in [Clients -> BOOLEAN]
    /\ buffered \in [Clients -> Nat] /\ \A u \in Clients : buffered[u] <= typed[u]
    /\ taken \in [Clients -> Nat] /\ \A u \in Clients : taken[u] <= buffered[u]
    /\ pc \in [Clients -> Places]
    /\ ready \in [Clients -> SUBSET {"soc", "stdin"}]
=============================================================================
