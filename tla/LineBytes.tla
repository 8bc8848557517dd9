------------------------------ MODULE LineBytes ------------------------------
(***************************************************************************)
(* The bytes and the sizes chapter06/oneline.c and oneline1.c work with.   *)
(* A client sends letters and line ends.  A CR, which only moves the place *)
(* where a reply is cut, and a NUL, which is not text, are left out.       *)
(***************************************************************************)
EXTENDS Naturals, Sequences, FiniteSets

CONSTANTS
    Letters,            \* bytes other than the line end
    NL,                 \* the byte '\n'
    NUL,                \* the byte '\0'
    FIXED_BUFFER_SIZE,  \* the size of the fixed buffers
    ALLOC_SIZE,         \* RECV_ONE_LINE_2_ALLOC_SIZE
    ALLOC_LIMIT,        \* RECV_ONE_LINE_2_ALLOC_LIMIT
    MAX_CHILD,          \* oneline1.c: connections plus one
    MaxBytes,           \* bound: bytes a client sends to oneline.c
    MaxFailures         \* bound: allocations that fail

ASSUME LineAssumption ==
    /\ NL \notin Letters /\ NUL \notin Letters /\ NL # NUL
    /\ FIXED_BUFFER_SIZE \in Nat \ {0, 1}
    /\ ALLOC_SIZE \in Nat \ {0, 1}
    /\ ALLOC_LIMIT \in Nat
    /\ MAX_CHILD \in Nat \ {0}
    /\ MaxBytes \in Nat /\ MaxFailures \in Nat

Bytes == Letters \cup {NL}
LastIs(s, b) == s # <<>> /\ s[Len(s)] = b
==============================================================================
