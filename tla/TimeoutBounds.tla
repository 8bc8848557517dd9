---------------------------- MODULE TimeoutBounds ----------------------------
(***************************************************************************)
(* Time, for the programs that wait with a timeout (chapter06/timeout.c    *)
(* and chapter04/client-timeout.c), and the bounds of their models.  Time  *)
(* passes in ticks, while a program sleeps or waits.                       *)
(***************************************************************************)
EXTENDS Integers

CONSTANTS
    TIMEOUT_SEC,
    Ticks,          \* ticks in a second
    MaxLines,       \* bound: lines that wait together in the socket
    MaxSignals      \* bound: waits of one call that a signal interrupts

ASSUME TimeoutAssumption ==
    /\ TIMEOUT_SEC \in Nat \ {0}
    /\ Ticks \in Nat \ {0}
    /\ MaxLines \in Nat \ {0}
    /\ MaxSignals \in Nat

Deadline == TIMEOUT_SEC * Ticks
=============================================================================
